------------------------------- MODULE JdUart -------------------------------
(***************************************************************************)
(* The Jacdac single-wire bus driver of main/hw-esp32.c.                   *)
(*                                                                         *)
(* Four actors share the driver's context:                                 *)
(*   - the remote end of the wire, which pulls the line low, sends a frame *)
(*     and ends it with a break;                                           *)
(*   - the UART hardware, which raises interrupt bits (sticky whether or   *)
(*     not the bit is enabled) and moves bytes through its FIFOs;          *)
(*   - uart_isr, which runs to completion and which only a critical        *)
(*     section (target_disable_irq) keeps out;                             *)
(*   - the esp_timer task, which runs jd_timer0 and the client's calls     *)
(*     (uart_start_tx, uart_start_rx, uart_disable) one after another, and *)
(*     which the interrupt may preempt between any two steps below.        *)
(* Every step of the task below is one critical section, one unlocked      *)
(* access, or one call of the client, which is made after the flag that    *)
(* asked for it has been cleared.  Bytes are counted, never spelled out.   *)
(* The board has a Jacdac pin: uart_init_ found it and took the interrupt. *)
(***************************************************************************)
EXTENDS Naturals, FiniteSets

CONSTANTS
  FifoLen,      (* UART_FIFO_LEN: bytes the RX and the TX FIFO hold         *)
  FullThresh,   (* UART_FULL_THRESH_DEFAULT                                 *)
  EmptyThresh,  (* UART_EMPTY_THRESH_DEFAULT                                *)
  MaxBytes,     (* bytes of the buffer the client lends to uart_start_rx    *)
  NumBytes,     (* bytes of the frame the client passes to uart_start_tx    *)
  MaxFrame,     (* bound: bytes of a frame the remote end sends             *)
  Faults        (* what the wire and the scheduler may do to the driver     *)

(***************************************************************************)
(* Faults:                                                                 *)
(*   late     the interrupt and jd_timer0 may lag behind any number of     *)
(*            edges of the wire                                            *)
(*   gap      the remote pauses inside its frame beyond the timeouts       *)
(*   noise    a framing error anywhere                                     *)
(*   die      the remote stops without the final break                     *)
(*   stuck    the line stays low beyond the 50000 turns of tx_race         *)
(*   edge     the break is detected between the test of int_raw and the    *)
(*            disconnection of the pin in uart_start_tx                    *)
(*   collide  the remote starts while this device transmits                *)
(***************************************************************************)
FaultKinds == {"late", "gap", "noise", "die", "stuck", "edge", "collide"}

ASSUME ConstantsOK ==
  /\ FifoLen \in Nat \ {0}
  /\ FullThresh \in 1..FifoLen
  /\ EmptyThresh \in 1..FifoLen
  /\ MaxBytes \in Nat \ {0}
  /\ NumBytes \in Nat \ {0}
  /\ MaxFrame \in Nat \ {0}
  /\ Faults \subseteq FaultKinds

VARIABLES
  bus,        (* what the remote end is doing on the wire                   *)
  sent,       (* bytes the remote has sent of its frame                     *)
  pin,        (* how the pin is routed: "rx", "off" (pulsing), "tx"         *)
  raw,        (* int_raw: interrupt bits raised                             *)
  ena,        (* int_ena: interrupt bits enabled                            *)
  rxfifo,     (* status.rxfifo_cnt                                          *)
  txfifo,     (* status.txfifo_cnt                                          *)
  txd_brk,    (* conf0.txd_brk: a break is to follow the TX FIFO            *)
  seen_low, rx_ended, in_tx, tx_len, rx_len, data_left, (* of jacdac_ctx_t  *)
  fifo_buf,   (* whose memory fifo_buf points into: "none", "rx" or "tx"    *)
  cb,         (* which of cb_rx, cb_tx, cb_fall are set                     *)
  timer0,     (* the one-shot timer that runs jd_timer0 is armed            *)
  tpc,        (* where the esp_timer task is                                *)
  client,     (* operations the client has under way: subset of {"rx","tx"} *)
  panic       (* the assertion or JD_PANIC that stopped the firmware        *)

wire    == <<bus, sent, pin, raw, ena, rxfifo, txfifo, txd_brk>>
context == <<seen_low, rx_ended, in_tx, tx_len, rx_len, data_left, fifo_buf, cb, timer0>>
vars    == <<wire, context, tpc, client, panic>>

RxEndFlags == {"TOUT", "BRK", "FRM"}
IntBits    == RxEndFlags \union {"FULL", "TXBRK", "TXEMPTY"}

\* Steps of the task that run with interrupts disabled.
Masked  == {"tx_pulse", "tx_race", "tx_go"}
TaskPcs == {"idle", "t0_rx", "t0_rx_clr", "t0_rx_call", "t0_tx", "t0_tx_clr", "t0_tx_call",
            "t0_fall", "t0_fall_clr", "t0_fall_call",
            "rx_check", "rx_lend", "rx_flush", "rx_poll", "rx_abort", "rx_call",
            "tx_check", "tx_mask"} \union Masked

TypeOK ==
  /\ bus \in {"idle", "low", "lowdet", "data"} /\ sent \in 0..MaxFrame
  /\ pin \in {"rx", "off", "tx"}
  /\ raw \subseteq IntBits /\ ena \subseteq IntBits
  /\ rxfifo \in 0..FifoLen /\ txfifo \in 0..FifoLen
  /\ txd_brk \in BOOLEAN
  /\ seen_low \in BOOLEAN /\ rx_ended \in BOOLEAN /\ in_tx \in BOOLEAN
  /\ tx_len \in 0..NumBytes /\ rx_len \in 0..MaxBytes /\ data_left \in 0..MaxBytes
  /\ fifo_buf \in {"none", "rx", "tx"}
  /\ cb \subseteq {"rx", "tx", "fall"}
  /\ timer0 \in BOOLEAN
  /\ tpc \in TaskPcs
  /\ client \subseteq {"rx", "tx"}
  /\ panic \in {"none", "rx_busy", "tx_busy", "bg_rx_in_tx", "low_in_tx"}

Init ==
  /\ bus = "idle" /\ sent = 0 /\ pin = "rx"
  /\ raw = {} /\ ena = {"BRK"}
  /\ rxfifo = 0 /\ txfifo = 0 /\ txd_brk = FALSE
  /\ seen_low = FALSE /\ rx_ended = FALSE /\ in_tx = FALSE
  /\ tx_len = 0 /\ rx_len = 0 /\ data_left = 0 /\ fifo_buf = "none"
  /\ cb = {} /\ timer0 = FALSE
  /\ tpc = "idle" /\ client = {} /\ panic = "none"

-----------------------------------------------------------------------------
(* Helpers shared by the interrupt and the task.                           *)

Least(a, b) == IF a < b THEN a ELSE b

\* read_fifo: either it returns early, or it leaves the RX FIFO empty (what
\* does not fit in the buffer is dropped by the reset).
ReadSkips == fifo_buf = "none" /\ rxfifo < FullThresh - 1
RxTaken   == Least(rxfifo, rx_len)

read_fifo(force) ==
  IF ~force /\ ReadSkips
  THEN UNCHANGED <<rxfifo, rx_len>>
  ELSE rxfifo' = 0 /\ rx_len' = rx_len - RxTaken

\* fill_fifo, for a frame of which len bytes are left: the last piece is
\* followed by a break, whose end raises TXBRK.
fill_fifo(len, bits, enabled) ==
  LET n    == Least(len, FifoLen - txfifo)
      last == n = len
      used == IF last THEN {"TXBRK", "TXEMPTY"} ELSE {"TXEMPTY"}
  IN  IF len = 0
      THEN raw' = bits /\ ena' = enabled /\ UNCHANGED <<tx_len, txfifo, txd_brk>>
      ELSE /\ txfifo'  = txfifo + n
           /\ tx_len'  = len - n
           /\ txd_brk' = (txd_brk \/ last)
           /\ raw' = bits \ used
           /\ ena' = enabled \union used

\* uart_disable, with the interrupt bits that are left of int_raw.
uart_disable(bits) ==
  /\ raw' = bits \ ena
  /\ ena' = {"BRK"}
  /\ seen_low' = FALSE
  /\ rx_len' = 0 /\ tx_len' = 0
  /\ fifo_buf' = "none"
  /\ rxfifo' = 0
  /\ pin' = "rx"

\* Faulty variant: schedule_timer0 forgotten.
start_bg_rx_NoAlarm ==
  /\ panic' = IF in_tx THEN "bg_rx_in_tx" ELSE panic
  /\ read_fifo(TRUE)
  /\ seen_low' = TRUE
  /\ ena' = ena \union RxEndFlags \union {"FULL"}
  /\ cb' = (IF fifo_buf = "none" THEN cb \union {"fall"} ELSE cb) /\ UNCHANGED timer0

\* start_bg_rx: a frame is about to arrive; the client is told through cb_fall.
start_bg_rx ==
  /\ panic' = IF in_tx THEN "bg_rx_in_tx" ELSE panic
  /\ read_fifo(TRUE)
  /\ seen_low' = TRUE
  /\ ena' = ena \union RxEndFlags \union {"FULL"}
  /\ cb' = IF fifo_buf = "none" THEN cb \union {"fall"} ELSE cb
  /\ timer0' = (timer0 \/ fifo_buf = "none")

-----------------------------------------------------------------------------
(* The interrupt handler: one action per branch of uart_isr.               *)

Status == raw \intersect ena

IsrLowPulse ==
  /\ ~seen_low /\ "BRK" \in Status
  /\ start_bg_rx
  /\ raw' = raw \ Status
  /\ UNCHANGED <<pin, txfifo, txd_brk, rx_ended, in_tx, tx_len, data_left, fifo_buf>>

\* Faulty variants: schedule_timer0 forgotten; in_tx not reset.
IsrTxDone_NoAlarm ==
  /\ seen_low \/ "BRK" \notin Status
  /\ "TXBRK" \in Status
  /\ uart_disable(raw \ Status)
  /\ txd_brk' = FALSE /\ in_tx' = FALSE /\ rx_ended' = FALSE
  /\ cb' = (cb \ {"fall"}) \union {"tx"} /\ UNCHANGED timer0
  /\ UNCHANGED <<txfifo, data_left, panic>>

IsrTxDone_KeepsInTx ==
  /\ seen_low \/ "BRK" \notin Status
  /\ "TXBRK" \in Status
  /\ uart_disable(raw \ Status)
  /\ txd_brk' = FALSE /\ UNCHANGED in_tx /\ rx_ended' = FALSE
  /\ cb' = (cb \ {"fall"}) \union {"tx"} /\ timer0' = TRUE
  /\ UNCHANGED <<txfifo, data_left, panic>>

IsrTxDone ==
  /\ seen_low \/ "BRK" \notin Status
  /\ "TXBRK" \in Status
  /\ uart_disable(raw \ Status)
  /\ txd_brk' = FALSE /\ in_tx' = FALSE /\ rx_ended' = FALSE
  /\ cb' = (cb \ {"fall"}) \union {"tx"} /\ timer0' = TRUE
  /\ UNCHANGED <<txfifo, data_left, panic>>

IsrTxEmpty ==
  /\ seen_low \/ "BRK" \notin Status
  /\ "TXBRK" \notin Status /\ "TXEMPTY" \in Status
  /\ read_fifo(FALSE)
  /\ fill_fifo(tx_len, raw \ Status, ena \ {"TXEMPTY"})
  /\ UNCHANGED <<pin, seen_low, rx_ended, in_tx, data_left, fifo_buf, cb, timer0, panic>>

\* Faulty variant: data_left taken before the FIFO is read.
IsrRxEnd_EarlyCount ==
  /\ seen_low \/ "BRK" \notin Status
  /\ Status \intersect {"TXBRK", "TXEMPTY"} = {} /\ Status \intersect RxEndFlags # {}
  /\ data_left' = rx_len
  /\ uart_disable(raw \ Status)
  /\ IF fifo_buf # "none"
     THEN cb' = (cb \ {"fall"}) \union {"rx"} /\ timer0' = TRUE /\ rx_ended' = FALSE
     ELSE cb' = cb \ {"fall"} /\ rx_ended' = TRUE /\ UNCHANGED timer0
  /\ UNCHANGED <<txfifo, txd_brk, in_tx, panic>>

IsrRxEnd ==
  /\ seen_low \/ "BRK" \notin Status
  /\ Status \intersect {"TXBRK", "TXEMPTY"} = {} /\ Status \intersect RxEndFlags # {}
  /\ data_left' = IF ReadSkips THEN rx_len ELSE rx_len - RxTaken
  /\ uart_disable(raw \ Status)
  /\ IF fifo_buf # "none"
     THEN cb' = (cb \ {"fall"}) \union {"rx"} /\ timer0' = TRUE /\ rx_ended' = FALSE
     ELSE cb' = cb \ {"fall"} /\ rx_ended' = TRUE /\ UNCHANGED timer0
  /\ UNCHANGED <<txfifo, txd_brk, in_tx, panic>>

IsrFull ==
  /\ Status = {"FULL"}
  /\ read_fifo(FALSE)
  /\ raw' = raw \ Status
  /\ UNCHANGED <<pin, ena, txfifo, txd_brk, seen_low, rx_ended, in_tx, tx_len, data_left,
                 fifo_buf, cb, timer0, panic>>

uart_isr ==
  /\ panic = "none" /\ tpc \notin Masked /\ Status # {}
  /\ IsrLowPulse \/ IsrTxDone \/ IsrTxEmpty \/ IsrRxEnd \/ IsrFull
  /\ UNCHANGED <<bus, sent, tpc, client>>

-----------------------------------------------------------------------------
(* The esp_timer task.                                                     *)

Goto(from, to) == panic = "none" /\ tpc = from /\ tpc' = to

buffers == <<seen_low, rx_ended, in_tx, tx_len, rx_len, data_left, fifo_buf>>

\* jd_timer0: the alarm is taken off the list before the callback runs.
Timer0Fires ==
  /\ Goto("idle", "t0_rx")
  /\ timer0 /\ timer0' = FALSE
  /\ UNCHANGED <<wire, buffers, cb, client, panic>>

TestFlag(flag, at, clear, next) ==
  /\ Goto(at, IF flag \in cb THEN clear ELSE next)
  /\ UNCHANGED <<wire, context, client, panic>>

\* Faulty variant: the flag stays set, and the client is called again.
ClearFlag_Not(flag, at, call) ==
  /\ Goto(at, call)
  /\ UNCHANGED <<wire, context, client, panic>>

ClearFlag(flag, at, call) ==
  /\ Goto(at, call) /\ cb' = cb \ {flag}
  /\ UNCHANGED <<wire, buffers, timer0, client, panic>>

\* jd_rx_completed or jd_tx_completed: the client has its buffer back, unless it
\* has taken it back before.
Completed(op, at, next) ==
  /\ Goto(at, next) /\ client' = client \ {op}
  /\ UNCHANGED <<wire, context, panic>>

\* jd_line_falling: the client calls uart_start_rx.
LineFalling ==
  /\ Goto("t0_fall_call", "rx_check") /\ client' = client \union {"rx"}
  /\ UNCHANGED <<wire, context, panic>>

jd_timer0 ==
  \/ TestFlag("rx", "t0_rx", "t0_rx_clr", "t0_tx")
  \/ ClearFlag("rx", "t0_rx_clr", "t0_rx_call")
  \/ Completed("rx", "t0_rx_call", "t0_tx")
  \/ TestFlag("tx", "t0_tx", "t0_tx_clr", "t0_fall")
  \/ ClearFlag("tx", "t0_tx_clr", "t0_tx_call")
  \/ Completed("tx", "t0_tx_call", "t0_fall")
  \/ TestFlag("fall", "t0_fall", "t0_fall_clr", "idle")
  \/ ClearFlag("fall", "t0_fall_clr", "t0_fall_call")
  \/ LineFalling

\* uart_start_rx, from its JD_PANIC to the synchronous completion.
RxCheck ==
  /\ Goto("rx_check", "rx_lend")
  /\ panic' = IF rx_len # 0 \/ tx_len # 0 THEN "rx_busy" ELSE panic
  /\ UNCHANGED <<wire, context, client>>

\* Faulty variant: one byte more than the buffer has.
RxLend_OffByOne ==
  /\ Goto("rx_lend", "rx_flush")
  /\ fifo_buf' = "rx" /\ rx_len' = MaxBytes + 1
  /\ UNCHANGED <<wire, seen_low, rx_ended, in_tx, tx_len, data_left, cb, timer0, client, panic>>

RxLend ==
  /\ Goto("rx_lend", "rx_flush")
  /\ fifo_buf' = "rx" /\ rx_len' = MaxBytes
  /\ UNCHANGED <<wire, seen_low, rx_ended, in_tx, tx_len, data_left, cb, timer0, client, panic>>

uart_flush_rx ==
  /\ Goto("rx_flush", "rx_poll")
  /\ read_fifo(TRUE)
  /\ UNCHANGED <<bus, sent, pin, raw, ena, txfifo, txd_brk, seen_low, rx_ended, in_tx, tx_len,
                 data_left, fifo_buf, cb, timer0, client, panic>>

RxPoll ==
  /\ Goto("rx_poll", IF rx_ended THEN "rx_abort" ELSE "idle")
  /\ UNCHANGED <<wire, context, client, panic>>

\* Faulty variants: the length, the buffer forgotten.
RxAbort_KeepsLen ==
  /\ Goto("rx_abort", "rx_call")
  /\ seen_low' = FALSE /\ rx_ended' = FALSE /\ fifo_buf' = "none"
  /\ UNCHANGED <<wire, in_tx, tx_len, rx_len, data_left, cb, timer0, client, panic>>

RxAbort_KeepsBuffer ==
  /\ Goto("rx_abort", "rx_call")
  /\ seen_low' = FALSE /\ rx_ended' = FALSE /\ rx_len' = 0
  /\ UNCHANGED <<wire, in_tx, tx_len, data_left, fifo_buf, cb, timer0, client, panic>>

RxAbort ==
  /\ Goto("rx_abort", "rx_call")
  /\ seen_low' = FALSE /\ rx_ended' = FALSE /\ rx_len' = 0 /\ fifo_buf' = "none"
  /\ UNCHANGED <<wire, in_tx, tx_len, data_left, cb, timer0, client, panic>>

\* uart_start_rx.  The reception had ended before the buffer was lent: RxAbort.
uart_start_rx ==
  RxCheck \/ RxLend \/ uart_flush_rx \/ RxPoll \/ RxAbort \/ Completed("rx", "rx_call", "idle")

\* uart_start_tx.  The client calls it only while it has nothing under way.
TxCall ==
  /\ Goto("idle", "tx_check")
  /\ client = {} /\ client' = {"tx"}
  /\ UNCHANGED <<wire, context, panic>>

TxCheck ==
  /\ Goto("tx_check", "tx_mask")
  /\ panic' = IF tx_len # 0 \/ in_tx THEN "tx_busy" ELSE panic
  /\ UNCHANGED <<wire, context, client>>

TxRefuse == client' = client \ {"tx"}

TxMask ==
  /\ IF seen_low \/ "BRK" \in raw
     THEN Goto("tx_mask", "idle") /\ TxRefuse
     ELSE Goto("tx_mask", "tx_pulse") /\ UNCHANGED client
  /\ UNCHANGED <<wire, context, panic>>

\* The levels probe_and_set may read off the wire.
LineLevels ==
  CASE bus = "idle" -> {1}
    [] bus \in {"low", "lowdet"} -> {0}
    [] bus = "data" -> {0, 1}

\* The line went down in the meantime.
TxLost ==
  /\ Goto("tx_pulse", "tx_race")
  /\ 0 \in LineLevels
  /\ pin' = "off"
  /\ UNCHANGED <<bus, sent, raw, ena, rxfifo, txfifo, txd_brk, context, client, panic>>

TxPulse ==
  /\ Goto("tx_pulse", "tx_go")
  /\ 1 \in LineLevels
  /\ pin' = "off" /\ in_tx' = TRUE
  /\ panic' = IF seen_low THEN "low_in_tx" ELSE panic
  /\ UNCHANGED <<bus, sent, raw, ena, rxfifo, txfifo, txd_brk, seen_low, rx_ended, tx_len, rx_len,
                 data_left, fifo_buf, cb, timer0, client>>

tx_race ==
  /\ Goto("tx_race", "idle")
  /\ 1 \in LineLevels \/ "stuck" \in Faults
  /\ pin' = "rx"
  /\ IF seen_low
     THEN UNCHANGED <<ena, rxfifo, rx_len, seen_low, cb, timer0, panic>>
     ELSE start_bg_rx
  /\ TxRefuse
  /\ UNCHANGED <<bus, sent, raw, txfifo, txd_brk, rx_ended, in_tx, tx_len, data_left, fifo_buf>>

TxGo ==
  /\ Goto("tx_go", "idle")
  /\ pin' = "tx"
  /\ fifo_buf' = "tx"
  /\ fill_fifo(NumBytes, {}, ena)
  /\ UNCHANGED <<bus, sent, rxfifo, seen_low, rx_ended, in_tx, rx_len, data_left, cb, timer0,
                 client, panic>>

uart_start_tx == TxCall \/ TxCheck \/ TxMask \/ TxLost \/ TxPulse \/ tx_race \/ TxGo

\* The client's reception timeout: uart_disable, then it takes its buffer back.
RxTimeout ==
  /\ Goto("idle", "idle")
  /\ "rx" \in client /\ client' = client \ {"rx"}
  /\ bus # "idle" => "gap" \in Faults
  /\ uart_disable(raw)
  /\ rx_ended' = FALSE /\ cb' = cb \ {"fall"}
  /\ UNCHANGED <<bus, sent, txfifo, txd_brk, in_tx, data_left, timer0, panic>>

Task == Timer0Fires \/ jd_timer0 \/ uart_start_rx \/ uart_start_tx \/ RxTimeout

-----------------------------------------------------------------------------
(* The hardware and the wire.                                              *)

HwOnly == panic = "none" /\ UNCHANGED <<ena, pin, txd_brk, context, tpc, client, panic>>

\* Without "late", every interrupt and every flag has been served before the
\* next edge that matters to the driver.
Served ==
  \/ "late" \in Faults
  \/ cb = {} /\ Status = {} /\ tpc \in {"idle", "tx_check", "tx_mask"}

Receiving == pin = "rx"
Raise(bits) == raw' = raw \union bits

RemoteLow ==
  /\ bus = "idle" /\ bus' = "low" /\ sent' = 0
  /\ Receiving \/ "collide" \in Faults
  /\ HwOnly /\ UNCHANGED <<raw, rxfifo, txfifo>>

\* Ten bit times of low are a break.
BreakDetected ==
  /\ bus = "low" /\ bus' = "lowdet" /\ Receiving
  /\ Served \/ (tpc = "tx_pulse" /\ "edge" \in Faults)
  /\ Raise({"BRK"})
  /\ HwOnly /\ UNCHANGED <<sent, rxfifo, txfifo>>

RemoteHigh ==
  /\ bus = "lowdet" \/ (bus = "low" /\ ~Receiving)
  /\ bus' = "data"
  /\ HwOnly /\ UNCHANGED <<sent, raw, rxfifo, txfifo>>

\* Without "late" the interrupt has seen the low pulse before the first byte, and
\* the task lends its buffer before the FIFO runs full.
RemoteByte ==
  /\ bus = "data" /\ Receiving /\ sent < MaxFrame /\ sent' = sent + 1
  /\ rxfifo < FifoLen /\ rxfifo' = rxfifo + 1
  /\ Served \/ (Status = {} /\ rxfifo + 2 < FullThresh)
  /\ Raise(IF rxfifo' >= FullThresh THEN {"FULL"} ELSE {})
  /\ HwOnly /\ UNCHANGED <<bus, txfifo>>

RemoteEnd ==
  /\ bus = "data" /\ bus' = "idle" /\ Served
  /\ Raise(IF Receiving THEN {"BRK"} ELSE {})
  /\ HwOnly /\ UNCHANGED <<sent, rxfifo, txfifo>>

RemoteDies ==
  /\ "die" \in Faults
  /\ bus = "data" /\ bus' = "idle"
  /\ HwOnly /\ UNCHANGED <<sent, raw, rxfifo, txfifo>>

\* Bytes have waited in the RX FIFO for rx_timeout_thresh bit times.
RxFifoTimeout ==
  /\ rxfifo > 0 /\ "TOUT" \notin raw /\ Served
  /\ bus = "data" /\ Receiving => "gap" \in Faults
  /\ Raise({"TOUT"})
  /\ HwOnly /\ UNCHANGED <<bus, sent, rxfifo, txfifo>>

FramingError ==
  /\ "noise" \in Faults
  /\ Receiving /\ "FRM" \notin raw /\ Served
  /\ Raise({"FRM"})
  /\ HwOnly /\ UNCHANGED <<bus, sent, rxfifo, txfifo>>

TxByteSent ==
  /\ txfifo > 0 /\ txfifo' = txfifo - 1
  /\ HwOnly /\ UNCHANGED <<bus, sent, raw, rxfifo>>

TxFifoLow ==
  /\ txfifo < EmptyThresh /\ "TXEMPTY" \in ena \ raw
  /\ Raise({"TXEMPTY"})
  /\ HwOnly /\ UNCHANGED <<bus, sent, rxfifo, txfifo>>

TxBreakSent ==
  /\ txd_brk /\ txfifo = 0 /\ "TXBRK" \notin raw
  /\ Raise({"TXBRK"})
  /\ HwOnly /\ UNCHANGED <<bus, sent, rxfifo, txfifo>>

Remote == RemoteLow \/ RemoteHigh \/ RemoteByte \/ RemoteEnd \/ RemoteDies
Hw     == BreakDetected \/ RxFifoTimeout \/ FramingError \/ TxByteSent \/ TxFifoLow \/ TxBreakSent

Next == uart_isr \/ Task \/ Remote \/ Hw

Spec == Init /\ [][Next]_vars

(***************************************************************************)
(* Fairness.  The interrupt and the task (priority 22, the highest of the  *)
(* application) run whenever they can; esp_timer takes its alarms in the   *)
(* order they are due, so no later alarm overtakes timer0 for ever; the    *)
(* hardware and a live remote end carry on.  Nothing obliges a remote to   *)
(* start, or the client to transmit or to time out.                        *)
(***************************************************************************)
Fairness ==
  /\ WF_vars(uart_isr)
  /\ SF_vars(Timer0Fires) /\ WF_vars(jd_timer0) /\ WF_vars(uart_start_rx)
  /\ WF_vars(TxCheck \/ TxMask \/ TxLost \/ TxPulse \/ tx_race \/ TxGo)
  /\ WF_vars(BreakDetected) /\ WF_vars(RemoteHigh) /\ WF_vars(RemoteEnd)
  /\ WF_vars(TxByteSent) /\ WF_vars(TxFifoLow) /\ WF_vars(TxBreakSent)

FairSpec == Spec /\ Fairness

-----------------------------------------------------------------------------
(* Properties.                                                             *)

\* No JD_ASSERT and no JD_PANIC of the driver fires: uart_start_tx finds no
\* transmission under way, uart_start_rx no buffer still lent, and start_bg_rx
\* never runs while the driver transmits.
AssertsHold == panic = "none"

\* The assertion of start_bg_rx alone, hw-esp32.c:305.
NeverRxInTx == panic # "bg_rx_in_tx"

\* The interrupt handler touches a buffer only while the client has lent it: a
\* receive buffer between jd_line_falling and jd_rx_completed, a transmit buffer
\* between uart_start_tx and jd_tx_completed, and the handler never stores
\* received bytes into the buffer that is being transmitted.
BufferOwnership ==
  /\ fifo_buf = "rx" => "rx" \in client
  /\ fifo_buf = "tx" => "tx" \in client /\ in_tx /\ rx_len = 0

\* The operation under way, as the client sees it: "broken" is a transmission whose
\* buffer the driver has dropped on a receive error, and that will not complete.
Op ==
  IF tpc \in {"t0_fall_clr", "t0_fall_call"} THEN "announced"
  ELSE IF "rx" \in client THEN "receiving"
  ELSE IF client = {} THEN "idle"
  ELSE IF in_tx THEN IF tpc = "tx_go" \/ fifo_buf = "tx" THEN "sending" ELSE "broken"
  ELSE IF "tx" \in cb \/ tpc = "t0_tx_call" THEN "sent" ELSE "asked"

\* The completion the driver is calling.
Call ==
  CASE tpc = "t0_rx_call" -> "rx"
    [] tpc = "t0_tx_call" -> "tx"
    [] tpc = "rx_call"    -> "early"
    [] OTHER -> "none"

\* A jd_rx_completed is flagged, and the client has no reception under way.
Stray == "rx" \in cb /\ "rx" \notin client

Bus == INSTANCE BusService WITH op <- Op, call <- Call, stray <- Stray

\* The driver implements the half-duplex bus of BusService: one operation at a time, and
\* jd_rx_completed or jd_tx_completed is called for the operation under way, once.  The
\* one exception is a single stray jd_rx_completed: after the client gave a reception up
\* whose completion was flagged; after uart_start_rx completed a reception that the
\* interrupt flagged too; after noise broke a transmission off.  It comes before the
\* next reception is announced, so that it is never taken for that one's
\* (hw-esp32.c:92-104, 345-358, 378-485).
HalfDuplex == Bus!BusSpec

\* read_fifo and fill_fifo never copy through a NULL fifo_buf, and bytes left to
\* transmit are in the transmit buffer.
FifoHasBuffer ==
  /\ rx_len > 0 => fifo_buf # "none"
  /\ tx_len > 0 => fifo_buf = "tx"

\* A flag that the interrupt sets is never forgotten: either the alarm of
\* jd_timer0 is armed, or jd_timer0 has yet to pass the test of that flag.
RxTurn == {"t0_rx", "t0_rx_clr"}
TxTurn == {"t0_tx", "t0_tx_clr"}
FlagPcs ==
  [rx   |-> RxTurn,
   tx   |-> RxTurn \union {"t0_rx_call"} \union TxTurn,
   fall |-> RxTurn \union {"t0_rx_call"} \union TxTurn \union {"t0_tx_call"}
              \union {"t0_fall", "t0_fall_clr"}]

CallbacksArmed == \A f \in cb : timer0 \/ tpc \in FlagPcs[f]

\* A transmission belongs to the client that started it until jd_tx_completed:
\* uart_start_tx never finds an earlier one still in the hardware (line 389),
\* and it never starts one after a low pulse has been seen (line 413).
TxExclusive ==
  /\ in_tx => "tx" \in client
  /\ panic \notin {"tx_busy", "low_in_tx"}

(***************************************************************************)
(* TxExclusive is not inductive.  Behind it: the TX interrupts are enabled *)
(* and bytes are left only during a transmission; a completion is pending  *)
(* only after it; uart_start_tx runs, from its first test on, with nothing *)
(* of an earlier transmission left; uart_start_rx runs past its JD_PANIC   *)
(* with no byte left to transmit.                                          *)
(***************************************************************************)
TxStartPcs == {"tx_check", "tx_mask", "tx_pulse", "tx_race"}

TxPhases ==
  /\ ena \intersect {"TXBRK", "TXEMPTY"} # {} => in_tx
  /\ tx_len > 0 => in_tx
  /\ "tx" \in cb => "tx" \in client /\ ~in_tx
  /\ tpc = "t0_tx_clr" => "tx" \in cb
  /\ tpc = "t0_tx_call" => "tx" \in client /\ "tx" \notin cb /\ ~in_tx
  /\ tpc \in TxStartPcs => "tx" \in client /\ "tx" \notin cb /\ ~in_tx
  /\ tpc = "tx_go" => in_tx
  /\ tpc \in Masked => ~seen_low
  /\ panic = "none" /\ tpc \in {"rx_lend", "rx_flush", "rx_poll", "rx_abort"} => tx_len = 0

\* A reception that completes has handed over every byte of the frame that fits
\* in the buffer: data_left is what the frame left free.
FrameComplete ==
  "rx" \in cb /\ bus = "idle" => data_left = MaxBytes - Least(sent, MaxBytes)

\* Every reception and every transmission the client starts comes to its end.
OperationsEnd ==
  /\ "rx" \in client ~> "rx" \notin client
  /\ "tx" \in client ~> "tx" \notin client

\* Every low pulse the interrupt has seen is announced by jd_line_falling.
LowPulseAnnounced == seen_low ~> "rx" \in client
=============================================================================
