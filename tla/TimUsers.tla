------------------------------ MODULE TimUsers ------------------------------
(***************************************************************************)
(* The users of the timer worker together: the SPI master, the LED strip   *)
(* and the console on TinyUSB share its queue, the task that empties it,   *)
(* and the main task, which is inside one of them at a time.  None of them *)
(* looks at what tim_worker_run returns.                                   *)
(***************************************************************************)
EXTENDS TimQueue

CONSTANTS
  SpiIds, LedIds,              (* done functions of the two kinds of transfer *)
  Targets, DataLen, MemLen,    (* see LedStrip                              *)
  MaxWrites, MaxReads, ReadMax (* see Usb                                   *)

VARIABLES
  spi, spi_in_use, user, xfer, queued, results, spi_owed,
  led_chan, target, led_in_use, led_done_fn, send, sending, enc, mem, led_owed,
  chip, written, out, tx, fq_scheduled, pull, raw, ena, arrived, rx, count, buf, got, raced

Spi == INSTANCE Spi WITH Ids <- SpiIds, Callers <- {"main"}, owed <- spi_owed
Led == INSTANCE LedStrip WITH Ids <- LedIds, owed <- led_owed
Usb == INSTANCE Usb WITH target <- chip

\* A done function is none of the calls the users make themselves.
ASSUME ConstantsOK ==
  /\ Spi!SpiConstantsOK /\ Led!LedConstantsOK /\ Usb!BoundsOK
  /\ SpiIds \cap LedIds = {}
  /\ (SpiIds \union LedIds) \cap {"null", "idle", "spi_done", "led_done", "led_disabled",
                                  "led_free", "fill_queue"} = {}

spiVars == <<spi, spi_in_use, user, xfer, queued, results, spi_owed>>
ledVars == <<led_chan, target, led_in_use, led_done_fn, send, sending, enc, mem, led_owed>>
usbVars == <<chip, written, out, tx, fq_scheduled, pull, raw, ena,
             arrived, rx, count, buf, got, raced>>
vars    == <<spiVars, ledVars, usbVars, shared>>

Calls == SpiIds \union {"spi_done", "led_done", "fill_queue"}

TypeOK ==
  /\ Spi!TypeOK /\ Led!TypeOK /\ Usb!TypeOK
  /\ queue \in Seq(Calls) /\ Len(queue) <= QueueLen
  /\ tim \in SpiIds \union LedIds \union {"idle", "led_disabled", "led_free", "fill_queue"}
  /\ failed \in {"none", "in_use", "result", "null_fn", "rmt"}

Init == Spi!Init /\ Led!Init /\ Usb!Init /\ chip = "tinyusb"

\* The main task is in one function at a time.
MainInSpi == xfer["main"].pc # "out"
MainInLed == send.pc # "out"
MainInUsb == pull["main"] # "out"
OneMain   == ~(MainInSpi /\ MainInLed) /\ ~(MainInSpi /\ MainInUsb) /\ ~(MainInLed /\ MainInUsb)

Next ==
  /\ \/ Spi!Next /\ UNCHANGED <<ledVars, usbVars>>
     \/ Led!Next /\ UNCHANGED <<spiVars, usbVars>>
     \/ Usb!Next /\ UNCHANGED <<spiVars, ledVars>>
  /\ OneMain'

Spec == Init /\ [][Next]_vars

FairSpec == Spec /\ Spi!Fairness /\ Led!Fairness /\ Usb!Fairness

-----------------------------------------------------------------------------
\* The assertions of jd_spi_done_cb, jd_spi_done_cb_outside_isr and led_strip_done
\* hold, and no RMT call is made in a state in which the driver refuses it (a
\* channel enabled twice, deleted while enabled, used while disabled).
AssertsHold == failed = "none"

\* What a transfer under way uses is left alone until its done function has been
\* called: the static SPI transaction and its device, the LED strip's done
\* function, pin and script.
InUseUntouched ==
  [][ /\ Spi!TransInUse => UNCHANGED <<user, spi>>
      /\ Led!TransferInUse => UNCHANGED <<led_done_fn, target>> ]_vars

FrameWhole == Led!FrameWhole

\* Every transfer accepted has its done function called, exactly once, although
\* the calls of all users share one queue that may be full of the others' calls.
Xfer == INSTANCE AsyncXfer WITH
          Ids  <- SpiIds \union LedIds,
          owed <- [i \in SpiIds \union LedIds |-> IF i \in SpiIds THEN spi_owed[i] ELSE led_owed[i]]
DoneExactlyOnce == Xfer!AsyncSpec

\* All console output is sent in the end: fill_queue is never refused.
ConsoleDrains == Usb!Drains
=============================================================================
