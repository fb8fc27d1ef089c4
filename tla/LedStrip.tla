------------------------------ MODULE LedStrip ------------------------------
(***************************************************************************)
(* The LED strip of main/ledstrip.c: one RMT channel, kept disabled between *)
(* transfers and rebuilt when the pin or the script changes.  The RMT       *)
(* interrupt hands the end of a transfer to the timer worker, which         *)
(* disables the channel, frees it and calls the done function.              *)
(* While a transfer is under way, the RMT driver calls the encoder of       *)
(* main/led_strip_encoder.c each time the channel's memory has room.        *)
(***************************************************************************)
EXTENDS TimQueue

CONSTANTS
  Ids,        (* done functions, one for each transfer under way            *)
  Targets,    (* pairs of a pin and a ctx_seq_no                            *)
  DataLen,    (* symbols of a transfer's data                               *)
  MemLen      (* symbols the channel's memory takes                         *)

LedConstantsOK ==
  /\ DataLen \in Nat \ {0} /\ MemLen \in Nat \ {0}
  /\ "null" \notin Targets /\ Ids \cap {"null", "idle", "led_done", "led_disabled", "led_free"} = {}

VARIABLES
  led_chan,    (* the RMT channel: "none", "off" (disabled) or "on"         *)
  target,      (* led_pin and last_ctx_no                                   *)
  led_in_use,
  led_done_fn,
  send,        (* where the main task is in devs_led_strip_send             *)
  sending,     (* the channel has a transaction under way                   *)
  enc,         (* the encoder: its state, and what it has put out           *)
  mem,         (* symbols in the channel's memory, not yet sent             *)
  owed         (* history: calls due to each done function                  *)

rmt  == <<enc, mem>>
vars == <<led_chan, target, led_in_use, led_done_fn, send, sending, rmt, owed, shared>>

EncoderReset == [state |-> 0, data |-> 0, resets |-> 0, complete |-> FALSE]
Out == [pc |-> "out", id |-> "null"]

TypeOK ==
  /\ led_chan \in {"none", "off", "on"}
  /\ target \in Targets \union {"null"}
  /\ led_in_use \in BOOLEAN /\ sending \in BOOLEAN
  /\ led_done_fn \in Ids \union {"null"}
  /\ send \in [pc : {"out", "mark", "transmit"}, id : Ids \union {"null"}]
  /\ enc \in [state : 0..1, data : 0..DataLen, resets : 0..1, complete : BOOLEAN]
  /\ mem \in 0..MemLen
  /\ owed \in [Ids -> 0..1]

Init ==
  /\ led_chan = "none" /\ target = "null"
  /\ led_in_use = FALSE /\ led_done_fn = "null"
  /\ send = Out
  /\ sending = FALSE /\ enc = EncoderReset /\ mem = 0
  /\ owed = [i \in Ids |-> 0]
  /\ SharedInit

-----------------------------------------------------------------------------
\* rmt_enable, of the channel there is or of the new one of setup_strip: the
\* driver refuses to enable a channel twice, and to delete one that is enabled.
SetUp ==
  /\ led_chan' = "on"
  /\ failed' = IF led_chan = "on" THEN "rmt" ELSE "none"

\* Up to rmt_enable: a channel for another pin or script is deleted and a new one
\* set up.  Where the driver has no channel or encoder to give, ESP_ERROR_CHECK stops
\* the firmware and nothing follows: that end is left out.
Configure(i, t) ==
  /\ MainRuns /\ send.pc = "out" /\ owed[i] = 0
  /\ ~led_in_use
  /\ send' = [pc |-> "mark", id |-> i]
  /\ target' = t
  /\ SetUp
  /\ UNCHANGED <<led_in_use, led_done_fn, sending, rmt, owed, queue, tim>>

MarkInUse ==
  /\ MainRuns /\ send.pc = "mark" /\ send' = [send EXCEPT !.pc = "transmit"]
  /\ led_in_use' = TRUE /\ led_done_fn' = send.id
  /\ UNCHANGED <<led_chan, target, sending, rmt, owed, shared>>

-----------------------------------------------------------------------------
(* The encoder: the data, then one symbol of reset code.                   *)
\* Faulty variant: the state is switched as soon as the memory is full.
Encode_TooEarly(e, free) ==
  LET left == IF e.state = 0 THEN DataLen - e.data ELSE 0
  IN  IF e.state = 0 /\ left >= free
      THEN [e EXCEPT !.data = @ + free, !.state = 1]
      ELSE [state |-> 0, data |-> e.data + left, resets |-> e.resets + 1, complete |-> TRUE]

\* rmt_encode_led_strip with room for free > 0 symbols.  The data may just fit:
\* then the bytes encoder is both complete and out of memory, and the reset code
\* has to wait for the next call.
Encode(e, free) ==
  LET left == IF e.state = 0 THEN DataLen - e.data ELSE 0
  IN  IF e.state = 0 /\ left >= free
      THEN [e EXCEPT !.data = @ + free, !.state = IF left = free THEN 1 ELSE 0]
      ELSE [state |-> 0, data |-> e.data + left, resets |-> e.resets + 1, complete |-> TRUE]

Produced(e, f) == f.data + f.resets - e.data - e.resets

\* Memory is filled up to MemLen by one call.
Refill(e, left) ==
  /\ enc' = Encode(e, MemLen - left)
  /\ mem' = left + Produced(e, enc')

Transmit ==
  /\ MainRuns /\ send.pc = "transmit" /\ send' = Out
  /\ sending' = TRUE
  /\ Refill(EncoderReset, 0)
  /\ failed' = IF led_chan = "on" THEN "none" ELSE "rmt"
  /\ owed' = [owed EXCEPT ![send.id] = @ + 1]
  /\ UNCHANGED <<led_chan, target, led_in_use, led_done_fn, queue, tim>>

\* The channel sends a symbol; the driver's interrupt asks for more whenever it
\* gets round to it, and at the latest when the memory is empty.
SendSymbol ==
  /\ failed = "none" /\ sending /\ mem > 0
  /\ \/ mem' = mem - 1 /\ mem > 1 /\ UNCHANGED enc
     \/ mem' = 0 /\ mem = 1 /\ enc.complete /\ UNCHANGED enc
     \/ ~enc.complete /\ Refill(enc, mem - 1)
  /\ UNCHANGED <<led_chan, target, led_in_use, led_done_fn, send, sending, owed, shared>>

devs_led_strip_send ==
  \/ \E i \in Ids, t \in Targets : Configure(i, t)
  \/ MarkInUse
  \/ Transmit

-----------------------------------------------------------------------------
\* The RMT interrupt at the end of a transfer.
led_strip_done ==
  /\ failed = "none" /\ sending /\ enc.complete /\ mem = 0 /\ sending' = FALSE
  /\ failed' = IF led_in_use THEN "none" ELSE "in_use"
  /\ Post("led_done")
  /\ UNCHANGED <<led_chan, target, led_in_use, led_done_fn, send, rmt, owed, tim>>

\* Faulty variant: the channel left enabled.
DisableChannel_Forgotten ==
  /\ Take("led_done") /\ tim' = "led_disabled"
  /\ UNCHANGED <<led_chan, target, led_in_use, led_done_fn, send, sending, rmt, owed, failed>>

\* led_strip_done_outside_isr, in the timer task: three steps and the done function.
DisableChannel ==
  /\ Take("led_done") /\ tim' = "led_disabled"
  /\ led_chan' = "off"
  /\ failed' = IF led_chan = "on" THEN "none" ELSE "rmt"
  /\ UNCHANGED <<target, led_in_use, led_done_fn, send, sending, rmt, owed>>

Release ==
  /\ TimIn({"led_disabled"}) /\ tim' = "led_free"
  /\ led_in_use' = FALSE
  /\ UNCHANGED <<led_chan, target, led_done_fn, send, sending, rmt, owed, queue, failed>>

CallDoneFn ==
  /\ TimIn({"led_free"}) /\ tim' = led_done_fn
  /\ owed' = [owed EXCEPT ![led_done_fn] = @ - 1]
  /\ UNCHANGED <<led_chan, target, led_in_use, led_done_fn, send, sending, rmt, queue, failed>>

FnReturns ==
  /\ TimIn(Ids) /\ tim' = "idle"
  /\ UNCHANGED <<led_chan, target, led_in_use, led_done_fn, send, sending, rmt, owed, queue, failed>>

led_strip_done_outside_isr == DisableChannel \/ Release \/ CallDoneFn \/ FnReturns

Next == devs_led_strip_send \/ SendSymbol \/ led_strip_done \/ led_strip_done_outside_isr

Spec == Init /\ [][Next]_vars

\* RMT finishes what it started; the timer task runs; a send returns.
Fairness ==
  /\ WF_vars(SendSymbol) /\ WF_vars(led_strip_done)
  /\ WF_vars(led_strip_done_outside_isr)
  /\ WF_vars(MarkInUse \/ Transmit)

FairSpec == Spec /\ Fairness

-----------------------------------------------------------------------------
\* The strip receives a transfer's data whole and once, followed by one reset
\* code, however the calls of the encoder cut it up (led_strip_encoder.c:29-50).
FrameWhole == sending /\ enc.complete => enc.data = DataLen /\ enc.resets = 1

\* led_done_fn and the channel's target belong to the transfer under way until
\* its done function has been called.
TransferInUse == sending \/ Waiting("led_done") \/ tim \in {"led_disabled", "led_free"}
=============================================================================
