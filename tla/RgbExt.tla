------------------------------- MODULE RgbExt -------------------------------
(***************************************************************************)
(* The status LED of main/ledstrip.c: an RMT channel that stays enabled,   *)
(* and one static buffer that jd_rgbext_set overwrites at once, whatever   *)
(* transmissions of it are still queued.  A frame fits the channel's       *)
(* memory, so that the driver encodes the whole of the buffer as the       *)
(* transmission starts: here, or in the interrupt at the end of the last.  *)
(***************************************************************************)
EXTENDS Naturals

CONSTANTS
  Colours,     (* those the client asks for, triples of levels              *)
  QueueDepth   (* trans_queue_depth: 4                                      *)

RgbConstantsOK == QueueDepth \in Nat \ {0} /\ Colours \subseteq [1..3 -> Nat]

Parts   == 1..3
Idle    == 0          \* where the main task is: before a part is stored, or
Sending == 4          \* all are
Dark    == [i \in Parts |-> 0]
Levels  == {c[i] : c \in Colours \union {Dark}, i \in Parts}

VARIABLES
  rgbext_chan, (* there is a channel                                        *)
  rgbext_buf,
  set,         (* where the main task is in jd_rgbext_set, and its colour   *)
  inflight,    (* transmissions queued, the running one included            *)
  air,         (* the frame being sent                                      *)
  lit          (* what the LED shows                                        *)

vars == <<rgbext_chan, rgbext_buf, set, inflight, air, lit>>

Frames == [Parts -> Levels]

TypeOK ==
  /\ rgbext_chan \in BOOLEAN
  /\ {rgbext_buf, set.colour, air, lit} \subseteq Frames
  /\ set.pc \in Idle..Sending
  /\ inflight \in 0..QueueDepth

Init ==
  /\ rgbext_chan = FALSE /\ rgbext_buf = Dark
  /\ set = [pc |-> Idle, colour |-> Dark]
  /\ inflight = 0 /\ air = Dark /\ lit = Dark

\* Only one type of LED gets a channel, and only the first time.
jd_rgbext_init ==
  /\ set.pc = Idle /\ ~rgbext_chan /\ rgbext_chan' = TRUE
  /\ UNCHANGED <<rgbext_buf, set, inflight, air, lit>>

SetCall(colour) ==
  /\ rgbext_chan /\ set.pc = Idle /\ set' = [pc |-> 1, colour |-> colour]
  /\ UNCHANGED <<rgbext_chan, rgbext_buf, inflight, air, lit>>

\* Faulty variant: the last component is not stored.
Store_TwoOnly ==
  /\ set.pc \in Parts /\ rgbext_buf' = [rgbext_buf EXCEPT ![set.pc] = set.colour[set.pc]]
  /\ set' = [set EXCEPT !.pc = IF @ < 2 THEN @ + 1 ELSE Sending]
  /\ UNCHANGED <<rgbext_chan, inflight, air, lit>>

Store ==
  /\ set.pc \in Parts /\ rgbext_buf' = [rgbext_buf EXCEPT ![set.pc] = set.colour[set.pc]]
  /\ set' = [set EXCEPT !.pc = @ + 1]
  /\ UNCHANGED <<rgbext_chan, inflight, air, lit>>

\* rmt_transmit waits for room in its queue.
transmit ==
  /\ set.pc = Sending /\ inflight < QueueDepth
  /\ set' = [set EXCEPT !.pc = Idle]
  /\ inflight' = inflight + 1
  /\ air' = IF inflight = 0 THEN rgbext_buf ELSE air
  /\ UNCHANGED <<rgbext_chan, rgbext_buf, lit>>

jd_rgbext_set == (\E c \in Colours : SetCall(c)) \/ Store \/ transmit

\* The next one, if there is one, is encoded.
FrameSent ==
  /\ inflight > 0 /\ inflight' = inflight - 1
  /\ lit' = air /\ air' = rgbext_buf
  /\ UNCHANGED <<rgbext_chan, rgbext_buf, set>>

Next == jd_rgbext_init \/ jd_rgbext_set \/ FrameSent

Spec == Init /\ [][Next]_vars

-----------------------------------------------------------------------------
\* The colour last asked for is the one the LED shows, or is about to get as the
\* last frame in flight, although the buffer has been overwritten under the
\* frames before it (ledstrip.c:53-60).
ColourShown ==
  set.pc = Idle =>
    /\ inflight = 0 => lit = set.colour
    /\ inflight = 1 => air = set.colour
=============================================================================
