----------------------------- MODULE BusService -----------------------------
(***************************************************************************)
(* What the bus driver promises the client: a half-duplex bus, on which    *)
(* one operation at a time is under way, a reception that a low pulse      *)
(* announced or a transmission that may be refused.  Every callback is a   *)
(* step that begins and a step that returns, so that one which belongs to  *)
(* no operation is seen: the only such call allowed is a jd_rx_completed   *)
(* that was left over ("stray"), and it is over before the next reception  *)
(* is announced.                                                           *)
(***************************************************************************)
VARIABLES
  op,     (* the operation, and how far it is                              *)
  call,   (* the completion being called: "none"; "rx", "tx" from a flag;  *)
          (* "early" from uart_start_rx itself                             *)
  stray   (* a jd_rx_completed is due to no reception                      *)

bus == <<op, call, stray>>

BusInit == op = "idle" /\ call = "none" /\ ~stray

Moves(from, to) == op = from /\ op' = to
Begins(c) == call = "none" /\ call' = c
Returns(c) == call = c /\ call' = "none"

\* jd_line_falling is due once every completion has been made; then it is called,
\* and calls uart_start_rx.
Announce == Moves("idle", "announced") /\ call = "none" /\ ~stray /\ UNCHANGED <<call, stray>>
Fall     == Moves("announced", "receiving") /\ UNCHANGED <<call, stray>>

\* jd_rx_completed.  If uart_start_rx calls it, for a reception that ended before its
\* buffer was lent, a flag for the same reception may be set already.
RxBegins     == op = "receiving" /\ (Begins("rx") \/ Begins("early")) /\ UNCHANGED <<op, stray>>
RxReturns    == Moves("receiving", "idle") /\ Returns("rx") /\ UNCHANGED stray
EarlyReturns == Moves("receiving", "idle") /\ Returns("early") /\ stray' \in BOOLEAN

\* The client gives up the reception, whose completion may be on its way.
GiveUp == Moves("receiving", "idle") /\ call = "none" /\ stray' \in BOOLEAN /\ UNCHANGED call

\* uart_start_tx, refused or granted, and the end of the transmission.
Ask    == Moves("idle", "asked") /\ UNCHANGED <<call, stray>>
Refuse == Moves("asked", "idle") /\ UNCHANGED <<call, stray>>
Grant  == Moves("asked", "sending") /\ UNCHANGED <<call, stray>>
Sent   == Moves("sending", "sent") /\ UNCHANGED <<call, stray>>

\* A receive error takes the transmission from the driver.
Break == Moves("sending", "broken") /\ stray' /\ UNCHANGED call

\* jd_tx_completed.
TxBegins  == op = "sent" /\ Begins("tx") /\ UNCHANGED <<op, stray>>
TxReturns == Moves("sent", "idle") /\ Returns("tx") /\ UNCHANGED stray

\* The left-over jd_rx_completed.
StrayBegins  == stray /\ ~stray' /\ op \notin {"announced", "receiving"} /\ Begins("rx")
                  /\ UNCHANGED op
StrayReturns == op \notin {"announced", "receiving"} /\ Returns("rx") /\ UNCHANGED <<op, stray>>

BusNext ==
  \/ Announce \/ Fall \/ RxBegins \/ RxReturns \/ EarlyReturns \/ GiveUp
  \/ Ask \/ Refuse \/ Grant \/ Sent \/ Break \/ TxBegins \/ TxReturns
  \/ StrayBegins \/ StrayReturns

BusSpec == BusInit /\ [][BusNext]_bus
=============================================================================
