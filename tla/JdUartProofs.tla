--------------------------- MODULE JdUartProofs ---------------------------
(***************************************************************************)
(* What holds of the driver of JdUart for every size of the FIFOs and the  *)
(* buffers: first for every set of faults, late interrupts included, then  *)
(* without late interrupts, then without any fault.                        *)
(***************************************************************************)
EXTENDS JdUart, TLAPS

IInv == TypeOK /\ CallbacksArmed /\ FifoHasBuffer /\ TxExclusive /\ TxPhases

\* The sets the type invariant is made of.
USE DEF FaultKinds, RxEndFlags, IntBits, Masked, TaskPcs, TxStartPcs

\* TypeOK in three parts: counters, sets, flags.
CountersOK ==
  /\ rxfifo \in 0..FifoLen /\ txfifo \in 0..FifoLen /\ sent \in 0..MaxFrame
  /\ tx_len \in 0..NumBytes /\ rx_len \in 0..MaxBytes /\ data_left \in 0..MaxBytes

SetsOK ==
  /\ raw \subseteq IntBits /\ ena \subseteq IntBits
  /\ cb \subseteq {"rx", "tx", "fall"} /\ client \subseteq {"rx", "tx"}

FlagsOK ==
  /\ seen_low \in BOOLEAN /\ rx_ended \in BOOLEAN /\ in_tx \in BOOLEAN
  /\ timer0 \in BOOLEAN /\ txd_brk \in BOOLEAN

-----------------------------------------------------------------------------
LEMMA InitHolds == ASSUME Init PROVE IInv
<1> USE ConstantsOK DEF ConstantsOK, Init
<1>1. TypeOK
  <2>1. CountersOK  BY DEF CountersOK
  <2>2. SetsOK      BY DEF SetsOK
  <2>3. FlagsOK     BY DEF FlagsOK
  <2>. QED  BY <2>1, <2>2, <2>3 DEF TypeOK, CountersOK, SetsOK, FlagsOK
<1>2. CallbacksArmed /\ FifoHasBuffer /\ TxExclusive
  BY DEF CallbacksArmed, FifoHasBuffer, TxExclusive
<1>3. TxPhases
  BY DEF TxPhases
<1>. QED  BY <1>1, <1>2, <1>3 DEF IInv

\* The interrupt handler, branch by branch.
LEMMA IsrHolds == ASSUME IInv, uart_isr PROVE IInv'
<1> USE ConstantsOK DEF ConstantsOK, IInv, TypeOK, uart_isr
<1>1. CASE IsrLowPulse
  <2> USE <1>1 DEF IsrLowPulse, Status, start_bg_rx, read_fifo, RxTaken, Least
  <2>1. TypeOK'  OBVIOUS
  <2>2. CallbacksArmed'  BY DEF CallbacksArmed
  <2>3. FifoHasBuffer'  BY DEF FifoHasBuffer
  <2>4. TxPhases'  BY DEF TxPhases
  <2>5. TxExclusive'  BY DEF TxExclusive
  <2>. QED  BY <2>1, <2>2, <2>3, <2>4, <2>5
<1>2. CASE IsrTxDone
  <2> USE <1>2 DEF IsrTxDone, Status, uart_disable
  <2>1. TypeOK'
    <3>1. CountersOK'  BY DEF CountersOK
    <3>2. SetsOK'      BY DEF SetsOK
    <3>3. FlagsOK'     BY DEF FlagsOK
    <3>. QED  BY <3>1, <3>2, <3>3 DEF CountersOK, SetsOK, FlagsOK
  <2>2. CallbacksArmed'  BY DEF CallbacksArmed
  <2>3. FifoHasBuffer'  BY DEF FifoHasBuffer
  <2>4. TxPhases'  BY DEF TxPhases, TxExclusive
  <2>5. TxExclusive'  BY DEF TxExclusive
  <2>. QED  BY <2>1, <2>2, <2>3, <2>4, <2>5
<1>3. CASE IsrTxEmpty
  <2> USE <1>3 DEF IsrTxEmpty, Status, read_fifo, RxTaken, Least, fill_fifo
  <2>1. TypeOK'
    <3>1. CountersOK'  BY DEF CountersOK
    <3>2. SetsOK'      BY DEF SetsOK
    <3>3. FlagsOK'     BY DEF FlagsOK
    <3>. QED  BY <3>1, <3>2, <3>3 DEF CountersOK, SetsOK, FlagsOK
  <2>2. CallbacksArmed'  BY DEF CallbacksArmed
  <2>3. FifoHasBuffer'  BY DEF FifoHasBuffer
  <2>4. TxPhases'  BY DEF TxPhases
  <2>5. TxExclusive'  BY DEF TxExclusive
  <2>. QED  BY <2>1, <2>2, <2>3, <2>4, <2>5
<1>4. CASE IsrRxEnd
  <2> USE <1>4 DEF IsrRxEnd, Status, uart_disable, RxTaken, Least
  <2>1. TypeOK'
    <3>1. CountersOK'  BY DEF CountersOK
    <3>2. SetsOK'      BY ZenonT(30) DEF SetsOK
    <3>3. FlagsOK'     BY DEF FlagsOK
    <3>. QED  BY <3>1, <3>2, <3>3 DEF CountersOK, SetsOK, FlagsOK
  <2>2. CallbacksArmed'  BY DEF CallbacksArmed
  <2>3. FifoHasBuffer'  BY DEF FifoHasBuffer
  <2>4. TxPhases'  BY DEF TxPhases
  <2>5. TxExclusive'  BY DEF TxExclusive
  <2>. QED  BY <2>1, <2>2, <2>3, <2>4, <2>5
<1>5. CASE IsrFull
  <2> USE <1>5 DEF IsrFull, Status, read_fifo, RxTaken, Least
  <2>1. TypeOK'  OBVIOUS
  <2>2. CallbacksArmed'  BY DEF CallbacksArmed
  <2>3. FifoHasBuffer'  BY DEF FifoHasBuffer
  <2>4. TxPhases'  BY DEF TxPhases
  <2>5. TxExclusive'  BY DEF TxExclusive
  <2>. QED  BY <2>1, <2>2, <2>3, <2>4, <2>5
<1>. QED  BY <1>1, <1>2, <1>3, <1>4, <1>5 DEF uart_isr

\* The alarm and the callbacks of jd_timer0.
LEMMA TimerHolds == ASSUME IInv, (Timer0Fires \/ jd_timer0) PROVE IInv'
<1> USE ConstantsOK DEF ConstantsOK, IInv, TypeOK, Goto, wire, context, buffers
<1>1. CASE Timer0Fires
  <2> USE <1>1 DEF Timer0Fires
  <2>1. TypeOK'  OBVIOUS
  <2>2. CallbacksArmed'  BY DEF CallbacksArmed, FlagPcs, RxTurn, TxTurn
  <2>3. FifoHasBuffer'  BY DEF FifoHasBuffer
  <2>4. TxPhases'  BY DEF TxPhases
  <2>5. TxExclusive'  BY DEF TxExclusive
  <2>. QED  BY <2>1, <2>2, <2>3, <2>4, <2>5
<1>2. CASE TestFlag("rx", "t0_rx", "t0_rx_clr", "t0_tx")
  <2> USE <1>2 DEF TestFlag
  <2>1. TypeOK'  OBVIOUS
  <2>2. CallbacksArmed'  BY DEF CallbacksArmed, FlagPcs, RxTurn, TxTurn
  <2>3. FifoHasBuffer'  BY DEF FifoHasBuffer
  <2>4. TxPhases'  BY DEF TxPhases
  <2>5. TxExclusive'  BY DEF TxExclusive
  <2>. QED  BY <2>1, <2>2, <2>3, <2>4, <2>5
<1>3. CASE ClearFlag("rx", "t0_rx_clr", "t0_rx_call")
  <2> USE <1>3 DEF ClearFlag
  <2>1. TypeOK'  OBVIOUS
  <2>2. CallbacksArmed'  BY DEF CallbacksArmed, FlagPcs, RxTurn, TxTurn
  <2>3. FifoHasBuffer'  BY DEF FifoHasBuffer
  <2>4. TxPhases'  BY DEF TxPhases
  <2>5. TxExclusive'  BY DEF TxExclusive
  <2>. QED  BY <2>1, <2>2, <2>3, <2>4, <2>5
<1>4. CASE Completed("rx", "t0_rx_call", "t0_tx")
  <2> USE <1>4 DEF Completed
  <2>1. TypeOK'  OBVIOUS
  <2>2. CallbacksArmed'  BY DEF CallbacksArmed, FlagPcs, RxTurn, TxTurn
  <2>3. FifoHasBuffer'  BY DEF FifoHasBuffer
  <2>4. TxPhases'  BY DEF TxPhases
  <2>5. TxExclusive'  BY DEF TxExclusive
  <2>. QED  BY <2>1, <2>2, <2>3, <2>4, <2>5
<1>5. CASE TestFlag("tx", "t0_tx", "t0_tx_clr", "t0_fall")
  <2> USE <1>5 DEF TestFlag
  <2>1. TypeOK'  OBVIOUS
  <2>2. CallbacksArmed'  BY DEF CallbacksArmed, FlagPcs, RxTurn, TxTurn
  <2>3. FifoHasBuffer'  BY DEF FifoHasBuffer
  <2>4. TxPhases'  BY DEF TxPhases
  <2>5. TxExclusive'  BY DEF TxExclusive
  <2>. QED  BY <2>1, <2>2, <2>3, <2>4, <2>5
<1>6. CASE ClearFlag("tx", "t0_tx_clr", "t0_tx_call")
  <2> USE <1>6 DEF ClearFlag
  <2>1. TypeOK'  OBVIOUS
  <2>2. CallbacksArmed'  BY DEF CallbacksArmed, FlagPcs, RxTurn, TxTurn
  <2>3. FifoHasBuffer'  BY DEF FifoHasBuffer
  <2>4. TxPhases'  BY DEF TxPhases, TxExclusive
  <2>5. TxExclusive'  BY DEF TxExclusive
  <2>. QED  BY <2>1, <2>2, <2>3, <2>4, <2>5
<1>7. CASE Completed("tx", "t0_tx_call", "t0_fall")
  <2> USE <1>7 DEF Completed
  <2>1. TypeOK'  OBVIOUS
  <2>2. CallbacksArmed'  BY DEF CallbacksArmed, FlagPcs, RxTurn, TxTurn
  <2>3. FifoHasBuffer'  BY DEF FifoHasBuffer
  <2>4. TxPhases'  BY DEF TxPhases
  <2>5. TxExclusive'  BY DEF TxExclusive, TxPhases
  <2>. QED  BY <2>1, <2>2, <2>3, <2>4, <2>5
<1>8. CASE TestFlag("fall", "t0_fall", "t0_fall_clr", "idle")
  <2> USE <1>8 DEF TestFlag
  <2>1. TypeOK'  OBVIOUS
  <2>2. CallbacksArmed'  BY DEF CallbacksArmed, FlagPcs, RxTurn, TxTurn
  <2>3. FifoHasBuffer'  BY DEF FifoHasBuffer
  <2>4. TxPhases'  BY DEF TxPhases
  <2>5. TxExclusive'  BY DEF TxExclusive
  <2>. QED  BY <2>1, <2>2, <2>3, <2>4, <2>5
<1>9. CASE ClearFlag("fall", "t0_fall_clr", "t0_fall_call")
  <2> USE <1>9 DEF ClearFlag
  <2>1. TypeOK'  OBVIOUS
  <2>2. CallbacksArmed'  BY DEF CallbacksArmed, FlagPcs, RxTurn, TxTurn
  <2>3. FifoHasBuffer'  BY DEF FifoHasBuffer
  <2>4. TxPhases'  BY DEF TxPhases
  <2>5. TxExclusive'  BY DEF TxExclusive
  <2>. QED  BY <2>1, <2>2, <2>3, <2>4, <2>5
<1>10. CASE LineFalling
  <2> USE <1>10 DEF LineFalling
  <2>1. TypeOK'  OBVIOUS
  <2>2. CallbacksArmed'  BY DEF CallbacksArmed, FlagPcs, RxTurn, TxTurn
  <2>3. FifoHasBuffer'  BY DEF FifoHasBuffer
  <2>4. TxPhases'  BY DEF TxPhases
  <2>5. TxExclusive'  BY DEF TxExclusive
  <2>. QED  BY <2>1, <2>2, <2>3, <2>4, <2>5
<1>. QED  BY <1>1, <1>2, <1>3, <1>4, <1>5, <1>6, <1>7, <1>8, <1>9, <1>10
     DEF jd_timer0

\* uart_start_rx, and the client's timeout.
LEMMA StartRxHolds == ASSUME IInv, (uart_start_rx \/ RxTimeout) PROVE IInv'
<1> USE ConstantsOK DEF ConstantsOK, IInv, TypeOK, Goto, wire, context, buffers
<1>1. CASE RxCheck
  <2> USE <1>1 DEF RxCheck
  <2>1. TypeOK'  OBVIOUS
  <2>2. CallbacksArmed'  BY DEF CallbacksArmed, FlagPcs, RxTurn, TxTurn
  <2>3. FifoHasBuffer'  BY DEF FifoHasBuffer
  <2>4. TxPhases'  BY DEF TxPhases
  <2>5. TxExclusive'  BY DEF TxExclusive
  <2>. QED  BY <2>1, <2>2, <2>3, <2>4, <2>5
<1>2. CASE RxLend
  <2> USE <1>2 DEF RxLend
  <2>1. TypeOK'  OBVIOUS
  <2>2. CallbacksArmed'  BY DEF CallbacksArmed, FlagPcs, RxTurn, TxTurn
  <2>3. FifoHasBuffer'  BY DEF FifoHasBuffer, TxPhases
  <2>4. TxPhases'  BY DEF TxPhases
  <2>5. TxExclusive'  BY DEF TxExclusive
  <2>. QED  BY <2>1, <2>2, <2>3, <2>4, <2>5
<1>3. CASE uart_flush_rx
  <2> USE <1>3 DEF uart_flush_rx, read_fifo, RxTaken, Least
  <2>1. TypeOK'  OBVIOUS
  <2>2. CallbacksArmed'  BY DEF CallbacksArmed, FlagPcs, RxTurn, TxTurn
  <2>3. FifoHasBuffer'  BY DEF FifoHasBuffer
  <2>4. TxPhases'  BY DEF TxPhases
  <2>5. TxExclusive'  BY DEF TxExclusive
  <2>. QED  BY <2>1, <2>2, <2>3, <2>4, <2>5
<1>4. CASE RxPoll
  <2> USE <1>4 DEF RxPoll
  <2>1. TypeOK'  OBVIOUS
  <2>2. CallbacksArmed'  BY DEF CallbacksArmed, FlagPcs, RxTurn, TxTurn
  <2>3. FifoHasBuffer'  BY DEF FifoHasBuffer
  <2>4. TxPhases'  BY DEF TxPhases
  <2>5. TxExclusive'  BY DEF TxExclusive
  <2>. QED  BY <2>1, <2>2, <2>3, <2>4, <2>5
<1>5. CASE RxAbort
  <2> USE <1>5 DEF RxAbort
  <2>1. TypeOK'
    <3>1. CountersOK'  BY DEF CountersOK
    <3>2. SetsOK'      BY DEF SetsOK
    <3>3. FlagsOK'     BY DEF FlagsOK
    <3>. QED  BY <3>1, <3>2, <3>3 DEF CountersOK, SetsOK, FlagsOK
  <2>2. CallbacksArmed'  BY DEF CallbacksArmed, FlagPcs, RxTurn, TxTurn
  <2>3. FifoHasBuffer'  BY DEF FifoHasBuffer, TxPhases
  <2>4. TxPhases'  BY DEF TxPhases
  <2>5. TxExclusive'  BY DEF TxExclusive
  <2>. QED  BY <2>1, <2>2, <2>3, <2>4, <2>5
<1>6. CASE Completed("rx", "rx_call", "idle")
  <2> USE <1>6 DEF Completed
  <2>1. TypeOK'  OBVIOUS
  <2>2. CallbacksArmed'  BY DEF CallbacksArmed, FlagPcs, RxTurn, TxTurn
  <2>3. FifoHasBuffer'  BY DEF FifoHasBuffer
  <2>4. TxPhases'  BY DEF TxPhases
  <2>5. TxExclusive'  BY DEF TxExclusive
  <2>. QED  BY <2>1, <2>2, <2>3, <2>4, <2>5
<1>7. CASE RxTimeout
  <2> USE <1>7 DEF RxTimeout, uart_disable
  <2>1. TypeOK'
    <3>1. CountersOK'  BY DEF CountersOK
    <3>2. SetsOK'      BY DEF SetsOK
    <3>3. FlagsOK'     BY DEF FlagsOK
    <3>. QED  BY <3>1, <3>2, <3>3 DEF CountersOK, SetsOK, FlagsOK
  <2>2. CallbacksArmed'  BY DEF CallbacksArmed
  <2>3. FifoHasBuffer'  BY DEF FifoHasBuffer
  <2>4. TxPhases'  BY DEF TxPhases
  <2>5. TxExclusive'  BY DEF TxExclusive
  <2>. QED  BY <2>1, <2>2, <2>3, <2>4, <2>5
<1>. QED  BY <1>1, <1>2, <1>3, <1>4, <1>5, <1>6, <1>7 DEF uart_start_rx

\* uart_start_tx.
LEMMA StartTxHolds == ASSUME IInv, uart_start_tx PROVE IInv'
<1> USE ConstantsOK DEF ConstantsOK, IInv, TypeOK, Goto, wire, context, buffers
<1>1. CASE TxCall
  <2> USE <1>1 DEF TxCall
  <2>1. TypeOK'  OBVIOUS
  <2>2. CallbacksArmed'  BY DEF CallbacksArmed, FlagPcs, RxTurn, TxTurn
  <2>3. FifoHasBuffer'  BY DEF FifoHasBuffer
  <2>4. TxPhases'  BY DEF TxPhases, TxExclusive
  <2>5. TxExclusive'  BY DEF TxExclusive
  <2>. QED  BY <2>1, <2>2, <2>3, <2>4, <2>5
<1>2. CASE TxCheck
  <2> USE <1>2 DEF TxCheck
  <2>1. TypeOK'  OBVIOUS
  <2>2. CallbacksArmed'  BY DEF CallbacksArmed, FlagPcs, RxTurn, TxTurn
  <2>3. FifoHasBuffer'  BY DEF FifoHasBuffer
  <2>4. TxPhases'  BY DEF TxPhases
  <2>5. TxExclusive'  BY DEF TxExclusive, TxPhases
  <2>. QED  BY <2>1, <2>2, <2>3, <2>4, <2>5
<1>3. CASE TxMask
  <2> USE <1>3 DEF TxMask, TxRefuse
  <2>1. TypeOK'  BY ZenonT(30)
  <2>2. CallbacksArmed'  BY DEF CallbacksArmed, FlagPcs, RxTurn, TxTurn
  <2>3. FifoHasBuffer'  BY DEF FifoHasBuffer
  <2>4. TxPhases'  BY DEF TxPhases
  <2>5. TxExclusive'  BY DEF TxExclusive, TxPhases
  <2>. QED  BY <2>1, <2>2, <2>3, <2>4, <2>5
<1>4. CASE TxLost
  <2> USE <1>4 DEF TxLost
  <2>1. TypeOK'  OBVIOUS
  <2>2. CallbacksArmed'  BY DEF CallbacksArmed, FlagPcs, RxTurn, TxTurn
  <2>3. FifoHasBuffer'  BY DEF FifoHasBuffer
  <2>4. TxPhases'  BY DEF TxPhases
  <2>5. TxExclusive'  BY DEF TxExclusive
  <2>. QED  BY <2>1, <2>2, <2>3, <2>4, <2>5
<1>5. CASE TxPulse
  <2> USE <1>5 DEF TxPulse
  <2>1. TypeOK'  OBVIOUS
  <2>2. CallbacksArmed'  BY DEF CallbacksArmed, FlagPcs, RxTurn, TxTurn
  <2>3. FifoHasBuffer'  BY DEF FifoHasBuffer
  <2>4. TxPhases'  BY DEF TxPhases
  <2>5. TxExclusive'  BY DEF TxExclusive, TxPhases
  <2>. QED  BY <2>1, <2>2, <2>3, <2>4, <2>5
<1>6. CASE tx_race
  <2> USE <1>6 DEF tx_race, TxRefuse, start_bg_rx, read_fifo, RxTaken, Least
  <2>0. ~seen_low  BY DEF TxPhases
  <2> USE <2>0
  <2>1. TypeOK'
    <3>1. CountersOK'  BY DEF CountersOK
    <3>2. SetsOK'      BY DEF SetsOK
    <3>3. FlagsOK'
      <4>1. timer0' \in BOOLEAN  OBVIOUS
      <4>2. /\ seen_low' \in BOOLEAN /\ rx_ended' \in BOOLEAN
            /\ in_tx' \in BOOLEAN /\ txd_brk' \in BOOLEAN
        OBVIOUS
      <4>. QED  BY <4>1, <4>2 DEF FlagsOK
    <3>. QED  BY <3>1, <3>2, <3>3 DEF CountersOK, SetsOK, FlagsOK
  <2>2. CallbacksArmed'
    <3>1. ASSUME NEW f \in cb' PROVE timer0' \/ tpc' \in FlagPcs[f]
      <4>1. CASE fifo_buf = "none"
        BY <4>1
      <4>2. CASE fifo_buf # "none"
        <5>1. f \in cb  BY <4>2
        <5>2. tpc = "tx_race" /\ f \in {"rx", "tx", "fall"}  BY <5>1
        <5>3. timer0  BY <5>1, <5>2 DEF CallbacksArmed, FlagPcs, RxTurn, TxTurn
        <5>. QED  BY <5>3
      <4>. QED  BY <4>1, <4>2
    <3>. QED  BY <3>1 DEF CallbacksArmed, FlagPcs, RxTurn, TxTurn
  <2>3. FifoHasBuffer'  BY DEF FifoHasBuffer
  <2>4. TxPhases'  BY DEF TxPhases
  <2>5. TxExclusive'  BY DEF TxExclusive, TxPhases
  <2>. QED  BY <2>1, <2>2, <2>3, <2>4, <2>5
<1>7. CASE TxGo
  <2> USE <1>7 DEF TxGo, fill_fifo, Least
  <2>1. TypeOK'
    <3>1. CountersOK'  BY DEF CountersOK
    <3>2. SetsOK'      BY DEF SetsOK
    <3>3. FlagsOK'     BY DEF FlagsOK
    <3>. QED  BY <3>1, <3>2, <3>3 DEF CountersOK, SetsOK, FlagsOK
  <2>2. CallbacksArmed'  BY DEF CallbacksArmed, FlagPcs, RxTurn, TxTurn
  <2>3. FifoHasBuffer'  BY DEF FifoHasBuffer
  <2>4. TxPhases'  BY DEF TxPhases
  <2>5. TxExclusive'  BY DEF TxExclusive
  <2>. QED  BY <2>1, <2>2, <2>3, <2>4, <2>5
<1>. QED  BY <1>1, <1>2, <1>3, <1>4, <1>5, <1>6, <1>7 DEF uart_start_tx

\* The wire and the hardware leave the driver's context and its task alone.
LEMMA EnvironmentHolds == ASSUME IInv, Remote \/ Hw PROVE IInv'
<1> USE ConstantsOK DEF ConstantsOK, IInv, TypeOK, HwOnly, context, Raise
<1>1. UNCHANGED <<ena, context, tpc, client, panic>>
  BY
     DEF Remote, Hw, RemoteLow, RemoteHigh, RemoteByte, RemoteEnd, RemoteDies,
         BreakDetected, RxFifoTimeout, FramingError, TxByteSent, TxFifoLow, TxBreakSent
<1>2. TypeOK'
  <2>1. CountersOK'
    BY
       DEF CountersOK, Remote, Hw, RemoteLow, RemoteHigh, RemoteByte, RemoteEnd, RemoteDies,
           BreakDetected, RxFifoTimeout, FramingError, TxByteSent, TxFifoLow, TxBreakSent
  <2>2. SetsOK'
    BY
       DEF SetsOK, Remote, Hw, RemoteLow, RemoteHigh, RemoteByte, RemoteEnd, RemoteDies,
           BreakDetected, RxFifoTimeout, FramingError, TxByteSent, TxFifoLow, TxBreakSent
  <2>3. /\ bus' \in {"idle", "low", "lowdet", "data"} /\ pin' \in {"rx", "off", "tx"}
        /\ txd_brk' \in BOOLEAN
    BY
       DEF Remote, Hw, RemoteLow, RemoteHigh, RemoteByte, RemoteEnd, RemoteDies,
           BreakDetected, RxFifoTimeout, FramingError, TxByteSent, TxFifoLow, TxBreakSent
  <2>. QED  BY <1>1, <2>1, <2>2, <2>3 DEF CountersOK, SetsOK
<1>3. CallbacksArmed' /\ FifoHasBuffer' /\ TxPhases' /\ TxExclusive'
  BY <1>1 DEF CallbacksArmed, FifoHasBuffer, TxPhases, TxExclusive
<1>. QED  BY <1>2, <1>3

LEMMA StutterHolds == ASSUME IInv, UNCHANGED vars PROVE IInv'
<1> USE DEF IInv, vars, wire, context
<1>1. TypeOK'
  BY DEF TypeOK
<1>2. CallbacksArmed' /\ FifoHasBuffer' /\ TxPhases' /\ TxExclusive'
  BY DEF CallbacksArmed, FifoHasBuffer, TxPhases, TxExclusive
<1>. QED  BY <1>1, <1>2

-----------------------------------------------------------------------------
\* The inductive invariant of the driver.
THEOREM Invariance == Spec => []IInv
<1>1. Init => IInv
  BY InitHolds
<1>2. IInv /\ [Next]_vars => IInv'
  BY IsrHolds, TimerHolds, StartRxHolds, StartTxHolds, EnvironmentHolds, StutterHolds
     DEF Next, Task
<1>. QED  BY <1>1, <1>2, PTL DEF Spec

\* Type correctness: in particular rx_len and tx_len never underflow and the
\* TX FIFO is never overfilled.
THEOREM TypeCorrect == Spec => []TypeOK
<1>1. IInv => TypeOK
  BY DEF IInv
<1>. QED  BY <1>1, Invariance, PTL

\* No callback flag set by the interrupt is forgotten by jd_timer0.
THEOREM NoLostCallback == Spec => []CallbacksArmed
<1>1. IInv => CallbacksArmed
  BY DEF IInv
<1>. QED  BY <1>1, Invariance, PTL

\* The FIFO routines never copy through a NULL fifo_buf.
THEOREM BuffersPresent == Spec => []FifoHasBuffer
<1>1. IInv => FifoHasBuffer
  BY DEF IInv
<1>. QED  BY <1>1, Invariance, PTL

\* uart_start_tx never meets an earlier transmission: its JD_PANIC and its
\* JD_ASSERT cannot fire.
THEOREM OneTransmission == Spec => []TxExclusive
<1>1. IInv => TxExclusive
  BY DEF IInv
<1>. QED  BY <1>1, Invariance, PTL

(***************************************************************************)
(* With late interrupts the two claims below fail.  Without "late", the    *)
(* break that starts or ends a frame is detected only when all that went   *)
(* before has been served, and the driver is in one of a few situations.   *)
(* Once an assertion has stopped the firmware, nothing moves any more: the *)
(* parts that describe the running driver are stated for panic = "none".   *)
(***************************************************************************)
Prompt == "late" \notin Faults

RxPcs == {"rx_check", "rx_lend", "rx_flush", "rx_poll", "rx_abort", "rx_call"}
TxPcs == {"tx_check", "tx_mask", "tx_pulse", "tx_race", "tx_go"}

\* A break that the interrupt has still to take for a low pulse.
LowPending == "BRK" \in raw /\ ~seen_low

\* The break is always watched for.
LineWatched == "BRK" \in ena

OneOperation == client # {"rx", "tx"}

BufferLent ==
  /\ fifo_buf = "rx" => client = {"rx"}
  /\ fifo_buf = "tx" => in_tx /\ rx_len = 0

\* The transmit interrupts serve a transmission that has its buffer.
TxFed == ena \intersect {"TXBRK", "TXEMPTY"} # {} => fifo_buf = "tx"

\* While the task runs uart_start_rx or uart_start_tx, that is the operation.
TaskOwns ==
  panic = "none" =>
    /\ tpc \in RxPcs => client = {"rx"}
    /\ tpc \in TxPcs => client = {"tx"}

\* A low pulse waits for its announcement only while the client is idle, about to
\* have its transmission refused, or being told that its reception has ended early.
FallOwned ==
  panic = "none" =>
    /\ "fall" \in cb =>
         /\ client = {} \/ tpc \in {"tx_check", "tx_mask", "rx_call"}
         /\ seen_low /\ fifo_buf = "none"
    /\ tpc \in {"t0_fall_clr", "t0_fall_call"} => client = {} /\ ~LowPending
    /\ tpc = "t0_fall_call" => "fall" \notin cb

\* No break is taken for a low pulse while a reception is under way.
LowOwned ==
  panic = "none" /\ LowPending => client = {} \/ tpc \in TxPcs \/ tpc = "rx_call" \/ in_tx

\* A reception is about to begin, holds the buffer, has ended early, or has
\* its completion pending.
RxUnderWay ==
  panic = "none" =>
    /\ tpc \in {"t0_fall_clr", "t0_fall_call", "rx_check", "rx_lend"} =>
         /\ fifo_buf = "none" /\ "rx" \notin cb
         /\ seen_low \/ rx_ended
    /\ tpc \in {"rx_flush", "rx_poll"} =>
         "rx" \in cb \/ (fifo_buf = "rx" /\ (seen_low \/ rx_ended))
    /\ "rx" \in client /\ tpc \notin RxPcs =>
         "rx" \in cb \/ tpc = "t0_rx_call" \/ (fifo_buf = "rx" /\ seen_low)
    /\ tpc = "rx_call" => fifo_buf # "rx"
    /\ "rx" \in cb => fifo_buf # "rx"

\* Where jd_timer0 has passed its test of cb_rx.
AfterRx == {"t0_rx_call", "t0_tx", "t0_tx_clr", "t0_tx_call", "t0_fall", "t0_fall_clr",
            "t0_fall_call"}

\* A completion that jd_timer0 has passed by is found on its next turn.
DonePending ==
  panic = "none" =>
    /\ tpc = "t0_rx_clr" => "rx" \in cb
    /\ tpc = "t0_rx_call" => fifo_buf # "rx" /\ ("rx" \in client => "rx" \notin cb)
    /\ tpc \in AfterRx /\ "rx" \in cb => ~LowPending /\ "fall" \notin cb
    /\ "tx" \in client /\ tpc \notin TxPcs => in_tx \/ "tx" \in cb \/ tpc = "t0_tx_call"

PromptInv ==
  /\ LineWatched /\ OneOperation /\ BufferLent /\ TxFed /\ TaskOwns
  /\ FallOwned /\ LowOwned /\ RxUnderWay /\ DonePending

PInv == IInv /\ PromptInv

USE DEF RxPcs, TxPcs, AfterRx

LEMMA PromptInit == ASSUME Init PROVE PromptInv
BY DEF Init, PromptInv, LineWatched, OneOperation, BufferLent, TxFed, TaskOwns, FallOwned, LowOwned,
       LowPending, RxUnderWay, DonePending

\* The interrupt handler.
LEMMA PromptIsr == ASSUME PInv, uart_isr PROVE PromptInv'
<1> USE ConstantsOK DEF ConstantsOK, PInv, IInv, TypeOK, PromptInv, uart_isr
<1>1. CASE IsrLowPulse
  <2> USE <1>1 DEF IsrLowPulse, Status, start_bg_rx, read_fifo, RxTaken, Least
  <2>1. LineWatched' /\ OneOperation' /\ BufferLent' /\ TxFed' /\ TaskOwns' /\ LowOwned'
        /\ RxUnderWay' /\ DonePending'
    BY DEF LineWatched, OneOperation, BufferLent, TxFed, TaskOwns, LowOwned, LowPending,
           RxUnderWay, DonePending
  <2>2. FallOwned'  BY DEF FallOwned, LowOwned, LowPending
  <2>. QED  BY <2>1, <2>2
<1>2. CASE IsrTxDone
  <2> USE <1>2 DEF IsrTxDone, Status, uart_disable
  <2>1. LineWatched' /\ OneOperation' /\ BufferLent' /\ TxFed' /\ TaskOwns'
    BY DEF LineWatched, OneOperation, BufferLent, TxFed, TaskOwns
  <2>2. FallOwned'  BY DEF FallOwned, LowPending, LineWatched
  <2>3. LowOwned'  BY DEF LowOwned, LowPending, LineWatched
  <2>4. RxUnderWay'  BY DEF RxUnderWay, BufferLent, TxFed, TaskOwns, FallOwned, TxPhases,
           TxExclusive
  <2>5. DonePending'  BY DEF DonePending, LowPending, LineWatched
  <2>. QED  BY <2>1, <2>2, <2>3, <2>4, <2>5
<1>3. CASE IsrTxEmpty
  BY <1>3 DEF IsrTxEmpty, Status, read_fifo, RxTaken, Least, fill_fifo, LineWatched,
         OneOperation, BufferLent, TxFed, TaskOwns, FallOwned, LowPending, LowOwned, RxUnderWay,
         DonePending
<1>4. CASE IsrRxEnd
  <2> USE <1>4 DEF IsrRxEnd, Status, uart_disable, RxTaken, Least
  <2>1. LineWatched' /\ OneOperation' /\ BufferLent' /\ TxFed' /\ TaskOwns' /\ RxUnderWay'
    BY DEF LineWatched, OneOperation, BufferLent, TxFed, TaskOwns, RxUnderWay
  <2>2. FallOwned'  BY DEF FallOwned, LowPending, LineWatched
  <2>3. LowOwned'  BY DEF LowOwned, LowPending, LineWatched
  <2>4. tpc = "t0_rx_call" /\ fifo_buf # "none" => "rx" \notin client
    <3>1. fifo_buf = "tx" => "tx" \in client
      BY ONLY BufferLent, TxExclusive DEF BufferLent, TxExclusive
    <3>2. client \subseteq {"rx", "tx"} /\ client # {"rx", "tx"}
      BY ONLY TypeOK, OneOperation DEF TypeOK, OneOperation
    <3>3. "tx" \in client => "rx" \notin client
      BY ONLY <3>2
    <3>4. tpc = "t0_rx_call" => fifo_buf # "rx"
      BY DEF DonePending
    <3>. QED  BY <3>1, <3>3, <3>4
  <2>5. DonePending'  BY <2>4 DEF DonePending, LowPending, LineWatched
  <2>. QED  BY <2>1, <2>2, <2>3, <2>5
<1>5. CASE IsrFull
  BY <1>5 DEF IsrFull, Status, read_fifo, RxTaken, Least, LineWatched, OneOperation,
         BufferLent, TxFed, TaskOwns, FallOwned, LowPending, LowOwned, RxUnderWay, DonePending
<1>. QED  BY <1>1, <1>2, <1>3, <1>4, <1>5 DEF uart_isr

\* The alarm and the callbacks of jd_timer0.
LEMMA PromptTimer == ASSUME PInv, (Timer0Fires \/ jd_timer0) PROVE PromptInv'
<1> USE ConstantsOK DEF ConstantsOK, PInv, IInv, TypeOK, PromptInv, Goto, wire, context, buffers
<1>1. CASE Timer0Fires
  BY <1>1 DEF Timer0Fires, LineWatched, OneOperation, BufferLent, TxFed, TaskOwns, FallOwned,
         LowOwned, LowPending, RxUnderWay, DonePending
<1>2. CASE TestFlag("rx", "t0_rx", "t0_rx_clr", "t0_tx")
  BY <1>2 DEF TestFlag, LineWatched, OneOperation, BufferLent, TxFed, TaskOwns, FallOwned,
         LowOwned, LowPending, RxUnderWay, DonePending
<1>3. CASE ClearFlag("rx", "t0_rx_clr", "t0_rx_call")
  BY <1>3 DEF ClearFlag, LineWatched, OneOperation, BufferLent, TxFed, TaskOwns, FallOwned,
         LowOwned, LowPending, RxUnderWay, DonePending
<1>4. CASE Completed("rx", "t0_rx_call", "t0_tx")
  <2> USE <1>4 DEF Completed
  <2>1. LineWatched' /\ OneOperation' /\ TaskOwns' /\ FallOwned' /\ LowOwned' /\ RxUnderWay'
        /\ DonePending'
    BY DEF LineWatched, OneOperation, TaskOwns, FallOwned, LowOwned, LowPending, RxUnderWay,
           DonePending
  <2>2. BufferLent' /\ TxFed'  BY DEF BufferLent, TxFed, DonePending
  <2>. QED  BY <2>1, <2>2
<1>5. CASE TestFlag("tx", "t0_tx", "t0_tx_clr", "t0_fall")
  BY <1>5 DEF TestFlag, LineWatched, OneOperation, BufferLent, TxFed, TaskOwns, FallOwned,
         LowOwned, LowPending, RxUnderWay, DonePending
<1>6. CASE ClearFlag("tx", "t0_tx_clr", "t0_tx_call")
  BY <1>6 DEF ClearFlag, LineWatched, OneOperation, BufferLent, TxFed, TaskOwns, FallOwned,
         LowOwned, LowPending, RxUnderWay, DonePending
<1>7. CASE Completed("tx", "t0_tx_call", "t0_fall")
  BY <1>7 DEF Completed, LineWatched, OneOperation, BufferLent, TxFed, TaskOwns, FallOwned,
         LowOwned, LowPending, RxUnderWay, DonePending
<1>8. CASE TestFlag("fall", "t0_fall", "t0_fall_clr", "idle")
  <2> USE <1>8 DEF TestFlag
  <2>1. /\ LineWatched' /\ OneOperation' /\ BufferLent' /\ TxFed' /\ TaskOwns'
        /\ FallOwned' /\ LowOwned'
        /\ DonePending'
    BY DEF LineWatched, OneOperation, BufferLent, TxFed, TaskOwns, FallOwned, LowPending, LowOwned,
           DonePending
  <2>2. RxUnderWay'  BY DEF RxUnderWay, FallOwned, DonePending
  <2>. QED  BY <2>1, <2>2
<1>9. CASE ClearFlag("fall", "t0_fall_clr", "t0_fall_call")
  BY <1>9 DEF ClearFlag, LineWatched, OneOperation, BufferLent, TxFed, TaskOwns, FallOwned,
         LowOwned, LowPending, RxUnderWay, DonePending
<1>10. CASE LineFalling
  <2> USE <1>10 DEF LineFalling
  <2>1. LineWatched' /\ BufferLent' /\ TxFed' /\ FallOwned' /\ RxUnderWay' /\ DonePending'
    BY DEF LineWatched, BufferLent, TxFed, FallOwned, RxUnderWay, DonePending
  <2>2. OneOperation'  BY DEF OneOperation, FallOwned
  <2>3. TaskOwns'  BY DEF TaskOwns, FallOwned
  <2>4. LowOwned'  BY DEF LowOwned, LowPending, FallOwned
  <2>. QED  BY <2>1, <2>2, <2>3, <2>4
<1>. QED  BY <1>1, <1>2, <1>3, <1>4, <1>5, <1>6, <1>7, <1>8, <1>9, <1>10
     DEF jd_timer0

\* uart_start_rx, and the client's timeout.
LEMMA PromptStartRx == ASSUME PInv, (uart_start_rx \/ RxTimeout) PROVE PromptInv'
<1> USE ConstantsOK DEF ConstantsOK, PInv, IInv, TypeOK, PromptInv, Goto, wire, context, buffers
<1>1. CASE RxCheck
  BY <1>1 DEF RxCheck, LineWatched, OneOperation, BufferLent, TxFed, TaskOwns, FallOwned, LowOwned,
         LowPending, RxUnderWay, DonePending
<1>2. CASE RxLend
  <2> USE <1>2 DEF RxLend
  <2>1. LineWatched' /\ OneOperation' /\ TaskOwns' /\ LowOwned' /\ RxUnderWay'
        /\ DonePending'
    BY DEF LineWatched, OneOperation, TaskOwns, LowOwned, LowPending, RxUnderWay,
           DonePending
  <2>2. BufferLent' /\ TxFed'  BY DEF BufferLent, TxFed, TaskOwns, TxExclusive, TxPhases
  <2>3. FallOwned'  BY DEF FallOwned, TaskOwns
  <2>. QED  BY <2>1, <2>2, <2>3
<1>3. CASE uart_flush_rx
  BY <1>3 DEF uart_flush_rx, read_fifo, RxTaken, Least, LineWatched, OneOperation,
         BufferLent, TxFed, TaskOwns, FallOwned, LowOwned, LowPending, RxUnderWay, DonePending
<1>4. CASE RxPoll
  BY <1>4 DEF RxPoll, LineWatched, OneOperation, BufferLent, TxFed, TaskOwns, FallOwned, LowOwned,
         LowPending, RxUnderWay, DonePending
<1>5. CASE RxAbort
  <2> USE <1>5 DEF RxAbort
  <2>1. LineWatched' /\ OneOperation' /\ BufferLent' /\ TxFed' /\ TaskOwns' /\ RxUnderWay'
        /\ DonePending'
    BY DEF LineWatched, OneOperation, BufferLent, TxFed, TaskOwns, RxUnderWay, DonePending,
           TxPhases, TxExclusive
  <2>2. FallOwned'  BY DEF FallOwned, TaskOwns
  <2>3. LowOwned'  BY DEF LowOwned, TaskOwns
  <2>. QED  BY <2>1, <2>2, <2>3
<1>6. CASE Completed("rx", "rx_call", "idle")
  BY <1>6 DEF Completed, LineWatched, OneOperation, BufferLent, TxFed, TaskOwns, FallOwned,
         LowOwned, LowPending, RxUnderWay, DonePending
<1>7. CASE RxTimeout
  <2> USE <1>7 DEF RxTimeout, uart_disable
  <2>1. LineWatched' /\ OneOperation' /\ BufferLent' /\ TxFed' /\ TaskOwns' /\ FallOwned'
        /\ RxUnderWay' /\ DonePending'
    BY DEF LineWatched, OneOperation, BufferLent, TxFed, TaskOwns, FallOwned, RxUnderWay,
           DonePending
  <2>2. LowOwned'  BY DEF LowOwned, LowPending, LineWatched
  <2>. QED  BY <2>1, <2>2
<1>. QED  BY <1>1, <1>2, <1>3, <1>4, <1>5, <1>6, <1>7 DEF uart_start_rx

\* uart_start_tx.
LEMMA PromptStartTx == ASSUME PInv, uart_start_tx PROVE PromptInv'
<1> USE ConstantsOK DEF ConstantsOK, PInv, IInv, TypeOK, PromptInv, Goto, wire, context, buffers
<1>1. CASE TxCall
  BY <1>1 DEF TxCall, LineWatched, OneOperation, BufferLent, TxFed, TaskOwns, FallOwned, LowOwned,
         RxUnderWay, DonePending
<1>2. CASE TxCheck
  BY <1>2 DEF TxCheck, LineWatched, OneOperation, BufferLent, TxFed, TaskOwns, FallOwned, LowOwned,
         RxUnderWay, DonePending
<1>3. CASE TxMask
  <2> USE <1>3 DEF TxMask, TxRefuse
  <2>1. LineWatched' /\ OneOperation' /\ BufferLent' /\ TxFed' /\ TaskOwns' /\ RxUnderWay'
        /\ DonePending'
    BY DEF LineWatched, OneOperation, BufferLent, TxFed, TaskOwns, RxUnderWay, DonePending
  <2>2. FallOwned'  BY DEF FallOwned, TaskOwns
  <2>3. LowOwned'  BY DEF LowOwned, TaskOwns
  <2>. QED  BY <2>1, <2>2, <2>3
<1>4. CASE TxLost
  BY <1>4 DEF TxLost, LineWatched, OneOperation, BufferLent, TxFed, TaskOwns, FallOwned, LowOwned,
         RxUnderWay, DonePending
<1>5. CASE TxPulse
  BY <1>5 DEF TxPulse, LineWatched, OneOperation, BufferLent, TxFed, TaskOwns, FallOwned, LowOwned,
         RxUnderWay, DonePending
<1>6. CASE tx_race
  <2> USE <1>6 DEF tx_race, TxRefuse, start_bg_rx, read_fifo, RxTaken, Least
  <2>1. LineWatched' /\ OneOperation' /\ BufferLent' /\ TxFed' /\ TaskOwns' /\ LowOwned'
        /\ RxUnderWay' /\ DonePending'
    BY DEF LineWatched, OneOperation, BufferLent, TxFed, TaskOwns, LowOwned, LowPending,
           RxUnderWay, DonePending
  <2>2. FallOwned'  BY DEF FallOwned, TaskOwns
  <2>. QED  BY <2>1, <2>2
<1>7. CASE TxGo
  <2> USE <1>7 DEF TxGo, fill_fifo, Least
  <2>1. LineWatched' /\ OneOperation' /\ TaskOwns' /\ LowOwned'
    BY DEF LineWatched, OneOperation, TaskOwns, LowOwned, LowPending
  <2>2. BufferLent' /\ TxFed'  BY DEF BufferLent, TxFed, RxUnderWay, FifoHasBuffer, TxPhases
  <2>3. FallOwned'  BY DEF FallOwned, TaskOwns
  <2>4. RxUnderWay'  BY DEF RxUnderWay, TaskOwns
  <2>5. DonePending'  BY DEF DonePending, TxPhases
  <2>. QED  BY <2>1, <2>2, <2>3, <2>4, <2>5
<1>. QED  BY <1>1, <1>2, <1>3, <1>4, <1>5, <1>6, <1>7 DEF uart_start_tx

\* The wire and the hardware: without "late", a break is raised only when no
\* interrupt and no callback is pending and the task is at rest or about to
\* test the line.
LEMMA PromptEnvironment == ASSUME Prompt, PInv, Remote \/ Hw PROVE PromptInv'
<1> USE DEF Prompt, PInv, IInv, TypeOK, PromptInv, HwOnly, context
<1>1. /\ panic = "none"
      /\ UNCHANGED <<ena, pin, txd_brk, context, tpc, client, panic>>
  BY DEF Remote, Hw, RemoteLow, RemoteHigh, RemoteByte, RemoteEnd, RemoteDies, BreakDetected,
         RxFifoTimeout, FramingError, TxByteSent, TxFifoLow, TxBreakSent
<1>2. CASE "BRK" \in raw' /\ "BRK" \notin raw
  <2>1. \/ cb = {} /\ tpc \in {"idle", "tx_check", "tx_mask"}
        \/ tpc = "tx_pulse"
    BY <1>2
       DEF Remote, Hw, RemoteLow, RemoteHigh, RemoteByte, RemoteEnd, RemoteDies, Raise,
           Served,
         BreakDetected, RxFifoTimeout, FramingError, TxByteSent, TxFifoLow, TxBreakSent
  <2>2. seen_low \/ client = {} \/ tpc \in TxPcs \/ in_tx
    BY <1>1, <2>1 DEF RxUnderWay, DonePending
  <2>. QED
    BY <1>1, <2>1, <2>2
       DEF LineWatched, OneOperation, BufferLent, TxFed, TaskOwns, FallOwned, LowOwned, LowPending,
           RxUnderWay, DonePending
<1>3. CASE ~("BRK" \in raw' /\ "BRK" \notin raw)
  <2>1. LowPending' => LowPending
    BY <1>1, <1>3 DEF LowPending
  <2>. QED
    BY <1>1, <2>1
       DEF LineWatched, OneOperation, BufferLent, TxFed, TaskOwns, FallOwned, LowOwned, RxUnderWay,
           DonePending
<1>. QED  BY <1>2, <1>3

LEMMA PromptStutter == ASSUME PInv, UNCHANGED vars PROVE PromptInv'
BY DEF PInv, PromptInv, vars, wire, context, LineWatched, OneOperation, BufferLent, TxFed, TaskOwns,
       FallOwned, LowOwned, LowPending, RxUnderWay, DonePending

LEMMA PromptStep == ASSUME Prompt, PInv, [Next]_vars PROVE PInv'
<1>1. IInv'
  BY IsrHolds, TimerHolds, StartRxHolds, StartTxHolds, EnvironmentHolds, StutterHolds
     DEF PInv, Next, Task
<1>2. PromptInv'
  BY PromptIsr, PromptTimer, PromptStartRx, PromptStartTx, PromptEnvironment, PromptStutter
     DEF Next, Task
<1>. QED  BY <1>1, <1>2 DEF PInv

THEOREM PromptInvariance == ASSUME Prompt PROVE Spec => []PInv
<1>1. Init => PInv
  BY InitHolds, PromptInit DEF PInv
<1>2. PInv /\ [Next]_vars => PInv'
  BY PromptStep
<1>. QED  BY <1>1, <1>2, PTL DEF Spec

\* The interrupt handler touches a buffer only while the client has lent it,
\* and never stores received bytes into a buffer that is being transmitted,
\* as long as interrupts are not late (hw-esp32.c:280-300, 378-468).
THEOREM BuffersOnLoan == ASSUME Prompt PROVE Spec => []BufferOwnership
<1>1. PInv => BufferOwnership
  BY DEF PInv, PromptInv, IInv, BufferLent, TxExclusive, BufferOwnership
<1>. QED  BY <1>1, PromptInvariance, PTL

\* No operation of the client is forgotten: a reception has its completion flagged or
\* being called, or holds the buffer after a low pulse; a transmission is with the
\* hardware or has its flag set; and the flags are found by jd_timer0 in the order it
\* tests them: the safety core of OperationsEnd (hw-esp32.c:92-104, 280-345, 378-468).
THEOREM OperationsDue == ASSUME Prompt PROVE Spec => [](RxUnderWay /\ DonePending)
<1>1. PInv => RxUnderWay /\ DonePending
  BY DEF PInv, PromptInv
<1>. QED  BY <1>1, PromptInvariance, PTL

\* A low pulse the interrupt has seen has its announcement flagged or being made, or has
\* been announced; while the completion of an earlier reception is flagged or being made,
\* only the first is possible.
PulseDue ==
  panic = "none" /\ seen_low =>
    /\ "fall" \in cb \/ tpc = "t0_fall_call" \/ "rx" \in client
    /\ "rx" \in cb \/ tpc \in {"t0_rx_call", "rx_call"} => "fall" \in cb

LEMMA PulseIsr == ASSUME PInv, PulseDue, uart_isr PROVE PulseDue'
<1> USE DEF PInv, IInv, TypeOK, PromptInv, uart_isr, PulseDue
<1>1. CASE IsrLowPulse
  <2>1. /\ panic' = "none" => ~in_tx
        /\ cb' = IF fifo_buf = "none" THEN cb \union {"fall"} ELSE cb
        /\ UNCHANGED client
    BY <1>1 DEF IsrLowPulse, start_bg_rx
  <2>2. fifo_buf = "none" \/ in_tx \/ (fifo_buf = "rx" /\ client = {"rx"})
    BY DEF BufferLent
  <2>3. fifo_buf = "rx" => "rx" \notin cb /\ tpc \notin {"t0_rx_call", "rx_call"}
    BY DEF RxUnderWay, DonePending
  <2>. QED  BY <2>1, <2>2, <2>3
<1>2. CASE IsrTxDone \/ IsrRxEnd
  BY <1>2 DEF IsrTxDone, IsrRxEnd, uart_disable
<1>3. CASE IsrTxEmpty \/ IsrFull
  BY <1>3 DEF IsrTxEmpty, IsrFull
<1>. QED  BY <1>1, <1>2, <1>3

LEMMA PulseTask == ASSUME PInv, PulseDue, Task PROVE PulseDue'
<1> USE DEF PInv, IInv, TypeOK, PromptInv, PulseDue
<1>1. CASE Timer0Fires \/ jd_timer0
  BY <1>1 DEF Timer0Fires, jd_timer0, TestFlag, ClearFlag, Completed, LineFalling, Goto, buffers,
         context, DonePending, RxUnderWay, FallOwned
<1>2. CASE uart_start_rx
  BY <1>2 DEF uart_start_rx, RxCheck, RxLend, uart_flush_rx, RxPoll, RxAbort, Completed, Goto,
         context
<1>3. CASE tx_race
  <2>1. fifo_buf = "none" \/ in_tx
    BY <1>3 DEF tx_race, Goto, TaskOwns, BufferLent
  <2>. QED  BY <1>3, <2>1 DEF tx_race, Goto, TaskOwns, start_bg_rx, TxRefuse
<1>4. CASE TxCall \/ TxCheck \/ TxMask \/ TxLost \/ TxPulse \/ TxGo
  BY <1>4 DEF TxCall, TxCheck, TxMask, TxRefuse, TxLost, TxPulse, TxGo, Goto, context
<1>5. CASE RxTimeout
  BY <1>5 DEF RxTimeout, uart_disable
<1>. QED  BY <1>1, <1>2, <1>3, <1>4, <1>5 DEF Task, uart_start_tx

LEMMA PulseWire == ASSUME PulseDue, Remote \/ Hw PROVE PulseDue'
BY DEF PulseDue, Remote, Hw, RemoteLow, RemoteHigh, RemoteByte, RemoteEnd, RemoteDies, HwOnly,
       BreakDetected, RxFifoTimeout, FramingError, TxByteSent, TxFifoLow, TxBreakSent, context

\* No low pulse the interrupt has seen is forgotten before jd_line_falling announces it,
\* also when it follows a reception whose completion jd_timer0 has not come to: the
\* safety core of LowPulseAnnounced (hw-esp32.c:92-117, 302-345).
THEOREM PulseNotForgotten == ASSUME Prompt PROVE Spec => []PulseDue
<1>1. Init => PulseDue
  BY DEF Init, PulseDue
<1>2. PInv /\ PulseDue /\ [Next]_vars => PulseDue'
  <2>1. ASSUME PulseDue, UNCHANGED vars  PROVE PulseDue'
    BY <2>1 DEF PulseDue, vars, wire, context
  <2>. QED  BY <2>1, PulseIsr, PulseTask, PulseWire DEF Next
<1>. QED  BY <1>1, <1>2, PromptInvariance, PTL DEF Spec

\* uart_start_rx has found no operation under way (the JD_PANIC at line 443).
NoneBusy == panic # "rx_busy"

\* The assertions that the wire can bring to fail come down to one: with prompt
\* interrupts uart_start_rx never finds an earlier reception or transmission, nor
\* uart_start_tx an earlier transmission or a low pulse; what is left is the JD_ASSERT
\* of start_bg_rx (hw-esp32.c:390, 413 and 443 hold; 305 may fail).
THEOREM OnlyRxInTx == ASSUME Prompt PROVE Spec => [](panic \in {"none", "bg_rx_in_tx"})
<1>1. Init => NoneBusy
  BY DEF Init, NoneBusy
<1>2. PInv /\ NoneBusy /\ [Next]_vars => NoneBusy'
  <2>. SUFFICES ASSUME PInv, NoneBusy, [Next]_vars PROVE NoneBusy'
    OBVIOUS
  <2>. USE DEF NoneBusy
  <2>1. CASE RxCheck
    <3>1. fifo_buf = "none" /\ client = {"rx"}
      BY <2>1 DEF RxCheck, Goto, PInv, PromptInv, RxUnderWay, TaskOwns, RxPcs
    <3>2. rx_len = 0 /\ tx_len = 0
      BY <3>1 DEF PInv, IInv, TypeOK, FifoHasBuffer, TxPhases, TxExclusive
    <3>. QED  BY <2>1, <3>2 DEF RxCheck
  <2>2. CASE uart_isr
    BY <2>2 DEF uart_isr, IsrLowPulse, IsrTxDone, IsrTxEmpty, IsrRxEnd, IsrFull, start_bg_rx
  <2>3. CASE Timer0Fires \/ jd_timer0 \/ RxTimeout
    BY <2>3 DEF Timer0Fires, jd_timer0, TestFlag, ClearFlag, Completed, LineFalling,
           RxTimeout
  <2>4. CASE RxLend \/ uart_flush_rx \/ RxPoll \/ RxAbort \/ Completed("rx", "rx_call", "idle")
    BY <2>4 DEF RxLend, uart_flush_rx, RxPoll, RxAbort, Completed
  <2>5. CASE uart_start_tx
    BY <2>5
       DEF uart_start_tx, TxCall, TxCheck, TxMask, TxLost, TxPulse, tx_race, TxGo,
           start_bg_rx
  <2>6. CASE Remote \/ Hw
    BY <2>6
       DEF Remote, Hw, RemoteLow, RemoteHigh, RemoteByte, RemoteEnd, RemoteDies, BreakDetected,
           RxFifoTimeout, FramingError, TxByteSent, TxFifoLow, TxBreakSent, HwOnly
  <2>7. CASE UNCHANGED vars
    BY <2>7 DEF vars
  <2>. QED  BY <2>1, <2>2, <2>3, <2>4, <2>5, <2>6, <2>7 DEF Next, Task, uart_start_rx
<1>3. PInv /\ NoneBusy => panic \in {"none", "bg_rx_in_tx"}
  BY DEF PInv, IInv, TypeOK, TxExclusive, NoneBusy
<1>. QED  BY <1>1, <1>2, <1>3, PromptInvariance, PTL DEF Spec

\* The operation and the calls as the client sees them.
BusVars == <<Op, Call, Stray>>

USE DEF Bus!bus, Bus!Moves, Bus!Begins, Bus!Returns

\* Under the interrupt handler.
LEMMA BusIsr == ASSUME PInv, uart_isr PROVE [Bus!BusNext]_BusVars
<1> USE DEF PInv, IInv, TypeOK, PromptInv, uart_isr, BusVars, Op, Call, Stray
<1>1. CASE IsrLowPulse
  BY <1>1 DEF IsrLowPulse, start_bg_rx
<1>2. CASE IsrTxDone
  <2>1. in_tx /\ fifo_buf = "tx"
    BY <1>2 DEF IsrTxDone, Status, TxPhases, TxFed
  <2>2. client = {"tx"} /\ tpc \notin {"t0_fall_clr", "t0_fall_call"}
    BY <2>1 DEF TxExclusive, OneOperation, FallOwned
  <2>3. Op = "sending" /\ Op' = "sent"
    BY <1>2, <2>1, <2>2 DEF IsrTxDone, Op
  <2>4. Call' = Call /\ Stray' = Stray
    BY <1>2 DEF IsrTxDone, Call, Stray
  <2>. QED  BY <2>3, <2>4 DEF Bus!BusNext, Bus!Sent
<1>3. CASE IsrTxEmpty
  BY <1>3 DEF IsrTxEmpty
<1>4. CASE IsrRxEnd
  <2>1. /\ fifo_buf' = "none" /\ UNCHANGED <<in_tx, tpc, client>>
        /\ ("tx" \in cb') <=> ("tx" \in cb)
        /\ ("rx" \in cb') <=> ("rx" \in cb \/ fifo_buf # "none")
    BY <1>4 DEF IsrRxEnd, uart_disable
  <2>2. Call' = Call
    BY <2>1 DEF Call
  <2>3. CASE fifo_buf = "tx"
    <3>1. in_tx /\ client = {"tx"} /\ tpc \notin {"t0_fall_clr", "t0_fall_call", "tx_go"}
      BY <2>3 DEF BufferLent, TxExclusive, OneOperation, FallOwned
    <3>2. Op = "sending" /\ Op' = "broken"
      BY <2>1, <2>3, <3>1 DEF Op
    <3>3. Stray'
      BY <2>1, <2>3, <3>1 DEF Stray
    <3>. QED  BY <2>2, <3>2, <3>3 DEF Bus!BusNext, Bus!Break
  <2>4. CASE fifo_buf = "rx"
    <3>1. client = {"rx"}
      BY <2>4 DEF BufferLent
    <3>2. Op' = Op /\ Stray' = Stray
      BY <2>1, <3>1 DEF Op, Stray
    <3>. QED  BY <2>2, <3>2
  <2>5. CASE fifo_buf = "none"
    BY <2>1, <2>2, <2>5 DEF Op, Stray
  <2>. QED  BY <2>3, <2>4, <2>5
<1>5. CASE IsrFull
  BY <1>5 DEF IsrFull
<1>. QED  BY <1>1, <1>2, <1>3, <1>4, <1>5 DEF uart_isr

\* Under jd_timer0.
LEMMA BusTimer == ASSUME PInv, (Timer0Fires \/ jd_timer0) PROVE [Bus!BusNext]_BusVars
<1> USE DEF PInv, IInv, TypeOK, PromptInv, Goto, wire, context, buffers, BusVars, Op, Call, Stray
<1>1. CASE Timer0Fires
  BY <1>1 DEF Timer0Fires
<1>2. CASE TestFlag("rx", "t0_rx", "t0_rx_clr", "t0_tx")
  BY <1>2 DEF TestFlag
<1>3. CASE ClearFlag("rx", "t0_rx_clr", "t0_rx_call")
  <2>1. Call = "none" /\ Call' = "rx" /\ Op' = Op /\ ~Stray'
    BY <1>3 DEF ClearFlag, Op, Call, Stray
  <2>2. CASE "rx" \in client
    <3>1. Op = "receiving" /\ ~Stray
      BY <1>3, <2>2 DEF ClearFlag, Op, Stray
    <3>. QED  BY <2>1, <3>1 DEF Bus!BusNext, Bus!RxBegins
  <2>3. CASE "rx" \notin client
    <3>1. Op \notin {"announced", "receiving"} /\ Stray
      BY <1>3, <2>3 DEF ClearFlag, DonePending, Op, Stray
    <3>. QED  BY <2>1, <3>1 DEF Bus!BusNext, Bus!StrayBegins
  <2>. QED  BY <2>2, <2>3
<1>4. CASE Completed("rx", "t0_rx_call", "t0_tx")
  <2>1. Call = "rx" /\ Call' = "none"
    BY <1>4 DEF Completed, Call
  <2>2. CASE "rx" \in client
    <3>1. client' = {} /\ "rx" \notin cb
      BY <1>4, <2>2 DEF Completed, OneOperation, DonePending
    <3>2. Op = "receiving" /\ Op' = "idle" /\ ~Stray /\ ~Stray'
      BY <1>4, <2>2, <3>1 DEF Completed, Op, Stray
    <3>. QED  BY <2>1, <3>2 DEF Bus!BusNext, Bus!RxReturns
  <2>3. CASE "rx" \notin client
    <3>1. client' = client
      BY <1>4, <2>3 DEF Completed
    <3>2. Op \notin {"announced", "receiving"} /\ Op' = Op /\ Stray' = Stray
      BY <1>4, <2>3, <3>1 DEF Completed, Op, Stray
    <3>. QED  BY <2>1, <3>2 DEF Bus!BusNext, Bus!StrayReturns
  <2>. QED  BY <2>2, <2>3
<1>5. CASE TestFlag("tx", "t0_tx", "t0_tx_clr", "t0_fall")
  BY <1>5 DEF TestFlag
<1>6. CASE ClearFlag("tx", "t0_tx_clr", "t0_tx_call")
  BY <1>6 DEF ClearFlag, TxPhases, Bus!BusNext, Bus!TxBegins
<1>7. CASE Completed("tx", "t0_tx_call", "t0_fall")
  BY <1>7 DEF Completed, TxPhases, Bus!BusNext, Bus!TxReturns
<1>8. CASE TestFlag("fall", "t0_fall", "t0_fall_clr", "idle")
  BY <1>8 DEF TestFlag, FallOwned, DonePending, Bus!BusNext, Bus!Announce
<1>9. CASE ClearFlag("fall", "t0_fall_clr", "t0_fall_call")
  BY <1>9 DEF ClearFlag
<1>10. CASE LineFalling
  BY <1>10 DEF LineFalling, RxUnderWay, Bus!BusNext, Bus!Fall
<1>. QED  BY <1>1, <1>2, <1>3, <1>4, <1>5, <1>6, <1>7, <1>8, <1>9, <1>10
     DEF jd_timer0

\* Under uart_start_rx and the client's timeout.
LEMMA BusStartRx == ASSUME PInv, (uart_start_rx \/ RxTimeout) PROVE [Bus!BusNext]_BusVars
<1> USE DEF PInv, IInv, TypeOK, PromptInv, Goto, wire, context, buffers, BusVars, Op, Call, Stray
<1>1. CASE RxCheck
  BY <1>1 DEF RxCheck
<1>2. CASE RxLend
  BY <1>2 DEF RxLend, TaskOwns
<1>3. CASE uart_flush_rx
  BY <1>3 DEF uart_flush_rx
<1>4. CASE RxPoll
  BY <1>4 DEF RxPoll
<1>5. CASE RxAbort
  <2>1. client = {"rx"} /\ UNCHANGED <<client, cb>>
    BY <1>5 DEF RxAbort, TaskOwns
  <2>2. Op = "receiving" /\ Op' = Op /\ Stray' = Stray
    BY <1>5, <2>1 DEF RxAbort, Op, Stray
  <2>3. Call = "none" /\ Call' = "early"
    BY <1>5 DEF RxAbort, Call
  <2>. QED  BY <2>2, <2>3 DEF Bus!BusNext, Bus!RxBegins
<1>6. CASE Completed("rx", "rx_call", "idle")
  <2>1. client = {"rx"} /\ client' = {}
    BY <1>6 DEF Completed, TaskOwns
  <2>2. Op = "receiving" /\ Op' = "idle"
    BY <1>6, <2>1 DEF Completed, Op
  <2>3. Call = "early" /\ Call' = "none"
    BY <1>6 DEF Completed, Call
  <2>4. Stray' \in BOOLEAN
    BY ONLY DEF Stray
  <2>. QED  BY <2>2, <2>3, <2>4 DEF Bus!BusNext, Bus!EarlyReturns
<1>7. CASE RxTimeout
  <2>1. "rx" \in client /\ client' = {}
    BY <1>7 DEF RxTimeout, OneOperation
  <2>2. Op = "receiving" /\ Op' = "idle"
    BY <1>7, <2>1 DEF RxTimeout, Op
  <2>3. Call = "none" /\ Call' = Call
    BY <1>7 DEF RxTimeout, Call
  <2>4. Stray' \in BOOLEAN
    BY ONLY DEF Stray
  <2>. QED  BY <2>2, <2>3, <2>4 DEF Bus!BusNext, Bus!GiveUp
<1>. QED  BY <1>1, <1>2, <1>3, <1>4, <1>5, <1>6, <1>7 DEF uart_start_rx

\* Under uart_start_tx.
LEMMA BusStartTx == ASSUME PInv, uart_start_tx PROVE [Bus!BusNext]_BusVars
<1> USE DEF PInv, IInv, TypeOK, PromptInv, Goto, wire, context, buffers, BusVars, Op, Call, Stray
<1>1. CASE TxCall
  BY <1>1 DEF TxCall, TxPhases, TxExclusive, Bus!BusNext, Bus!Ask
<1>2. CASE TxCheck
  BY <1>2 DEF TxCheck
<1>3. CASE TxMask
  BY <1>3 DEF TxMask, TxRefuse, TxPhases, Bus!BusNext, Bus!Refuse
<1>4. CASE TxLost
  BY <1>4 DEF TxLost
<1>5. CASE TxPulse
  <2>1. client = {"tx"} /\ "tx" \notin cb /\ ~in_tx
    BY <1>5 DEF TxPulse, TxPhases, TaskOwns
  <2>2. Op = "asked" /\ Op' = "sending"
    BY <1>5, <2>1 DEF TxPulse, Op
  <2>3. Call' = Call /\ Stray' = Stray
    BY <1>5 DEF TxPulse, Call, Stray
  <2>. QED  BY <2>2, <2>3 DEF Bus!BusNext, Bus!Grant
<1>6. CASE tx_race
  BY <1>6 DEF tx_race, TxRefuse, start_bg_rx, TxPhases, Bus!BusNext, Bus!Refuse
<1>7. CASE TxGo
  BY <1>7 DEF TxGo, TxPhases
<1>. QED  BY <1>1, <1>2, <1>3, <1>4, <1>5, <1>6, <1>7 DEF uart_start_tx

\* The wire and the hardware do not touch them.
LEMMA BusEnvironment == ASSUME Remote \/ Hw \/ UNCHANGED vars PROVE UNCHANGED BusVars
<1>1. UNCHANGED <<context, tpc, client>>
  BY DEF Remote, Hw, HwOnly, vars, RemoteLow, RemoteHigh, RemoteByte, RemoteEnd, RemoteDies,
         BreakDetected, RxFifoTimeout, FramingError, TxByteSent, TxFifoLow, TxBreakSent
<1>. QED  BY <1>1 DEF BusVars, Op, Call, Stray, context

\* The driver implements the half-duplex bus of BusService as long as interrupts are not
\* late: one operation at a time, announced or granted only after the one before has
\* ended; jd_rx_completed and jd_tx_completed called for the operation under way, and
\* otherwise only once after a reception given up, one that ended early or a transmission
\* broken off, and before the next jd_line_falling (hw-esp32.c:92-104, 345-358, 378-485).
THEOREM OneOperationAtATime == ASSUME Prompt PROVE Spec => HalfDuplex
<1>1. Init => Bus!BusInit
  BY DEF Init, Op, Call, Stray, Bus!BusInit
<1>2. PInv /\ [Next]_vars => [Bus!BusNext]_BusVars
  BY BusIsr, BusTimer, BusStartRx, BusStartTx, BusEnvironment DEF Next, Task
<1>3. [Bus!BusNext]_BusVars => [Bus!BusNext]_(Bus!bus)
  BY DEF BusVars
<1>. QED  BY <1>1, <1>2, <1>3, PromptInvariance, PTL DEF Spec, HalfDuplex, Bus!BusSpec

(***************************************************************************)
(* Without any fault the driver also keeps its assertions and every byte.  *)
(* Each kind of fault alone breaks both claims.  The argument ties the bus *)
(* to the driver: what a pending break means, where the bytes are.         *)
(***************************************************************************)
Calm == Faults = {}

\* No error ends a reception, so none is ended before the buffer is lent.
NoErrors ==
  /\ raw \intersect {"TOUT", "FRM"} = {}
  /\ ~rx_ended /\ tpc # "rx_abort"

\* The pin follows the transmission.
PinFollows ==
  pin = IF tpc \in {"tx_race", "tx_go"} THEN "off" ELSE IF in_tx THEN "tx" ELSE "rx"

\* The interrupts of a reception are enabled from its low pulse to its end.
EndsEnabled ==
  IF seen_low THEN RxEndFlags \union {"FULL"} \subseteq ena
  ELSE ena \intersect {"TOUT", "FRM", "FULL"} = {}

\* What a break means: on a line that carries a frame, its beginning; else, its
\* end.  It is taken once.
BreakMeans ==
  /\ bus \in {"idle", "low"} => (seen_low <=> "BRK" \in raw)
  /\ bus \in {"lowdet", "data"} /\ tpc # "tx_race" => (seen_low <=> "BRK" \notin raw)
  /\ tpc = "tx_race" => bus \in {"low", "data"} /\ "BRK" \notin raw
  /\ tpc = "tx_pulse" => bus \in {"idle", "low"}

\* The remote is silent while this device transmits.
SilentInTx == in_tx => bus = "idle" /\ ~seen_low

\* From the low pulse on, the buffer is lent or about to be; the bits that make
\* the interrupt read the FIFO come after.
BufferAwaited ==
  /\ seen_low => "fall" \in cb \/ tpc \in {"t0_fall_call", "rx_check", "rx_lend"} \/ fifo_buf = "rx"
  /\ "FULL" \in raw => seen_low /\ fifo_buf = "rx"
  /\ "BRK" \in raw /\ seen_low => fifo_buf = "rx"

\* Every byte of the frame is in the FIFO, in the buffer, or beyond its end.
BytesKept ==
  /\ bus \in {"low", "lowdet"} \/ (bus = "data" /\ ~seen_low) => sent = 0
  /\ ~seen_low => rxfifo = 0
  /\ seen_low /\ bus # "low" =>
       /\ rxfifo <= sent
       /\ IF fifo_buf = "rx" THEN rx_len = MaxBytes - Least(sent - rxfifo, MaxBytes)
          ELSE rxfifo = sent

CalmInv ==
  /\ NoErrors /\ PinFollows /\ EndsEnabled /\ BreakMeans /\ SilentInTx
  /\ BufferAwaited /\ BytesKept /\ FrameComplete /\ AssertsHold

CInv == PInv /\ CalmInv

LEMMA CalmInit == ASSUME Init PROVE CalmInv
BY ConstantsOK DEF ConstantsOK, Init, CalmInv, NoErrors, PinFollows, EndsEnabled, BreakMeans,
       SilentInTx, BufferAwaited, BytesKept, FrameComplete, AssertsHold

\* The interrupt handler.
LEMMA CalmIsr == ASSUME Calm, CInv, uart_isr PROVE CalmInv'
<1> USE ConstantsOK DEF ConstantsOK, Calm, CInv, PInv, IInv, TypeOK, PromptInv, CalmInv,
                        uart_isr
<1> panic = "none"  BY DEF AssertsHold
<1>1. CASE IsrLowPulse
  <2> USE <1>1 DEF IsrLowPulse, Status, start_bg_rx, read_fifo, RxTaken, Least
  <2>1. NoErrors' /\ PinFollows' /\ EndsEnabled' /\ BreakMeans' /\ FrameComplete'
    BY DEF NoErrors, PinFollows, EndsEnabled, BreakMeans, FrameComplete
  <2>2. SilentInTx'  BY DEF SilentInTx, BreakMeans
  <2>3. BufferAwaited'  BY DEF BufferAwaited, BreakMeans, SilentInTx, BufferLent
  <2>4. BytesKept'  BY DEF BytesKept, BreakMeans, SilentInTx, BufferLent, RxUnderWay,
           LowOwned, LowPending
  <2>5. AssertsHold'  BY DEF AssertsHold, SilentInTx, BreakMeans
  <2>. QED  BY <2>1, <2>2, <2>3, <2>4, <2>5
<1>2. CASE IsrTxDone
  <2> USE <1>2 DEF IsrTxDone, Status, uart_disable
  <2>1. NoErrors' /\ PinFollows' /\ EndsEnabled' /\ SilentInTx' /\ FrameComplete'
        /\ AssertsHold'
    BY DEF NoErrors, PinFollows, EndsEnabled, SilentInTx, FrameComplete, AssertsHold
  <2>2. BreakMeans'  BY DEF BreakMeans, SilentInTx, TxPhases
  <2>3. BufferAwaited'  BY DEF BufferAwaited, EndsEnabled
  <2>4. BytesKept'  BY DEF BytesKept, SilentInTx, TxPhases
  <2>. QED  BY <2>1, <2>2, <2>3, <2>4
<1>3. CASE IsrTxEmpty
  <2> USE <1>3 DEF IsrTxEmpty, Status, read_fifo, RxTaken, Least, fill_fifo
  <2>1. NoErrors' /\ PinFollows' /\ EndsEnabled' /\ SilentInTx' /\ BufferAwaited'
        /\ FrameComplete' /\ AssertsHold'
    BY DEF NoErrors, PinFollows, EndsEnabled, SilentInTx, BufferAwaited, FrameComplete,
           AssertsHold
  <2>2. BreakMeans'  BY DEF BreakMeans, SilentInTx, TxPhases
  <2>3. BytesKept'  BY DEF BytesKept, SilentInTx, TxPhases
  <2>. QED  BY <2>1, <2>2, <2>3
<1>4. CASE IsrRxEnd
  <2> USE <1>4 DEF IsrRxEnd, Status, uart_disable, ReadSkips, RxTaken, Least
  <2>1. EndsEnabled' /\ SilentInTx' /\ AssertsHold'
    BY DEF EndsEnabled, SilentInTx, AssertsHold
  <2>2. NoErrors'  BY DEF NoErrors, BufferAwaited
  <2>3. PinFollows'  BY DEF PinFollows, EndsEnabled, SilentInTx
  <2>4. BreakMeans'  BY DEF BreakMeans, NoErrors
  <2>5. BufferAwaited'  BY DEF BufferAwaited, EndsEnabled
  <2>6. BytesKept'  BY DEF BytesKept, BreakMeans, NoErrors
  <2>7. FrameComplete'  BY DEF FrameComplete, BytesKept, BreakMeans, EndsEnabled,
           BufferAwaited
  <2>. QED  BY <2>1, <2>2, <2>3, <2>4, <2>5, <2>6, <2>7
<1>5. CASE IsrFull
  <2> USE <1>5 DEF IsrFull, Status, read_fifo, ReadSkips, RxTaken, Least
  <2>1. NoErrors' /\ PinFollows' /\ EndsEnabled' /\ BreakMeans' /\ SilentInTx'
        /\ BufferAwaited' /\ FrameComplete' /\ AssertsHold'
    BY DEF NoErrors, PinFollows, EndsEnabled, BreakMeans, SilentInTx, BufferAwaited,
           FrameComplete, AssertsHold
  <2>2. BytesKept'  BY DEF BytesKept, BufferAwaited
  <2>. QED  BY <2>1, <2>2
<1>. QED  BY <1>1, <1>2, <1>3, <1>4, <1>5 DEF uart_isr

\* The alarm and the callbacks of jd_timer0.
LEMMA CalmTimer == ASSUME Calm, CInv, (Timer0Fires \/ jd_timer0) PROVE CalmInv'
<1> USE ConstantsOK DEF ConstantsOK, Calm, CInv, PInv, IInv, TypeOK, PromptInv, CalmInv,
                        Goto, wire, context, buffers
<1> panic = "none"  BY DEF AssertsHold
<1>1. CASE Timer0Fires
  BY <1>1 DEF Timer0Fires, NoErrors, PinFollows, EndsEnabled, BreakMeans, SilentInTx,
         BufferAwaited, BytesKept, FrameComplete, AssertsHold
<1>2. CASE TestFlag("rx", "t0_rx", "t0_rx_clr", "t0_tx")
  BY <1>2 DEF TestFlag, NoErrors, PinFollows, EndsEnabled, BreakMeans, SilentInTx,
         BufferAwaited, BytesKept, FrameComplete, AssertsHold
<1>3. CASE ClearFlag("rx", "t0_rx_clr", "t0_rx_call")
  BY <1>3 DEF ClearFlag, NoErrors, PinFollows, EndsEnabled, BreakMeans, SilentInTx,
         BufferAwaited, BytesKept, FrameComplete, AssertsHold
<1>4. CASE Completed("rx", "t0_rx_call", "t0_tx")
  BY <1>4 DEF Completed, NoErrors, PinFollows, EndsEnabled, BreakMeans, SilentInTx,
         BufferAwaited, BytesKept, FrameComplete, AssertsHold
<1>5. CASE TestFlag("tx", "t0_tx", "t0_tx_clr", "t0_fall")
  BY <1>5 DEF TestFlag, NoErrors, PinFollows, EndsEnabled, BreakMeans, SilentInTx,
         BufferAwaited, BytesKept, FrameComplete, AssertsHold
<1>6. CASE ClearFlag("tx", "t0_tx_clr", "t0_tx_call")
  BY <1>6 DEF ClearFlag, NoErrors, PinFollows, EndsEnabled, BreakMeans, SilentInTx,
         BufferAwaited, BytesKept, FrameComplete, AssertsHold
<1>7. CASE Completed("tx", "t0_tx_call", "t0_fall")
  BY <1>7 DEF Completed, NoErrors, PinFollows, EndsEnabled, BreakMeans, SilentInTx,
         BufferAwaited, BytesKept, FrameComplete, AssertsHold
<1>8. CASE TestFlag("fall", "t0_fall", "t0_fall_clr", "idle")
  BY <1>8 DEF TestFlag, NoErrors, PinFollows, EndsEnabled, BreakMeans, SilentInTx,
         BufferAwaited, BytesKept, FrameComplete, AssertsHold
<1>9. CASE ClearFlag("fall", "t0_fall_clr", "t0_fall_call")
  BY <1>9 DEF ClearFlag, NoErrors, PinFollows, EndsEnabled, BreakMeans, SilentInTx,
         BufferAwaited, BytesKept, FrameComplete, AssertsHold
<1>10. CASE LineFalling
  BY <1>10 DEF LineFalling, NoErrors, PinFollows, EndsEnabled, BreakMeans, SilentInTx,
         BufferAwaited, BytesKept, FrameComplete, AssertsHold
<1>. QED  BY <1>1, <1>2, <1>3, <1>4, <1>5, <1>6, <1>7, <1>8, <1>9, <1>10
     DEF jd_timer0

\* uart_start_rx, and the client's timeout.
LEMMA CalmStartRx == ASSUME Calm, CInv, (uart_start_rx \/ RxTimeout) PROVE CalmInv'
<1> USE ConstantsOK DEF ConstantsOK, Calm, CInv, PInv, IInv, TypeOK, PromptInv, CalmInv,
                        Goto, wire, context, buffers
<1> panic = "none"  BY DEF AssertsHold
<1>1. CASE RxCheck
  <2> USE <1>1 DEF RxCheck
  <2>1. NoErrors' /\ PinFollows' /\ EndsEnabled' /\ BreakMeans' /\ SilentInTx'
        /\ BufferAwaited' /\ BytesKept' /\ FrameComplete'
    BY DEF NoErrors, PinFollows, EndsEnabled, BreakMeans, SilentInTx, BufferAwaited,
           BytesKept, FrameComplete
  <2>2. AssertsHold'  BY DEF AssertsHold, RxUnderWay, FifoHasBuffer
  <2>. QED  BY <2>1, <2>2
<1>2. CASE RxLend
  <2> USE <1>2 DEF RxLend
  <2>1. NoErrors' /\ PinFollows' /\ EndsEnabled' /\ BreakMeans' /\ SilentInTx'
        /\ BufferAwaited' /\ FrameComplete' /\ AssertsHold'
    BY DEF NoErrors, PinFollows, EndsEnabled, BreakMeans, SilentInTx, BufferAwaited,
           FrameComplete, AssertsHold
  <2>2. BytesKept'  BY DEF BytesKept, RxUnderWay, Least
  <2>. QED  BY <2>1, <2>2
<1>3. CASE uart_flush_rx
  <2> USE <1>3 DEF uart_flush_rx, read_fifo, RxTaken, Least
  <2>1. NoErrors'  BY DEF NoErrors
  <2>2. PinFollows'  BY DEF PinFollows
  <2>3. EndsEnabled'  BY DEF EndsEnabled
  <2>4. BreakMeans'  BY DEF BreakMeans
  <2>5. SilentInTx'  BY DEF SilentInTx
  <2>6. BufferAwaited'  BY DEF BufferAwaited
  <2>7. BytesKept'
    <3>1. CASE seen_low
      <4>1. fifo_buf = "rx"
        BY <3>1 DEF BufferAwaited, TaskOwns, FallOwned
      <4>2. rxfifo' = 0 /\ rx_len' = rx_len - Least(rxfifo, rx_len)
        OBVIOUS
      <4>3. ASSUME bus # "low" PROVE rx_len' = MaxBytes - Least(sent, MaxBytes)
        <5>1. rxfifo <= sent /\ rx_len = MaxBytes - Least(sent - rxfifo, MaxBytes)
          BY <3>1, <4>1, <4>3 DEF BytesKept
        <5>2. /\ rxfifo \in Nat /\ sent \in Nat /\ MaxBytes \in Nat
          OBVIOUS
        <5>. QED  BY ONLY <4>2, <5>1, <5>2 DEF Least
      <4>4. sent - rxfifo' = sent
        BY <4>2
      <4>. QED  BY <3>1, <4>1, <4>2, <4>3, <4>4 DEF BytesKept
    <3>2. CASE ~seen_low
      BY <3>2 DEF BytesKept
    <3>. QED  BY <3>1, <3>2
  <2>8. FrameComplete'  BY DEF FrameComplete
  <2>9. AssertsHold'  BY DEF AssertsHold
  <2>. QED  BY <2>1, <2>2, <2>3, <2>4, <2>5, <2>6, <2>7, <2>8, <2>9
<1>4. CASE RxPoll
  BY <1>4 DEF RxPoll, NoErrors, PinFollows, EndsEnabled, BreakMeans, SilentInTx,
         BufferAwaited, BytesKept, FrameComplete, AssertsHold
<1>5. CASE RxAbort
  <2> USE <1>5 DEF RxAbort
  <2>1. NoErrors' /\ PinFollows' /\ SilentInTx' /\ FrameComplete' /\ AssertsHold'
    BY DEF NoErrors, PinFollows, SilentInTx, FrameComplete, AssertsHold
  <2>2. EndsEnabled'  BY DEF EndsEnabled, NoErrors
  <2>3. BreakMeans'  BY DEF BreakMeans, NoErrors
  <2>4. BufferAwaited'  BY DEF BufferAwaited, NoErrors
  <2>5. BytesKept'  BY DEF BytesKept, NoErrors
  <2>. QED  BY <2>1, <2>2, <2>3, <2>4, <2>5
<1>6. CASE Completed("rx", "rx_call", "idle")
  BY <1>6 DEF Completed, NoErrors, PinFollows, EndsEnabled, BreakMeans, SilentInTx,
         BufferAwaited, BytesKept, FrameComplete, AssertsHold
<1>7. CASE RxTimeout
  <2> USE <1>7 DEF RxTimeout, uart_disable
  <2>1. NoErrors' /\ EndsEnabled' /\ SilentInTx' /\ BytesKept' /\ FrameComplete'
        /\ AssertsHold'
    BY DEF NoErrors, EndsEnabled, SilentInTx, BytesKept, FrameComplete, AssertsHold
  <2>2. PinFollows'  BY ZenonT(30) DEF PinFollows, TxExclusive, OneOperation
  <2>3. BreakMeans'  BY DEF BreakMeans, EndsEnabled
  <2>4. BufferAwaited'  BY DEF BufferAwaited, EndsEnabled
  <2>. QED  BY <2>1, <2>2, <2>3, <2>4
<1>. QED  BY <1>1, <1>2, <1>3, <1>4, <1>5, <1>6, <1>7 DEF uart_start_rx

\* uart_start_tx.
LEMMA CalmStartTx == ASSUME Calm, CInv, uart_start_tx PROVE CalmInv'
<1> USE ConstantsOK DEF ConstantsOK, Calm, CInv, PInv, IInv, TypeOK, PromptInv, CalmInv,
                        Goto, wire, context, buffers
<1> panic = "none"  BY DEF AssertsHold
<1>1. CASE TxCall
  BY <1>1 DEF TxCall, NoErrors, PinFollows, EndsEnabled, BreakMeans, SilentInTx,
         BufferAwaited, BytesKept, FrameComplete, AssertsHold
<1>2. CASE TxCheck
  <2> USE <1>2 DEF TxCheck
  <2>1. NoErrors' /\ PinFollows' /\ EndsEnabled' /\ BreakMeans' /\ SilentInTx'
        /\ BufferAwaited' /\ BytesKept' /\ FrameComplete'
    BY DEF NoErrors, PinFollows, EndsEnabled, BreakMeans, SilentInTx, BufferAwaited,
           BytesKept, FrameComplete
  <2>2. AssertsHold'  BY DEF AssertsHold, TxPhases
  <2>. QED  BY <2>1, <2>2
<1>3. CASE TxMask
  BY <1>3 DEF TxMask, TxRefuse, NoErrors, PinFollows, EndsEnabled, BreakMeans, SilentInTx,
         BufferAwaited, BytesKept, FrameComplete, AssertsHold
<1>4. CASE TxLost
  <2> USE <1>4 DEF TxLost, LineLevels
  <2>1. NoErrors' /\ PinFollows' /\ EndsEnabled' /\ SilentInTx' /\ BufferAwaited'
        /\ BytesKept' /\ FrameComplete' /\ AssertsHold'
    BY DEF NoErrors, PinFollows, EndsEnabled, SilentInTx, BufferAwaited, BytesKept,
           FrameComplete, AssertsHold
  <2>2. BreakMeans'  BY DEF BreakMeans, TxPhases
  <2>. QED  BY <2>1, <2>2
<1>5. CASE TxPulse
  <2> USE <1>5 DEF TxPulse, LineLevels
  <2>1. NoErrors' /\ PinFollows' /\ EndsEnabled' /\ BreakMeans' /\ BufferAwaited'
        /\ BytesKept' /\ FrameComplete'
    BY DEF NoErrors, PinFollows, EndsEnabled, BreakMeans, BufferAwaited, BytesKept,
           FrameComplete
  <2>2. SilentInTx'  BY DEF SilentInTx, BreakMeans, TxPhases
  <2>3. AssertsHold'  BY DEF AssertsHold, TxPhases
  <2>. QED  BY <2>1, <2>2, <2>3
<1>6. CASE tx_race
  <2> USE <1>6 DEF tx_race, TxRefuse, LineLevels, start_bg_rx, read_fifo, RxTaken, Least
  <2>1. NoErrors' /\ EndsEnabled' /\ BreakMeans' /\ FrameComplete'
    BY DEF NoErrors, EndsEnabled, BreakMeans, FrameComplete
  <2>2. PinFollows'  BY DEF PinFollows, SilentInTx, BreakMeans
  <2>3. SilentInTx'  BY DEF SilentInTx, BreakMeans
  <2>4. BufferAwaited'  BY DEF BufferAwaited, BreakMeans, SilentInTx, BufferLent
  <2>5. BytesKept'  BY DEF BytesKept, BreakMeans, BufferLent, RxUnderWay
  <2>6. AssertsHold'  BY DEF AssertsHold, SilentInTx, BreakMeans
  <2>. QED  BY <2>1, <2>2, <2>3, <2>4, <2>5, <2>6
<1>7. CASE TxGo
  <2> USE <1>7 DEF TxGo, fill_fifo, Least
  <2>1. NoErrors' /\ EndsEnabled' /\ SilentInTx' /\ FrameComplete' /\ AssertsHold'
    BY DEF NoErrors, EndsEnabled, SilentInTx, FrameComplete, AssertsHold
  <2>2. PinFollows'  BY DEF PinFollows, TxPhases
  <2>3. BreakMeans'  BY DEF BreakMeans, SilentInTx, TxPhases
  <2>4. BufferAwaited'  BY DEF BufferAwaited, BufferLent, TaskOwns
  <2>5. BytesKept'  BY DEF BytesKept, BufferLent, TaskOwns
  <2>. QED  BY <2>1, <2>2, <2>3, <2>4, <2>5
<1>. QED  BY <1>1, <1>2, <1>3, <1>4, <1>5, <1>6, <1>7 DEF uart_start_tx

\* The remote end.
LEMMA CalmRemote == ASSUME Calm, CInv, Remote PROVE CalmInv'
<1> USE ConstantsOK DEF ConstantsOK, Calm, CInv, PInv, IInv, TypeOK, PromptInv, CalmInv,
                        HwOnly, context, wire, Served, Receiving, Raise, Status
<1> panic = "none"  BY DEF AssertsHold
<1>1. CASE RemoteLow
  <2> USE <1>1 DEF RemoteLow
  <2>1. NoErrors' /\ PinFollows' /\ EndsEnabled' /\ BreakMeans' /\ BufferAwaited'
        /\ BytesKept' /\ FrameComplete' /\ AssertsHold'
    BY DEF NoErrors, PinFollows, EndsEnabled, BreakMeans, BufferAwaited, BytesKept,
           FrameComplete, AssertsHold
  <2>2. SilentInTx'  BY DEF SilentInTx, PinFollows
  <2>. QED  BY <2>1, <2>2
<1>2. CASE RemoteHigh
  <2> USE <1>2 DEF RemoteHigh
  <2>1. NoErrors' /\ PinFollows' /\ EndsEnabled' /\ SilentInTx' /\ BufferAwaited'
        /\ FrameComplete' /\ AssertsHold'
    BY DEF NoErrors, PinFollows, EndsEnabled, SilentInTx, BufferAwaited, FrameComplete,
           AssertsHold
  <2>2. BreakMeans'  BY DEF BreakMeans, PinFollows, SilentInTx, TxPhases
  <2>3. BytesKept'  BY DEF BytesKept, BreakMeans, PinFollows, SilentInTx, BufferAwaited,
           BufferLent, TaskOwns
  <2>. QED  BY <2>1, <2>2, <2>3
<1>3. CASE RemoteByte
  <2> USE <1>3 DEF RemoteByte
  <2>1. NoErrors' /\ PinFollows' /\ EndsEnabled' /\ BreakMeans' /\ SilentInTx'
        /\ FrameComplete' /\ AssertsHold'
    BY DEF NoErrors, PinFollows, EndsEnabled, BreakMeans, SilentInTx, FrameComplete,
           AssertsHold
  <2>2. BufferAwaited'  BY DEF BufferAwaited, BreakMeans, LineWatched
  <2>3. BytesKept'  BY DEF BytesKept, BreakMeans, PinFollows, LineWatched
  <2>. QED  BY <2>1, <2>2, <2>3
<1>4. CASE RemoteEnd
  <2> USE <1>4 DEF RemoteEnd
  <2>1. NoErrors' /\ PinFollows' /\ EndsEnabled' /\ SilentInTx' /\ BufferAwaited'
        /\ BytesKept' /\ FrameComplete' /\ AssertsHold'
    BY DEF NoErrors, PinFollows, EndsEnabled, SilentInTx, BufferAwaited, BytesKept,
           FrameComplete, AssertsHold
  <2>2. BreakMeans'  BY DEF BreakMeans, PinFollows, SilentInTx, LineWatched
  <2>. QED  BY <2>1, <2>2
<1>5. CASE RemoteDies
  BY <1>5 DEF RemoteDies, NoErrors, PinFollows, EndsEnabled, BreakMeans, SilentInTx,
         BufferAwaited, BytesKept, FrameComplete, AssertsHold
<1>. QED  BY <1>1, <1>2, <1>3, <1>4, <1>5 DEF Remote

\* The hardware.
LEMMA CalmHw == ASSUME Calm, CInv, Hw PROVE CalmInv'
<1> USE ConstantsOK DEF ConstantsOK, Calm, CInv, PInv, IInv, TypeOK, PromptInv, CalmInv,
                        HwOnly, context, wire, Served, Receiving, Raise, Status
<1> panic = "none"  BY DEF AssertsHold
<1>1. CASE BreakDetected
  <2> USE <1>1 DEF BreakDetected
  <2>1. NoErrors' /\ PinFollows' /\ EndsEnabled' /\ SilentInTx' /\ BufferAwaited'
        /\ FrameComplete' /\ AssertsHold'
    BY DEF NoErrors, PinFollows, EndsEnabled, SilentInTx, BufferAwaited, FrameComplete,
           AssertsHold
  <2>2. BreakMeans'  BY DEF BreakMeans, EndsEnabled
  <2>3. BytesKept'  BY DEF BytesKept, BreakMeans, EndsEnabled
  <2>. QED  BY <2>1, <2>2, <2>3
<1>2. CASE RxFifoTimeout
  <2> USE <1>2 DEF RxFifoTimeout
  <2>1. PinFollows' /\ EndsEnabled' /\ BreakMeans' /\ SilentInTx' /\ BufferAwaited'
        /\ BytesKept' /\ FrameComplete' /\ AssertsHold'
    BY DEF PinFollows, EndsEnabled, BreakMeans, SilentInTx, BufferAwaited, BytesKept,
           FrameComplete, AssertsHold
  <2>2. NoErrors'  BY DEF NoErrors, BreakMeans, BytesKept, PinFollows, SilentInTx,
           EndsEnabled
  <2>. QED  BY <2>1, <2>2
<1>3. CASE FramingError
  BY <1>3 DEF FramingError, NoErrors, PinFollows, EndsEnabled, BreakMeans, SilentInTx,
         BufferAwaited, BytesKept, FrameComplete, AssertsHold
<1>4. CASE TxByteSent
  BY <1>4 DEF TxByteSent, NoErrors, PinFollows, EndsEnabled, BreakMeans, SilentInTx,
         BufferAwaited, BytesKept, FrameComplete, AssertsHold
<1>5. CASE TxFifoLow
  BY <1>5 DEF TxFifoLow, NoErrors, PinFollows, EndsEnabled, BreakMeans, SilentInTx,
         BufferAwaited, BytesKept, FrameComplete, AssertsHold
<1>6. CASE TxBreakSent
  BY <1>6 DEF TxBreakSent, NoErrors, PinFollows, EndsEnabled, BreakMeans, SilentInTx,
         BufferAwaited, BytesKept, FrameComplete, AssertsHold
<1>. QED  BY <1>1, <1>2, <1>3, <1>4, <1>5, <1>6 DEF Hw

LEMMA CalmStutter == ASSUME CInv, UNCHANGED vars PROVE CalmInv'
BY DEF CInv, CalmInv, vars, wire, context, NoErrors, PinFollows, EndsEnabled, BreakMeans,
       SilentInTx, BufferAwaited, BytesKept, FrameComplete, AssertsHold

THEOREM CalmInvariance == ASSUME Calm PROVE Spec => []CInv
<1>1. Prompt
  BY DEF Calm, Prompt
<1>2. Init => CInv
  BY InitHolds, PromptInit, CalmInit DEF CInv, PInv
<1>3. CInv /\ [Next]_vars => CInv'
  <2> SUFFICES ASSUME CInv, [Next]_vars PROVE CInv'
    OBVIOUS
  <2>1. PInv'
    BY <1>1, PromptStep DEF CInv
  <2>2. CalmInv'
    BY CalmIsr, CalmTimer, CalmStartRx, CalmStartTx, CalmRemote, CalmHw, CalmStutter
       DEF Next, Task
  <2>. QED  BY <2>1, <2>2 DEF CInv
<1>. QED  BY <1>2, <1>3, PTL DEF Spec

\* No JD_ASSERT and no JD_PANIC of the driver fires on a line without faults
\* (hw-esp32.c:305, 389, 413, 452); each kind of fault alone can make one fire.
THEOREM NeverPanics == ASSUME Calm PROVE Spec => []AssertsHold
<1>1. CInv => AssertsHold
  BY DEF CInv, CalmInv
<1>. QED  BY <1>1, CalmInvariance, PTL

\* A reception that completes on such a line has handed over every byte of the
\* frame that fits in the buffer (hw-esp32.c:250-278, 341-376).
THEOREM NoByteLost == ASSUME Calm PROVE Spec => []FrameComplete
<1>1. CInv => FrameComplete
  BY DEF CInv, CalmInv
<1>. QED  BY <1>1, CalmInvariance, PTL
=============================================================================
