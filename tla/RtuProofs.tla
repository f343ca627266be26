------------------------------ MODULE RtuProofs ------------------------------
(***************************************************************************)
(* The safety of the receiver under any caller, and of the RTU master that *)
(* uses it, and that the master implements PollCycle: for every frame      *)
(* length, set of values, limit and kind of garbled answer.                *)
(***************************************************************************)
EXTENDS RtuMaster, SequenceTheorems, TLAPS

-----------------------------------------------------------------------------
(* The receiver.                                                           *)

UartInv ==
    /\ UartTypeOK
    /\ NoInterruptStorm
    /\ RoomForNextByte
    /\ OverrunKeepsByte

\* The reset state has the invariant: the receiver is off and empty.
LEMMA UartInitInv == UartInit => UartInv
  <1> SUFFICES ASSUME UartInit PROVE UartInv
    OBVIOUS
  <1>1. UartTypeOK /\ RoomForNextByte
    <2>1. rx = <<>> /\ Len(rx) = 0 /\ rx \in Seq(Byte)
      BY DEF UartInit
    <2> QED BY <2>1, UartAssumption DEF UartInit, UartTypeOK, RoomForNextByte
  <1>2. NoInterruptStorm /\ OverrunKeepsByte
    BY DEF UartInit, NoInterruptStorm, OverrunKeepsByte
  <1> QED BY <1>1, <1>2 DEF UartInv

\* Every call of the task, every interrupt and every byte keeps it.  The four
\* parts need each other: an overrun can only be cleared by a handler that
\* finds an unread byte and a transfer to store it in.
LEMMA UartStepInv == UartInv /\ [UartNext]_uartVars => UartInv'
  <1> SUFFICES ASSUME UartInv, [UartNext]_uartVars PROVE UartInv'
    OBVIOUS
  <1> USE UartAssumption
  <1>1. CASE HAL_UART_Receive_IT
    <2>1. CASE RxState = "BUSY_RX"
      <3>1. UNCHANGED uartVars
        BY <1>1, <2>1 DEF HAL_UART_Receive_IT
      <3> QED BY <3>1 DEF uartVars, UartInv, UartTypeOK, NoInterruptStorm,
                          RoomForNextByte, OverrunKeepsByte
    <2>2. CASE RxState = "READY"
      <3>1. RxState' = "BUSY_RX" /\ rxneie' = 1 /\ rx' = <<>> /\ dr' = dr /\ ore' = ore
        BY <1>1, <2>2 DEF HAL_UART_Receive_IT
      <3>2. rx' \in Seq(Byte) /\ Len(rx') = 0
        BY <3>1
      <3> QED BY <3>1, <3>2 DEF UartInv, UartTypeOK, NoInterruptStorm,
                          RoomForNextByte, OverrunKeepsByte
    <2> QED BY <2>1, <2>2 DEF UartInv, UartTypeOK
  <1>2. CASE StopReceiver
    BY <1>2 DEF StopReceiver, UartInv, UartTypeOK, NoInterruptStorm,
                RoomForNextByte, OverrunKeepsByte
  <1>3. CASE HAL_UART_IRQHandler
    <2>1. StoresByte
      BY <1>3 DEF HAL_UART_IRQHandler, IrqPending, StoresByte, UartInv, UartTypeOK,
                  NoInterruptStorm, OverrunKeepsByte
    <2>2. /\ rx' = Append(rx, dr) /\ dr' = NoByte /\ ore' = 0
          /\ dr \in Byte
      BY <1>3, <2>1 DEF HAL_UART_IRQHandler, StoresByte, UartInv, UartTypeOK
    <2>3. rx' \in Seq(Byte) /\ Len(rx') = Len(rx) + 1
      BY <2>2 DEF UartInv, UartTypeOK
    <2>4. CASE Completes \/ ore = 1
      BY <1>3, <2>2, <2>3, <2>4 DEF HAL_UART_IRQHandler, UartInv, UartTypeOK, StoresByte,
                  NoInterruptStorm, RoomForNextByte, OverrunKeepsByte, IrqPending
    <2>5. CASE ~(Completes \/ ore = 1)
      <3>1. RxState = "BUSY_RX" /\ RxState' = RxState /\ rxneie' = rxneie /\ Len(rx) + 1 # RxSize
        BY <1>3, <2>1, <2>5 DEF HAL_UART_IRQHandler, Completes, StoresByte
      <3> QED BY <2>2, <2>3, <3>1 DEF UartInv, UartTypeOK, NoInterruptStorm,
                          RoomForNextByte, OverrunKeepsByte
    <2> QED BY <2>4, <2>5
  <1>4. ASSUME NEW b \in Byte, LineByte(b) PROVE UartInv'
    BY <1>4 DEF LineByte, UartInv, UartTypeOK, NoInterruptStorm, RoomForNextByte,
                OverrunKeepsByte
  <1>5. CASE UNCHANGED uartVars
    BY <1>5 DEF uartVars, UartInv, UartTypeOK, NoInterruptStorm, RoomForNextByte,
                OverrunKeepsByte
  <1> QED
    BY <1>1, <1>2, <1>3, <1>4, <1>5
    DEF UartNext, HAL_UART_AbortReceive_IT, UART_WaitOnFlagTimeout

\* Whatever the order of calls, interrupts and bytes: the handle is well
\* typed, the receive interrupt never fires without a transfer that can take
\* the byte, the caller's buffer is never overrun, and an overrun error never
\* outlives the byte it is behind.
THEOREM UartSafety ==
    UartSpec => [](UartTypeOK /\ NoInterruptStorm /\ RoomForNextByte /\ OverrunKeepsByte)
  <1>1. UartInv => UartTypeOK /\ NoInterruptStorm /\ RoomForNextByte /\ OverrunKeepsByte
    BY DEF UartInv
  <1> QED
    BY UartInitInv, UartStepInv, <1>1, PTL DEF UartSpec

-----------------------------------------------------------------------------
(* The master.                                                             *)

\* The counters are compared before they are incremented, so each overshoots
\* its limit, by one while it runs and by one more in the step that ends it.
CountersBounded ==
    /\ pc \notin {"abort", "count"} => mdb_respons_timeout <= RESPONS_TIMEOUT + 1
    /\ pc \notin {"transmit", "receive"} => mdb_req_time <= SCAN_RATE + 1

\* A valid answer leaves no error, so the one after it is copied.
GoodsClean == goods > 0 => mdb_err_code = noErr

RtuInv ==
    /\ UartInv
    /\ RtuTypeOK
    /\ ReceiverOwned
    /\ CountersBounded
    /\ GoodsClean
    /\ FreshAfterTwoGood

\* A buffer with a right CRC decodes to a value, any other one to Garbage.
LEMMA RegistersType ==
    ASSUME NEW buf
    PROVE  /\ CrcOk(buf) => Registers(buf) \in Value
           /\ ~CrcOk(buf) => Registers(buf) = Garbage
  BY DEF CrcOk, Registers, Carries

\* Every step of the master is, for the receiver, one of its calls, one of
\* its interrupts, one byte or nothing: the receiver's invariant carries over.
LEMMA UartPart == RtuInv /\ [Next]_vars => UartInv'
  <1> SUFFICES ASSUME RtuInv, [Next]_vars PROVE [UartNext]_uartVars
    BY UartStepInv DEF RtuInv
  <1>1. CASE taskMdbEntry
    BY <1>1
    DEF taskMdbEntry, WaitForAnswer, GiveUp, AbortReceive, CountTimeout, CodeTimeout,
        WaitForScan, StartRequest, TransmitOK, TransmitTimeout, StartReceive, UartNext
  <1>2. CASE USART1_IRQHandler
    BY <1>2 DEF USART1_IRQHandler, UartNext
  <1>3. CASE SlaveAnswers \/ SlaveFails
    BY <1>3 DEF SlaveAnswers, SlaveFails
  <1>4. CASE ByteArrives
    <2>1. Head(wire) \in Byte
      BY <1>4 DEF ByteArrives, RtuInv, RtuTypeOK
    <2> QED BY <1>4, <2>1 DEF ByteArrives, UartNext
  <1>5. CASE UNCHANGED vars
    BY <1>5 DEF vars
  <1> QED
    BY <1>1, <1>2, <1>3, <1>4, <1>5 DEF Next, Slave

\* The first state has the invariant.
LEMMA RtuInitInv == Init => RtuInv
  <1> SUFFICES ASSUME Init PROVE RtuInv
    OBVIOUS
  <1> USE RtuMasterAssumption
  <1>1. UartInv /\ UartTypeOK
    BY UartInitInv DEF Init, UartInv
  <1>2. wire \in Seq(Byte)
    BY DEF Init
  <1>3. clean \in BOOLEAN
    BY DEF Init
  <1>4. RtuTypeOK
    BY <1>1, <1>2, <1>3 DEF Init, RtuTypeOK, flagReset, flagSet, noErr, crc_no_corret, timeout
  <1>5. ReceiverOwned /\ CountersBounded /\ GoodsClean /\ FreshAfterTwoGood
    BY DEF Init, UartInit, ReceiverOwned, CountersBounded, GoodsClean, FreshAfterTwoGood
  <1> QED BY <1>1, <1>4, <1>5 DEF RtuInv

\* One step per action of the task, one for the interrupt, one per action of
\* the slave.
LEMMA RtuStepInv == RtuInv /\ [Next]_vars => RtuInv'
  <1> SUFFICES ASSUME RtuInv, [Next]_vars PROVE RtuInv'
    OBVIOUS
  <1> USE RtuMasterAssumption
  <1>u. UartInv' /\ UartTypeOK'
    BY UartPart DEF UartInv
  <1> DEFINE Rest == RtuTypeOK /\ ReceiverOwned /\ CountersBounded
                     /\ GoodsClean /\ FreshAfterTwoGood
  <1> SUFFICES Rest'
    BY <1>u DEF RtuInv
  <1> USE DEF RtuInv, RtuTypeOK, ReceiverOwned, CountersBounded, GoodsClean,
              FreshAfterTwoGood, flagReset, flagSet, noErr, crc_no_corret, timeout
  <1>1. CASE WaitForAnswer
    BY <1>u, <1>1 DEF WaitForAnswer, shared, slaveVars, uartVars
  <1>2. CASE GiveUp
    BY <1>u, <1>2 DEF GiveUp, shared, slaveVars, uartVars
  <1>3. CASE AbortReceive
    BY <1>u, <1>3 DEF AbortReceive, HAL_UART_AbortReceive_IT, StopReceiver, shared, slaveVars
  <1>4. CASE CountTimeout
    BY <1>u, <1>4 DEF CountTimeout, slaveVars, uartVars
  <1>5. CASE CodeTimeout
    BY <1>u, <1>5 DEF CodeTimeout, slaveVars, uartVars
  <1>6. CASE WaitForScan
    BY <1>u, <1>6 DEF WaitForScan, shared, slaveVars, uartVars
  <1>7. CASE StartRequest
    BY <1>u, <1>7 DEF StartRequest, slaveVars, uartVars
  <1>8. CASE TransmitOK
    BY <1>u, <1>8 DEF TransmitOK, Fault, shared, uartVars
  <1>9. CASE TransmitTimeout
    BY <1>u, <1>9 DEF TransmitTimeout, Fault, UART_WaitOnFlagTimeout, StopReceiver, shared
  <1>10. CASE StartReceive
    BY <1>u, <1>10 DEF StartReceive, HAL_UART_Receive_IT, shared, slaveVars
  <1>11. CASE USART1_IRQHandler
    <2>1. UNCHANGED <<taskVars, slaveVars>> /\ RxState = "BUSY_RX"
      BY <1>11 DEF USART1_IRQHandler, HAL_UART_IRQHandler, IrqPending, UartInv, NoInterruptStorm
    <2>2. CASE Completes
      <3>1. HAL_UART_RxCpltCallback(rx') /\ RxState' = "READY"
        BY <1>11, <2>2 DEF USART1_IRQHandler, HAL_UART_IRQHandler
      <3>2. CASE CrcOk(rx')
        BY <1>u, <2>1, <3>1, <3>2, RegistersType
        DEF HAL_UART_RxCpltCallback, taskVars, slaveVars
      <3>3. CASE ~CrcOk(rx')
        BY <1>u, <2>1, <3>1, <3>3, RegistersType
        DEF HAL_UART_RxCpltCallback, taskVars, slaveVars
      <3> QED BY <3>2, <3>3
    <2>3. CASE ~Completes
      <3>1. UNCHANGED shared
        BY <1>11, <2>3 DEF USART1_IRQHandler
      <3> QED BY <1>u, <2>1, <3>1 DEF shared, taskVars, slaveVars
    <2> QED BY <2>2, <2>3
  <1>12. CASE SlaveAnswers
    BY <1>u, <1>12 DEF SlaveAnswers, uartVars, taskVars, shared
  <1>13. CASE SlaveFails
    BY <1>u, <1>13 DEF SlaveFails, Fault, uartVars, taskVars, shared
  <1>14. CASE ByteArrives
    BY <1>u, <1>14 DEF ByteArrives, LineByte, taskVars, shared
  <1>15. CASE UNCHANGED vars
    BY <1>u, <1>15 DEF vars, uartVars, taskVars, shared, slaveVars
  <1> QED
    BY <1>1, <1>2, <1>3, <1>4, <1>5, <1>6, <1>7, <1>8, <1>9, <1>10, <1>11, <1>12,
       <1>13, <1>14, <1>15
    DEF Next, taskMdbEntry, Slave

LEMMA RtuInvariant == Spec => []RtuInv
  BY RtuInitInv, RtuStepInv, PTL DEF Spec

\* The master's variables keep their ranges: no counter passes its limit by
\* more than the two increments, and the error counter wraps at CntMod.
THEOREM RtuTypeCorrect == Spec => []RtuTypeOK
  <1>1. RtuInv => RtuTypeOK
    BY DEF RtuInv
  <1> QED BY <1>1, RtuInvariant, PTL

\* The interrupt that ends a poll leaves no byte it could store behind
\* mdb_rx_buff (stm32f1xx_hal_uart.c:3563-3606).
THEOREM RtuRoomForNextByte == Spec => []RoomForNextByte
  <1>1. RtuInv => RoomForNextByte
    BY DEF RtuInv, UartInv
  <1> QED BY <1>1, RtuInvariant, PTL

\* An overrun is cleared by the first interrupt of the next poll, whatever the
\* master and the slave did before (stm32f1xx_hal_uart.c:2391-2422).
THEOREM RtuOverrunKeepsByte == Spec => []OverrunKeepsByte
  <1>1. RtuInv => OverrunKeepsByte
    BY DEF RtuInv, UartInv
  <1> QED BY <1>1, RtuInvariant, PTL

\* The receiver runs only inside the wait, and never storms.
THEOREM RtuReceiverOwned == Spec => [](ReceiverOwned /\ NoInterruptStorm)
  <1>1. RtuInv => ReceiverOwned /\ NoInterruptStorm
    BY DEF RtuInv, UartInv
  <1> QED BY <1>1, RtuInvariant, PTL

\* After two valid answers in a row the registers are the last of them.
THEOREM RtuFresh == Spec => []FreshAfterTwoGood
  <1>1. RtuInv => FreshAfterTwoGood
    BY DEF RtuInv
  <1> QED BY <1>1, RtuInvariant, PTL

-----------------------------------------------------------------------------
(* A poll that starts clean gets one answer.                               *)

\* Between the request and the start of the reception nothing is lost unless
\* a byte is left over.
NothingLost ==
    pc = "receive" /\ clean /\ dr = NoByte =>
        \/ request = 1 /\ wire = <<>>
        \/ request = 0 /\ wire \in Garbled \cup {Frame[v] : v \in Value}

\* What is arriving does not change when a byte comes off the line...
LEMMA ByteOffTheLine ==
    ASSUME NEW s \in Seq(Byte), NEW w \in Seq(Byte), w # <<>>
    PROVE  s \o <<Head(w)>> \o Tail(w) = s \o <<>> \o w
  <1>1. Head(w) \in Byte /\ <<Head(w)>> \in Seq(Byte) /\ Tail(w) \in Seq(Byte)
    BY HeadTailProperties
  <1>2. <<Head(w)>> \o Tail(w) = w
    <2> DEFINE c == <<Head(w)>> \o Tail(w)
    <2>1. Len(w) \in Nat /\ Len(w) > 0 /\ Len(<<Head(w)>>) = 1 /\ Len(Tail(w)) = Len(w) - 1
      BY EmptySeq, HeadTailProperties
    <2>2. c \in Seq(Byte) /\ Len(c) = Len(w)
      BY <1>1, <2>1, ConcatProperties
    <2>3. ASSUME NEW i \in 1 .. Len(w) PROVE c[i] = w[i]
      <3>1. c[i] = IF i <= 1 THEN <<Head(w)>>[i] ELSE Tail(w)[i - 1]
        BY <1>1, <2>1, ConcatProperties
      <3>2. CASE i = 1
        BY <3>1, <3>2
      <3>3. CASE i # 1
        <4>1. i - 1 \in 1 .. Len(Tail(w))
          BY <2>1, <3>3
        <4>2. Tail(w)[i - 1] = w[i - 1 + 1]
          BY <4>1, HeadTailProperties
        <4> QED BY <2>1, <3>1, <3>3, <4>2
      <3> QED BY <3>2, <3>3
    <2> HIDE DEF c
    <2>4. c = w
      BY <2>2, <2>3, SeqEqual
    <2> QED BY <2>4 DEF c
  <1>3. s \o <<Head(w)>> \o Tail(w) = s \o (<<Head(w)>> \o Tail(w))
    BY <1>1, ConcatAssociative
  <1>4. s \o <<>> = s
    BY ConcatEmptySeq
  <1> QED BY <1>2, <1>3, <1>4

\* ... nor when it is stored.
LEMMA ByteStored ==
    ASSUME NEW s \in Seq(Byte), NEW b \in Byte, NEW w \in Seq(Byte)
    PROVE  Append(s, b) \o <<>> \o w = s \o <<b>> \o w
  <1>1. Append(s, b) \in Seq(Byte) /\ Append(s, b) = s \o <<b>>
    BY AppendProperties, AppendIsConcat
  <1>2. Append(s, b) \o <<>> = Append(s, b)
    BY <1>1, ConcatEmptySeq
  <1> QED BY <1>1, <1>2

LEMMA ArrivingEmpty ==
    ASSUME RtuInv, Arriving = <<>>
    PROVE  rx = <<>> /\ dr = NoByte /\ wire = <<>>
  <1> DEFINE held == IF dr = NoByte THEN <<>> ELSE <<dr>>
  <1>1. rx \in Seq(Byte) /\ wire \in Seq(Byte) /\ held \in Seq(Byte)
    BY DEF RtuInv, RtuTypeOK, UartTypeOK
  <1>2. held = <<>> => dr = NoByte
    OBVIOUS
  <1> HIDE DEF held
  <1>3. rx \o held \o wire = <<>>
    BY DEF Arriving, held
  <1>4. rx \o held \in Seq(Byte)
    BY <1>1, ConcatProperties
  <1>5. rx \o held = <<>> /\ wire = <<>>
    BY <1>1, <1>3, <1>4, ConcatEqualIffEmpty
  <1>6. rx = <<>> /\ held = <<>>
    BY <1>1, <1>5, ConcatEqualIffEmpty
  <1> QED BY <1>2, <1>5, <1>6

\* The interrupt moves the byte that is held behind those that are stored.
LEMMA InterruptKeepsArriving ==
    ASSUME RtuInv, USART1_IRQHandler
    PROVE  RxState = "BUSY_RX" /\ Arriving' = Arriving
  <1>1. StoresByte
    BY DEF USART1_IRQHandler, HAL_UART_IRQHandler, IrqPending, StoresByte, RtuInv, UartInv,
           UartTypeOK, NoInterruptStorm, OverrunKeepsByte
  <1>2. rx' = Append(rx, dr) /\ dr' = NoByte /\ wire' = wire
    BY <1>1 DEF USART1_IRQHandler, HAL_UART_IRQHandler, slaveVars
  <1>3. rx \in Seq(Byte) /\ wire \in Seq(Byte) /\ dr \in Byte /\ dr # NoByte
    BY <1>1 DEF RtuInv, RtuTypeOK, UartTypeOK, StoresByte
  <1>4. Arriving' = Append(rx, dr) \o <<>> \o wire /\ Arriving = rx \o <<dr>> \o wire
    BY <1>2, <1>3 DEF Arriving
  <1> QED BY <1>1, <1>3, <1>4, ByteStored DEF StoresByte

\* A byte that arrives in a reception finds the data register free.
LEMMA ByteKeepsArriving ==
    ASSUME RtuInv, ByteArrives, RxState = "BUSY_RX"
    PROVE  wire # <<>> /\ Arriving' = Arriving
  <1>1. wire # <<>> /\ wire' = Tail(wire) /\ wire \in Seq(Byte) /\ rx \in Seq(Byte)
    BY DEF ByteArrives, RtuInv, RtuTypeOK, UartTypeOK
  <1>2. Head(wire) # NoByte
    BY <1>1, HeadTailProperties, UartAssumption
  <1>3. dr = NoByte /\ dr' = Head(wire) /\ rx' = rx
    BY DEF ByteArrives, LineByte, IrqPending, RtuInv, UartInv, NoInterruptStorm
  <1>4. Arriving' = rx \o <<Head(wire)>> \o Tail(wire) /\ Arriving = rx \o <<>> \o wire
    BY <1>1, <1>2, <1>3 DEF Arriving
  <1> QED BY <1>1, <1>4, ByteOffTheLine

\* In a task step the receiver is started, or does not run afterwards, or
\* nothing moves.
LEMMA TaskKeepsOneAnswer ==
    RtuInv /\ NothingLost /\ OneAnswer /\ taskMdbEntry => NothingLost' /\ OneAnswer'
  <1> SUFFICES ASSUME RtuInv, NothingLost, OneAnswer, taskMdbEntry
               PROVE  NothingLost' /\ OneAnswer'
    OBVIOUS
  <1>1. CASE WaitForAnswer \/ GiveUp \/ CountTimeout \/ CodeTimeout \/ WaitForScan \/ StartRequest
    <2>1. UNCHANGED <<uartVars, clean, request, wire>> /\ pc' # "receive"
      BY <1>1 DEF WaitForAnswer, GiveUp, CountTimeout, CodeTimeout, WaitForScan, StartRequest,
                  slaveVars
    <2> QED BY <2>1 DEF NothingLost, OneAnswer, Arriving, uartVars
  <1>2. CASE AbortReceive \/ TransmitTimeout
    <2>1. RxState' = "READY" /\ pc' # "receive"
      BY <1>2 DEF AbortReceive, TransmitTimeout, HAL_UART_AbortReceive_IT,
                  UART_WaitOnFlagTimeout, StopReceiver
    <2> QED BY <2>1 DEF NothingLost, OneAnswer
  <1>3. CASE TransmitOK
    <2>1. RxState' # "BUSY_RX"
      BY <1>3 DEF TransmitOK, uartVars, RtuInv, ReceiverOwned
    <2>2. request' = 1 /\ (clean' => wire' = <<>>)
      BY <1>3 DEF TransmitOK
    <2> QED BY <2>1, <2>2 DEF NothingLost, OneAnswer
  <1>4. CASE StartReceive
    <2>1. pc' = "delay" /\ rx' = <<>> /\ UNCHANGED <<dr, request, wire>>
      BY <1>4 DEF StartReceive, HAL_UART_Receive_IT, slaveVars, RtuInv, ReceiverOwned
    <2>2. clean' => clean /\ dr = NoByte /\ pc = "receive"
      BY <1>4 DEF StartReceive
    <2>3. clean' => Arriving' = wire
      <3>1. wire \in Seq(Byte) /\ <<>> \o wire = wire /\ <<>> \o <<>> = <<>>
        BY ConcatEmptySeq, EmptySeq DEF RtuInv, RtuTypeOK
      <3> QED BY <2>1, <2>2, <3>1 DEF Arriving
    <2> QED BY <2>1, <2>2, <2>3 DEF NothingLost, OneAnswer
  <1> QED BY <1>1, <1>2, <1>3, <1>4 DEF taskMdbEntry

LEMMA SlaveKeepsOneAnswer ==
    RtuInv /\ NothingLost /\ OneAnswer /\ Slave => NothingLost' /\ OneAnswer'
  <1> SUFFICES ASSUME RtuInv, NothingLost, OneAnswer, Slave
               PROVE  NothingLost' /\ OneAnswer'
    OBVIOUS
  <1> DEFINE Answers == Garbled \cup {Frame[v] : v \in Value}
  <1>1. CASE SlaveAnswers \/ SlaveFails
    <2>1. request = 1 /\ request' = 0 /\ wire' \in Answers /\ UNCHANGED <<uartVars, pc, clean>>
      BY <1>1 DEF SlaveAnswers, SlaveFails, taskVars
    <2>2. NothingLost'
      BY <2>1 DEF NothingLost
    <2>3. OneAnswer'
      <3> SUFFICES ASSUME RxState = "BUSY_RX", clean PROVE Arriving' \in Answers
        BY <2>1 DEF OneAnswer, uartVars
      <3>1. rx = <<>> /\ dr = NoByte
        BY <2>1, ArrivingEmpty DEF OneAnswer
      <3>2. wire' \in Seq(Byte)
        BY <2>1, RtuMasterAssumption
      <3>3. Arriving' = wire'
        <4>1. <<>> \o wire' = wire' /\ <<>> \o <<>> = <<>>
          BY <3>2, ConcatEmptySeq, EmptySeq
        <4> QED BY <2>1, <3>1, <4>1 DEF Arriving, uartVars
      <3> QED BY <2>1, <3>3
    <2> QED BY <2>2, <2>3
  <1>2. CASE ByteArrives
    <2>1. UNCHANGED <<RxState, pc, clean, request>>
      BY <1>2 DEF ByteArrives, LineByte, taskVars
    <2>2. dr' # NoByte
      BY <1>2, HeadTailProperties, UartAssumption
      DEF ByteArrives, LineByte, RtuInv, RtuTypeOK
    <2>3. OneAnswer'
      <3> SUFFICES ASSUME RxState = "BUSY_RX", clean PROVE OneAnswer'
        BY <2>1 DEF OneAnswer
      <3>1. wire # <<>> /\ Arriving' = Arriving
        BY <1>2, ByteKeepsArriving
      <3>2. Arriving # <<>>
        BY <3>1, ArrivingEmpty
      <3> QED BY <2>1, <3>1, <3>2 DEF OneAnswer
    <2> QED BY <2>2, <2>3 DEF NothingLost
  <1> QED BY <1>1, <1>2 DEF Slave

LEMMA OneAnswerStep ==
    RtuInv /\ NothingLost /\ OneAnswer /\ [Next]_vars => NothingLost' /\ OneAnswer'
  <1> SUFFICES ASSUME RtuInv, NothingLost, OneAnswer, [Next]_vars
               PROVE  NothingLost' /\ OneAnswer'
    OBVIOUS
  <1>1. CASE USART1_IRQHandler
    <2>1. RxState = "BUSY_RX" /\ Arriving' = Arriving
      BY <1>1, InterruptKeepsArriving
    <2>2. UNCHANGED <<pc, clean, request>> /\ pc # "receive"
      BY <1>1, <2>1 DEF USART1_IRQHandler, taskVars, slaveVars, RtuInv, ReceiverOwned
    <2> QED BY <2>1, <2>2 DEF NothingLost, OneAnswer
  <1>2. CASE UNCHANGED vars
    BY <1>2 DEF vars, uartVars, taskVars, slaveVars, NothingLost, OneAnswer, Arriving
  <1> QED BY <1>1, <1>2, TaskKeepsOneAnswer, SlaveKeepsOneAnswer DEF Next

\* A poll that began with no byte left over, and was not late, gets the bytes
\* of one answer, in order and without a gap, and a fault spoils no poll but
\* its own (freertos.c:383-389, stm32f1xx_hal_uart.c:3563-3606).
THEOREM RtuOneAnswer == Spec => []OneAnswer
  <1>1. Init => NothingLost /\ OneAnswer
    BY DEF Init, UartInit, NothingLost, OneAnswer
  <1> QED BY <1>1, RtuInvariant, OneAnswerStep, PTL DEF Spec

-----------------------------------------------------------------------------
(* Refinement.  A late answer can complete between the moment the task     *)
(* finds the time is up and the moment it stops the receiver; that poll    *)
(* then counts as answered and as lost.  Without late answers it cannot.   *)

InTime ==
    "late" \notin Faults =>
        /\ late = 0
        /\ pc \in {"abort", "count"} => mdb_wait_rx_flag = flagSet /\ Quiet

\* If the flag is already reset while the task gives up, an answer did it.
Overtaken == pc \in {"abort", "count"} => mdb_wait_rx_flag = flagSet \/ mdb_err_code # timeout

PollInv == RtuInv /\ InTime /\ Overtaken

\* When no answer is late, the task gives up only on a silent line, and the
\* line stays silent until the next request.
LEMMA InTimeStep == InTime /\ [Next]_vars => InTime'
  <1> SUFFICES ASSUME InTime, [Next]_vars, "late" \notin Faults PROVE InTime'
    BY DEF InTime
  <1> USE DEF InTime, Quiet, IrqPending
  <1>1. CASE taskMdbEntry
    BY <1>1
    DEF taskMdbEntry, WaitForAnswer, GiveUp, AbortReceive, CountTimeout, CodeTimeout,
        WaitForScan, StartRequest, TransmitOK, TransmitTimeout, StartReceive, Fault,
        HAL_UART_AbortReceive_IT, StopReceiver, uartVars, shared, slaveVars
  <1>2. CASE USART1_IRQHandler
    BY <1>2 DEF USART1_IRQHandler, HAL_UART_IRQHandler, taskVars, slaveVars
  <1>3. CASE Slave
    BY <1>3 DEF Slave, SlaveAnswers, SlaveFails, ByteArrives, taskVars, shared
  <1>4. CASE UNCHANGED vars
    BY <1>4 DEF vars, uartVars, taskVars, shared, slaveVars
  <1> QED BY <1>1, <1>2, <1>3, <1>4 DEF Next

LEMMA OvertakenStep == Overtaken /\ [Next]_vars => Overtaken'
  <1> SUFFICES ASSUME Overtaken, [Next]_vars PROVE Overtaken'
    OBVIOUS
  <1> USE DEF Overtaken
  <1>1. CASE taskMdbEntry
    BY <1>1
    DEF taskMdbEntry, WaitForAnswer, GiveUp, AbortReceive, CountTimeout, CodeTimeout,
        WaitForScan, StartRequest, TransmitOK, TransmitTimeout, StartReceive, shared
  <1>2. CASE USART1_IRQHandler
    BY <1>2 DEF USART1_IRQHandler, HAL_UART_RxCpltCallback, taskVars, shared, noErr,
                crc_no_corret, timeout
  <1>3. CASE Slave
    BY <1>3 DEF Slave, SlaveAnswers, SlaveFails, ByteArrives, taskVars, shared
  <1>4. CASE UNCHANGED vars
    BY <1>4 DEF vars, taskVars, shared
  <1> QED BY <1>1, <1>2, <1>3, <1>4 DEF Next

LEMMA PollInvariant == Spec => []PollInv
  <1>1. Init => InTime /\ Overtaken
    BY DEF Init, InTime, Overtaken
  <1> QED BY <1>1, InTimeStep, OvertakenStep, RtuInvariant, PTL DEF Spec, PollInv

\* Every step of the master is a step of PollCycle, or leaves its variables
\* alone.
LEMMA PollStep ==
    PollInv /\ [Next]_vars => [Cycle!CycleNext]_Cycle!cycleVars
  <1> SUFFICES ASSUME RtuInv, InTime, Overtaken, [Next]_vars
               PROVE  [Cycle!CycleNext]_Cycle!cycleVars
    BY DEF PollInv
  <1> USE DEF Cycle!cycleVars, flagReset, flagSet, noErr, crc_no_corret, timeout
  <1>1. CASE WaitForAnswer \/ GiveUp \/ AbortReceive \/ CodeTimeout \/ WaitForScan
             \/ TransmitOK \/ TransmitTimeout \/ StartReceive
    BY <1>1 DEF WaitForAnswer, GiveUp, AbortReceive, CodeTimeout, WaitForScan, TransmitOK,
                TransmitTimeout, StartReceive, shared
  <1>2. CASE CountTimeout
    <2>1. CASE mdb_wait_rx_flag = flagSet
      <3>1. Cycle!Lost
        BY <1>2, <2>1 DEF CountTimeout, Cycle!Lost
      <3> QED BY <3>1 DEF Cycle!CycleNext
    <2>2. CASE mdb_wait_rx_flag = flagReset
      <3>1. "late" \in Faults /\ mdb_err_code # timeout
        BY <1>2, <2>2 DEF CountTimeout, InTime, Overtaken
      <3>2. Cycle!LostAfterAll
        BY <1>2, <2>2, <3>1 DEF CountTimeout, Cycle!LostAfterAll
      <3> QED BY <3>2 DEF Cycle!CycleNext
    <2> QED BY <2>1, <2>2 DEF RtuInv, RtuTypeOK
  <1>3. CASE StartRequest
    <2>1. Cycle!Ask
      BY <1>3 DEF StartRequest, Cycle!Ask
    <2> QED BY <2>1 DEF Cycle!CycleNext
  <1>4. CASE USART1_IRQHandler
    <2>1. RxState = "BUSY_RX" /\ UNCHANGED taskVars
      BY <1>4 DEF USART1_IRQHandler, HAL_UART_IRQHandler, IrqPending, RtuInv, UartInv,
                  NoInterruptStorm
    <2>2. mdb_wait_rx_flag = flagSet /\ pc # "code" /\ pc' = pc /\ mdb_err_cnt' = mdb_err_cnt
      BY <2>1 DEF RtuInv, ReceiverOwned, taskVars
    <2>3. CASE Completes
      <3>1. HAL_UART_RxCpltCallback(rx')
        BY <1>4, <2>3 DEF USART1_IRQHandler
      <3>2. mdb_reg_buf' \in Value \cup {NoData, Garbage}
        BY <3>1, RegistersType DEF HAL_UART_RxCpltCallback, RtuInv, RtuTypeOK
      <3>3. Cycle!Answered
        BY <2>2, <3>1, <3>2 DEF HAL_UART_RxCpltCallback, Cycle!Answered
      <3> QED BY <3>3 DEF Cycle!CycleNext
    <2>4. CASE ~Completes
      BY <1>4, <2>2, <2>4 DEF USART1_IRQHandler, shared
    <2> QED BY <2>3, <2>4
  <1>5. CASE Slave
    BY <1>5 DEF Slave, SlaveAnswers, SlaveFails, ByteArrives, taskVars, shared
  <1>6. CASE UNCHANGED vars
    BY <1>6 DEF vars, taskVars, shared
  <1> QED BY <1>1, <1>2, <1>3, <1>4, <1>5, <1>6 DEF Next, taskMdbEntry

\* The master implements the abstract specification: each poll is answered or
\* lost, never neither, both only where answers may be late, and only an
\* answer touches the registers (freertos.c:347-445).
THEOREM RtuImplementsPollCycle == Spec => ImplementsPollCycle
  <1>1. Init => Cycle!CycleInit
    BY DEF Init, Cycle!CycleInit, flagReset, noErr
  <1> QED
    BY <1>1, PollInvariant, PollStep, PTL DEF Spec, ImplementsPollCycle, Cycle!CycleSpec
=============================================================================
