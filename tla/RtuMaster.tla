------------------------------ MODULE RtuMaster ------------------------------
(***************************************************************************)
(* The Modbus RTU master (taskMdb of freertos.c): every SCAN_RATE ticks it *)
(* sends one fixed request on huart1 and waits for an answer of RxSize     *)
(* bytes, which the receive interrupt collects (module Uart) and hands to  *)
(* HAL_UART_RxCpltCallback.  After RESPONS_TIMEOUT ticks it gives up.      *)
(*                                                                         *)
(* The task and the interrupt share mdb_wait_rx_flag and mdb_err_code      *)
(* without any lock.  A task step ends where the next access to what they  *)
(* share begins, so the interrupt may fall between any two of them.        *)
(*                                                                         *)
(* The slave and the line are the environment.  A byte takes 87 us and the *)
(* task counts hundreds of milliseconds, so an exchange is over before the *)
(* task gives up or asks again; "late" lifts that for one exchange.        *)
(***************************************************************************)
EXTENDS Uart

CONSTANTS
    Value,            \* what the registers of the slave can be
    Frame,            \* the answer that carries a value: address to CRC
    NoData, Garbage,  \* registers before the first answer; of no valid frame
    Garbled,          \* what a fault can put on the line instead of a frame
    SCAN_RATE,        \* MDB_RTU_TX_SCAN_RATE, 250
    RESPONS_TIMEOUT,  \* MDB_RTU_RX_RESPONS_TIMEOUT, 2000
    CntMod,           \* 2^16: mdb_err_cnt is a uint16_t
    Faults,           \* the kinds of fault that can happen
    MaxFaults         \* bound on their number

ASSUME RtuMasterAssumption ==
    /\ Frame \in [Value -> {f \in Seq(Byte) : Len(f) = RxSize}]
    /\ \A v, w \in Value : Frame[v] = Frame[w] => v = w
    /\ {NoData, Garbage} \cap Value = {}
    /\ Garbled \subseteq Seq(Byte)
    /\ SCAN_RATE \in Nat
    /\ RESPONS_TIMEOUT \in Nat
    /\ CntMod \in Nat \ {0}
    /\ Faults \subseteq {"garbled", "late", "txtimeout"}
    /\ MaxFaults \in Nat

VARIABLES
    pc,                   \* what taskMdb does next
    mdb_wait_rx_flag,
    mdb_respons_timeout,
    mdb_req_time,
    mdb_err_cnt,
    mdb_err_code,
    mdb_reg_buf,          \* the registers the TCP side serves
    request,              \* the slave has a request to answer
    wire,                 \* the bytes of its answer that are still to come
    late,                 \* this exchange is not over in time
    faults,               \* faults so far
    clean,                \* history: the poll found no byte left over, and was not late
    goods,                \* history: valid answers in a row, up to 2
    latest                \* history: the value of the last valid answer

taskVars  == <<pc, mdb_respons_timeout, mdb_req_time, mdb_err_cnt, clean>>
shared    == <<mdb_wait_rx_flag, mdb_err_code, mdb_reg_buf, goods, latest>>
slaveVars == <<request, wire, late, faults>>
vars      == <<uartVars, taskVars, shared, slaveVars>>

\* enum userFlag
flagReset == 0
flagSet   == 1

\* enum Mdb_RTU_err_name
noErr         == 0
crc_no_corret == 3
timeout       == 11

RtuTypeOK ==
    /\ UartTypeOK
    /\ pc \in {"delay", "abort", "count", "code", "transmit", "receive"}
    /\ mdb_wait_rx_flag \in {flagReset, flagSet}
    /\ mdb_respons_timeout \in 0 .. RESPONS_TIMEOUT + 2
    /\ mdb_req_time \in 0 .. SCAN_RATE + 2
    /\ mdb_err_cnt \in 0 .. CntMod - 1
    /\ mdb_err_code \in {noErr, crc_no_corret, timeout}
    /\ mdb_reg_buf \in Value \cup {NoData, Garbage}
    /\ request \in {0, 1}
    /\ wire \in Seq(Byte)
    /\ late \in {0, 1}
    /\ faults \in 0 .. MaxFaults
    /\ clean \in BOOLEAN
    /\ goods \in 0 .. 2
    /\ latest \in Value \cup {NoData}

Init ==
    /\ UartInit
    /\ pc = "delay"
    /\ mdb_wait_rx_flag = flagReset
    /\ mdb_respons_timeout = 0
    /\ mdb_req_time = 0
    /\ mdb_err_cnt = 0
    /\ mdb_err_code = noErr
    /\ mdb_reg_buf = NoData
    /\ request = 0
    /\ wire = <<>>
    /\ late = 0
    /\ faults = 0
    /\ clean = FALSE
    /\ goods = 0
    /\ latest = NoData

Fault(kind) ==
    /\ kind \in Faults
    /\ faults < MaxFaults
    /\ faults' = faults + 1

\* Nothing is on its way to the master.
Quiet == request = 0 /\ wire = <<>> /\ ~IrqPending

-----------------------------------------------------------------------------
(* taskMdb.  The counters are compared before they are incremented.        *)

WaitForAnswer ==
    /\ pc = "delay" /\ mdb_wait_rx_flag = flagSet
    /\ mdb_respons_timeout <= RESPONS_TIMEOUT
    /\ mdb_respons_timeout' = mdb_respons_timeout + 1
    /\ UNCHANGED <<uartVars, pc, mdb_req_time, mdb_err_cnt, clean, shared, slaveVars>>

GiveUp ==
    /\ pc = "delay" /\ mdb_wait_rx_flag = flagSet
    /\ mdb_respons_timeout > RESPONS_TIMEOUT
    /\ Quiet \/ late = 1
    /\ mdb_respons_timeout' = mdb_respons_timeout + 1
    /\ pc' = "abort"
    /\ UNCHANGED <<uartVars, mdb_req_time, mdb_err_cnt, clean, shared, slaveVars>>

\* Fault: the reception is not stopped.
AbortReceiveForgotten ==
    /\ pc = "abort"
    /\ pc' = "count"
    /\ UNCHANGED <<uartVars, mdb_respons_timeout, mdb_req_time, mdb_err_cnt, clean, shared, slaveVars>>

AbortReceive ==
    /\ pc = "abort"
    /\ HAL_UART_AbortReceive_IT
    /\ pc' = "count"
    /\ UNCHANGED <<mdb_respons_timeout, mdb_req_time, mdb_err_cnt, clean, shared, slaveVars>>

\* Fault: the task keeps waiting for the poll it gave up.
CountTimeoutKeepsFlag ==
    /\ pc = "count"
    /\ mdb_respons_timeout' = 0
    /\ mdb_err_cnt' = (mdb_err_cnt + 1) % CntMod
    /\ pc' = "code"
    /\ UNCHANGED <<uartVars, mdb_req_time, clean, shared, slaveVars>>

CountTimeout ==
    /\ pc = "count"
    /\ mdb_wait_rx_flag' = flagReset
    /\ mdb_respons_timeout' = 0
    /\ mdb_err_cnt' = (mdb_err_cnt + 1) % CntMod
    /\ pc' = "code"
    /\ UNCHANGED <<uartVars, mdb_req_time, clean, mdb_err_code, mdb_reg_buf, goods, latest, slaveVars>>

CodeTimeout ==
    /\ pc = "code"
    /\ mdb_err_code' = timeout
    /\ goods' = 0
    /\ pc' = "delay"
    /\ UNCHANGED <<uartVars, mdb_respons_timeout, mdb_req_time, clean, mdb_err_cnt,
                   mdb_wait_rx_flag, mdb_reg_buf, latest, slaveVars>>

WaitForScan ==
    /\ pc = "delay" /\ mdb_wait_rx_flag = flagReset
    /\ mdb_req_time <= SCAN_RATE
    /\ mdb_req_time' = mdb_req_time + 1
    /\ UNCHANGED <<uartVars, pc, mdb_respons_timeout, mdb_err_cnt, clean, shared, slaveVars>>

StartRequest ==
    /\ pc = "delay" /\ mdb_wait_rx_flag = flagReset
    /\ mdb_req_time > SCAN_RATE
    /\ Quiet \/ late = 1
    /\ mdb_req_time' = mdb_req_time + 1
    /\ mdb_wait_rx_flag' = flagSet
    /\ mdb_respons_timeout' = 0
    /\ pc' = "transmit"
    /\ UNCHANGED <<uartVars, mdb_err_cnt, clean, mdb_err_code, mdb_reg_buf, goods, latest, slaveVars>>

\* HAL_UART_Transmit polls the transmitter and leaves the receiver alone.
\* When the task is held up afterwards, or the slave is slow, it is "late".
TransmitOK ==
    /\ pc = "transmit"
    /\ request' = 1
    /\ \/ UNCHANGED <<late, faults>>
       \/ late' = 1 /\ Fault("late")
    /\ clean' = (wire = <<>> /\ dr = NoByte)
    /\ pc' = "receive"
    /\ UNCHANGED <<uartVars, mdb_respons_timeout, mdb_req_time, mdb_err_cnt, shared, wire>>

\* The slave may have got the request even so.  No reception is started.
TransmitTimeout ==
    /\ pc = "transmit"
    /\ Fault("txtimeout")
    /\ UART_WaitOnFlagTimeout
    /\ request' \in {request, 1}
    /\ mdb_req_time' = 0
    /\ pc' = "delay"
    /\ UNCHANGED <<mdb_respons_timeout, mdb_err_cnt, clean, shared, wire, late>>

\* Fault: the scan counter is not restarted.
StartReceiveKeepsTime ==
    /\ pc = "receive"
    /\ HAL_UART_Receive_IT
    /\ clean' = (clean /\ dr = NoByte)
    /\ pc' = "delay"
    /\ UNCHANGED <<mdb_respons_timeout, mdb_req_time, mdb_err_cnt, shared, slaveVars>>

StartReceive ==
    /\ pc = "receive"
    /\ HAL_UART_Receive_IT
    /\ mdb_req_time' = 0
    /\ clean' = (clean /\ dr = NoByte)
    /\ pc' = "delay"
    /\ UNCHANGED <<mdb_respons_timeout, mdb_err_cnt, shared, slaveVars>>

taskMdbEntry ==
    \/ WaitForAnswer \/ GiveUp \/ AbortReceive \/ CountTimeout \/ CodeTimeout
    \/ WaitForScan \/ StartRequest \/ TransmitOK \/ TransmitTimeout \/ StartReceive

-----------------------------------------------------------------------------
(* The interrupt.                                                          *)

\* The frame in modbusBufRxRtu485 carries v with the right CRC.
Carries(buf, v) == v \in Value /\ buf = Frame[v]
CrcOk(buf)      == \E v \in Value : Carries(buf, v)
Registers(buf)  == IF CrcOk(buf) THEN CHOOSE v \in Value : Carries(buf, v)
                                 ELSE Garbage

\* Faults: an error code that is set and never cleared; a wait that the
\* answer does not end.
RxCpltKeepsError(buf) ==
    /\ mdb_reg_buf' = IF mdb_err_code = noErr THEN Registers(buf) ELSE mdb_reg_buf
    /\ mdb_wait_rx_flag' = flagReset
    /\ mdb_err_code' = IF CrcOk(buf) THEN mdb_err_code ELSE crc_no_corret
    /\ IF CrcOk(buf)
       THEN goods' = (IF goods = 2 THEN 2 ELSE goods + 1) /\ latest' = Registers(buf)
       ELSE goods' = 0 /\ UNCHANGED latest

RxCpltKeepsFlag(buf) ==
    /\ mdb_reg_buf' = IF mdb_err_code = noErr THEN Registers(buf) ELSE mdb_reg_buf
    /\ mdb_err_code' = IF CrcOk(buf) THEN noErr ELSE crc_no_corret
    /\ UNCHANGED <<mdb_wait_rx_flag, goods, latest>>

\* The registers are copied when the PREVIOUS poll left no error, whatever
\* the CRC of this frame; then this frame's verdict becomes mdb_err_code.
HAL_UART_RxCpltCallback(buf) ==
    /\ mdb_reg_buf' = IF mdb_err_code = noErr THEN Registers(buf) ELSE mdb_reg_buf
    /\ mdb_wait_rx_flag' = flagReset
    /\ mdb_err_code' = IF CrcOk(buf) THEN noErr ELSE crc_no_corret
    /\ IF CrcOk(buf)
       THEN goods' = (IF goods = 2 THEN 2 ELSE goods + 1) /\ latest' = Registers(buf)
       ELSE goods' = 0 /\ UNCHANGED latest

USART1_IRQHandler ==
    /\ HAL_UART_IRQHandler
    /\ IF Completes THEN HAL_UART_RxCpltCallback(rx') ELSE UNCHANGED shared
    /\ UNCHANGED <<taskVars, slaveVars>>

-----------------------------------------------------------------------------
(* The slave and the line.                                                 *)

SlaveAnswers ==
    /\ request = 1 /\ wire = <<>>
    /\ request' = 0
    /\ wire' \in {Frame[v] : v \in Value}
    /\ UNCHANGED <<uartVars, taskVars, shared, late, faults>>

SlaveFails ==
    /\ request = 1 /\ wire = <<>>
    /\ Fault("garbled")
    /\ request' = 0
    /\ wire' \in Garbled
    /\ late' = IF wire' = <<>> THEN 0 ELSE late
    /\ UNCHANGED <<uartVars, taskVars, shared>>

\* In time, the task is through HAL_UART_Receive_IT before the first byte.
ByteArrives ==
    /\ wire # <<>>
    /\ pc = "receive" => late = 1
    /\ LineByte(Head(wire))
    /\ wire' = Tail(wire)
    /\ late' = IF Len(wire) = 1 /\ request = 0 THEN 0 ELSE late
    /\ UNCHANGED <<taskVars, shared, request, faults>>

Slave == SlaveAnswers \/ SlaveFails \/ ByteArrives

-----------------------------------------------------------------------------
Next == taskMdbEntry \/ USART1_IRQHandler \/ Slave

\* The scheduler runs every ready task, an enabled interrupt that is pending
\* is taken, a slave answers what it received, and a byte that is sent
\* arrives.  Faults are never obliged to happen.
Fairness ==
    /\ WF_vars(taskMdbEntry)
    /\ WF_vars(USART1_IRQHandler)
    /\ WF_vars(Slave)

Spec     == Init /\ [][Next]_vars
FairSpec == Spec /\ Fairness

-----------------------------------------------------------------------------
(* Properties.                                                             *)

\* A reception runs only while the task waits for an answer, and the task
\* records a timeout or sends a request only with the receiver stopped.  So
\* HAL_UART_Receive_IT is never refused with HAL_BUSY (its result is not
\* looked at) and the callback never writes mdb_err_code or the flag in the
\* middle of the task's own update of them.
ReceiverOwned ==
    /\ RxState = "BUSY_RX" => mdb_wait_rx_flag = flagSet /\ pc \in {"delay", "abort"}
    /\ pc \in {"transmit", "receive"} => mdb_wait_rx_flag = flagSet
    /\ pc = "code" => mdb_wait_rx_flag = flagReset

\* Garbage behind a clean error code is served for one poll at most: after
\* two valid answers in a row the registers are those of the last of them.
FreshAfterTwoGood == goods = 2 => mdb_reg_buf = latest

\* What the enum says of the code in register 7: with noErr there is no
\* error in the registers beside it.
NoErrMeansNoError == mdb_err_code = noErr => mdb_reg_buf # Garbage

\* The master polls for ever, whatever faults the line and the slave have.
PollsForever == []<>(pc = "transmit")

\* The bytes that were stored, the one in the data register and those on the
\* line are, in this order, one answer of the slave, or it has not answered
\* yet.  So a fault spoils the poll it falls into, and no poll but one that
\* began with a byte left over gets bytes of another (freertos.c:383-389).
Arriving  == rx \o (IF dr = NoByte THEN <<>> ELSE <<dr>>) \o wire

OneAnswer ==
    RxState = "BUSY_RX" /\ clean =>
        \/ request = 1 /\ Arriving = <<>>
        \/ request = 0 /\ Arriving \in Garbled \cup {Frame[v] : v \in Value}

\* Whatever went wrong, the registers are again and again those of the last
\* valid answer and the error code is clear (faults are bounded), unless a
\* reception was once started with a byte left over.
StartsClean == [](RxState = "BUSY_RX" => clean)

RecoversUnlessStale ==
    StartsClean => []<>(mdb_err_code = noErr /\ mdb_reg_buf = latest /\ latest # NoData)

-----------------------------------------------------------------------------
(* What the master promises: every poll has exactly one outcome.           *)

Cycle == INSTANCE PollCycle WITH
    waiting <- mdb_wait_rx_flag,
    cnt     <- mdb_err_cnt,
    code    <- IF pc = "code" THEN timeout ELSE mdb_err_code,
    regs    <- mdb_reg_buf,
    Data    <- Value \cup {NoData, Garbage},
    Late    <- "late" \in Faults

ImplementsPollCycle == Cycle!CycleSpec
=============================================================================
