-------------------------------- MODULE Uart --------------------------------
(***************************************************************************)
(* Interrupt-driven reception of the STM32F1 HAL (stm32f1xx_hal_uart.c),   *)
(* as the RTU master uses it on huart1: 8 data bits, no parity, no DMA, a  *)
(* fixed number of bytes per transfer.                                     *)
(*                                                                         *)
(* The receive side of the USART keeps ONE byte (dr, with the flag RXNE)   *)
(* and an overrun flag (ore).  The handle keeps the state of the transfer  *)
(* (RxState) and the bytes stored so far (rx: pRxBuffPtr is its length and *)
(* RxXferCount is RxSize - Len(rx) while a transfer runs).                 *)
(*                                                                         *)
(* An interrupt handler runs to completion between two steps of a task     *)
(* (one core), so each HAL call below is one step: the task side of every  *)
(* call changes what the handler tests, RXNEIE, exactly once.  (EIE alone  *)
(* raises no interrupt on this USART without DMA.)                         *)
(***************************************************************************)
EXTENDS Naturals, Sequences

CONSTANTS
    RxSize,  \* bytes of a transfer (MDB_RTU_RX_COUNT_BYTE, 15)
    Byte,    \* what a byte on the line can be
    NoByte   \* the data register holds no unread byte (RXNE = 0)

ASSUME UartAssumption ==
    /\ RxSize \in Nat \ {0}
    /\ NoByte \notin Byte

VARIABLES
    RxState,  \* huart->RxState
    rxneie,   \* CR1.RXNEIE (PEIE and EIE are set and cleared with it)
    rx,       \* bytes stored by the transfer that is running, or by the last
    dr,       \* the unread byte of the data register, or NoByte
    ore       \* SR.ORE: a byte was lost because dr was still unread

uartVars == <<RxState, rxneie, rx, dr, ore>>

UartTypeOK ==
    /\ RxState \in {"READY", "BUSY_RX"}
    /\ rxneie \in {0, 1}
    /\ rx \in Seq(Byte)
    /\ dr \in Byte \cup {NoByte}
    /\ ore \in {0, 1}

UartInit ==
    /\ RxState = "READY"
    /\ rxneie = 0
    /\ rx = <<>>
    /\ dr = NoByte
    /\ ore = 0

-----------------------------------------------------------------------------
(* Calls of the task.                                                      *)

\* HAL_UART_Receive_IT answers HAL_BUSY when a transfer is already running.
HAL_UART_Receive_IT ==
    \/ /\ RxState = "READY"
       /\ RxState' = "BUSY_RX"
       /\ rxneie' = 1
       /\ rx' = <<>>
       /\ UNCHANGED <<dr, ore>>
    \/ /\ RxState = "BUSY_RX"
       /\ UNCHANGED uartVars

\* Fault: the interrupt stays enabled.
StopReceiverLeavesIrq ==
    /\ RxState' = "READY"
    /\ UNCHANGED <<rxneie, rx, dr, ore>>

\* What both an abort and a transmission that times out do to the receiver.
\* Neither reads the data register: dr and ore survive.
StopReceiver ==
    /\ RxState' = "READY"
    /\ rxneie' = 0
    /\ UNCHANGED <<rx, dr, ore>>

HAL_UART_AbortReceive_IT == StopReceiver

UART_WaitOnFlagTimeout == StopReceiver

-----------------------------------------------------------------------------
(* The USART and its interrupt.                                            *)

IrqPending == rxneie = 1 /\ (dr # NoByte \/ ore = 1)

\* A byte is complete on the line.  The handler has always served the byte
\* before it when reception is enabled: a byte takes 87 us at 115200 baud.
LineByte(b) ==
    /\ ~IrqPending
    /\ IF dr = NoByte
       THEN dr' = b /\ UNCHANGED ore
       ELSE ore' = 1 /\ UNCHANGED dr
    /\ UNCHANGED <<RxState, rxneie, rx>>

\* UART_Receive_IT stores the unread byte; it is the last one of the transfer.
StoresByte == RxState = "BUSY_RX" /\ dr # NoByte

\* Fault: RxXferCount is tested before it is decremented.
CompletesLate == StoresByte /\ Len(rx) = RxSize

Completes == StoresByte /\ Len(rx) + 1 = RxSize

\* Fault: reading the data register would not clear ORE.
IRQHandlerKeepsOre ==
    /\ IrqPending
    /\ IF StoresByte
       THEN rx' = Append(rx, dr) /\ dr' = NoByte /\ UNCHANGED ore
       ELSE UNCHANGED <<rx, dr, ore>>
    /\ IF Completes \/ ore = 1
       THEN RxState' = "READY" /\ rxneie' = 0
       ELSE UNCHANGED <<RxState, rxneie>>

\* Reading SR and then DR clears RXNE and ORE together.  An overrun is a
\* blocking error: the transfer ends (UART_EndRxTransfer) after the byte.
HAL_UART_IRQHandler ==
    /\ IrqPending
    /\ IF StoresByte
       THEN rx' = Append(rx, dr) /\ dr' = NoByte /\ ore' = 0
       ELSE UNCHANGED <<rx, dr, ore>>
    /\ IF Completes \/ ore = 1
       THEN RxState' = "READY" /\ rxneie' = 0
       ELSE UNCHANGED <<RxState, rxneie>>

-----------------------------------------------------------------------------
(* The receiver under any caller: calls in any order, bytes at any time.   *)

UartNext ==
    \/ HAL_UART_Receive_IT
    \/ HAL_UART_AbortReceive_IT
    \/ UART_WaitOnFlagTimeout
    \/ HAL_UART_IRQHandler
    \/ \E b \in Byte : LineByte(b)

UartSpec == UartInit /\ [][UartNext]_uartVars

\* The receive interrupt is enabled exactly while a transfer runs, so the
\* handler always finds BUSY_RX and reads the data register.  Otherwise
\* UART_Receive_IT would return HAL_BUSY with RXNE still set and the
\* interrupt would fire again for ever, starving every task.
NoInterruptStorm == rxneie = 1 <=> RxState = "BUSY_RX"

\* pRxBuffPtr never passes the end of the caller's buffer: a transfer that
\* is still running has room for the byte the next interrupt will store.
RoomForNextByte ==
    /\ Len(rx) <= RxSize
    /\ RxState = "BUSY_RX" => Len(rx) < RxSize

\* An overrun always leaves a byte behind: as long as ore is set the data
\* register is unread, so the first interrupt of the next transfer ends it.
OverrunKeepsByte == ore = 1 => dr # NoByte
=============================================================================
