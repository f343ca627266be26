---------------------------- MODULE GatewaySystem ----------------------------
(***************************************************************************)
(* The two tasks together: taskMdb with its interrupt, its slave and its   *)
(* line (RtuMaster), and the loop with which taskNet reads the registers   *)
(* (the reader of Gateway).  Any step of one may fall between any two of   *)
(* the other.                                                              *)
(*                                                                         *)
(* Gateway numbers the contents of mdb_reg_buf.  Here they are values, and *)
(* a history of the copies says which value has which number.              *)
(***************************************************************************)
EXTENDS RtuMaster

CONSTANTS
    NReg,         \* MDB_RTU_TX_REG_QANT, 5
    Queries,      \* what a client may read: first register and number
    ClientWords,  \* what a client may write into the table
    MaxFrames,    \* bound on the copies
    MaxErr        \* bound on mdb_err_cnt, which does not wrap before it

VARIABLES
    copied,                                                \* history: the copies
    modbusHoldingBuf, netPc, r, reg, quantity, reply, seen  \* as in Gateway

Reader == INSTANCE Gateway WITH
    mdb_reg_buf <- Len(copied),
    mdbPc <- IF pc \in {"abort", "count"} THEN "giveup"
             ELSE IF pc = "code" THEN "code" ELSE "loop"

ASSUME GatewaySystemAssumption == Reader!GatewayAssumption /\ MaxErr < CntMod

readerVars == <<modbusHoldingBuf, netPc, r, reg, quantity, reply>>
systemVars == <<vars, copied, readerVars, seen>>

SystemInit == Init /\ copied = <<>> /\ Reader!NetInit

\* The interrupt, which copies a frame when it is the last byte and the frame
\* before was good.
Interrupt ==
    /\ USART1_IRQHandler
    /\ IF Completes /\ mdb_err_code = noErr
       THEN Len(copied) < MaxFrames /\ copied' = Append(copied, mdb_reg_buf')
       ELSE UNCHANGED copied

Poll ==
    /\ taskMdbEntry
    /\ pc = "count" => mdb_err_cnt < MaxErr
    /\ UNCHANGED copied

Line == Slave /\ UNCHANGED copied

\* Every register may have got a new word, which is seen if it is asked for.
Write == (Interrupt \/ Poll \/ Line) /\ UNCHANGED readerVars /\ Reader!Observe

Read == UNCHANGED <<vars, copied>> /\ Reader!Net

SystemNext == Write \/ Read

SystemSpec == SystemInit /\ [][SystemNext]_systemVars

-----------------------------------------------------------------------------
(* Properties.                                                             *)

\* The registers hold the copy that was made last.
BufferIsLastCopy ==
    mdb_reg_buf = IF copied = <<>> THEN NoData ELSE copied[Len(copied)]

\* What Gateway says of the writers is true of the RTU master, whatever the
\* slave and the line do: only an interrupt in a poll that is not counted yet
\* replaces the registers, all of them, and errors are counted one by one.
ImplementsGateway == Reader!Spec /\ []BufferIsLastCopy

\* So a client gets from the whole system what it gets there: registers torn
\* only towards newer frames, words that were there, none older than before.
TornForward    == Reader!TornForward
ReplyIsRegular == Reader!ReplyIsRegular
NeverBackwards == Reader!NeverBackwards
=============================================================================
