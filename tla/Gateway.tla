------------------------------- MODULE Gateway -------------------------------
(***************************************************************************)
(* The registers between the two tasks.  The UART interrupt and taskMdb    *)
(* write mdb_reg_buf, mdb_err_cnt and mdb_err_code; taskNet reads them for *)
(* a request, one register after the other and without a lock, and can be  *)
(* preempted between any two (equal priorities, time slicing).             *)
(*                                                                         *)
(* The interrupt is one step.  A frame that is copied is the number of     *)
(* copies there have been, which orders the contents of mdb_reg_buf.       *)
(* GatewaySystem puts the RTU master (RtuMaster) in the place of the       *)
(* writers here.                                                           *)
(***************************************************************************)
EXTENDS Naturals

CONSTANTS
    NReg,         \* MDB_RTU_TX_REG_QANT, 5
    Queries,      \* what a client may read: first register and number
    ClientWords,  \* what a client may write into the table
    MaxFrames,    \* bound on the copies
    MaxErr        \* bound on mdb_err_cnt, which is not followed past its wrap

VARIABLES
    mdb_reg_buf,       \* the frame it was copied from
    mdb_err_cnt,
    mdb_err_code,
    mdb_wait_rx_flag,
    mdbPc,             \* taskMdb: in its loop, giving up, before mdb_err_code
    modbusHoldingBuf,  \* the table
    netPc,             \* taskNet: between requests, or in modbusHoldingReq
    r,                 \* its loop variable
    reg, quantity,     \* the registers asked for
    reply,             \* history: the words of the last answer to a read
    seen               \* history: what the registers asked for have been since then

rtuVars == <<mdb_reg_buf, mdb_err_cnt, mdb_err_code, mdb_wait_rx_flag, mdbPc>>
netVars == <<modbusHoldingBuf, netPc, r, reg, quantity, reply>>
vars    == <<rtuVars, netVars, seen>>

noErr         == 0
timeout       == 11
crc_no_corret == 3

Reg     == 1 .. NReg + 2
CntReg  == NReg + 1  \* MBP_reg_6
CodeReg == NReg + 2  \* MBP_reg_7

\* What the constants are; GatewaySystem assumes it.
GatewayAssumption ==
    /\ NReg \in Nat \ {0}
    /\ Queries \subseteq Reg \X (0 .. NReg + 2)
    /\ ClientWords \subseteq Nat
    /\ MaxFrames \in Nat
    /\ MaxErr \in Nat

AskedFor == reg .. reg + quantity - 1

\* What register x has now.
Source(x) ==
    IF x = CntReg THEN mdb_err_cnt ELSE IF x = CodeReg THEN mdb_err_code ELSE mdb_reg_buf

RtuInit ==
    /\ mdb_reg_buf = 0 /\ mdb_err_cnt = 0 /\ mdb_err_code = noErr
    /\ mdb_wait_rx_flag = 0 /\ mdbPc = "loop"

NetInit ==
    /\ modbusHoldingBuf = [x \in Reg |-> 0]
    /\ netPc = "idle" /\ r = 1 /\ reg = 1 /\ quantity = 0
    /\ reply = [x \in {} |-> 0]
    /\ seen = [x \in {} |-> {}]

Init == RtuInit /\ NetInit

-----------------------------------------------------------------------------
(* The writers.                                                            *)

\* History: a register that is written during a request has had both values.
Observe == seen' = [x \in DOMAIN seen |-> seen[x] \cup {Source(x)'}]

StartRequest ==
    /\ mdbPc = "loop" /\ mdb_wait_rx_flag = 0
    /\ mdb_wait_rx_flag' = 1
    /\ UNCHANGED <<mdb_reg_buf, mdb_err_cnt, mdb_err_code, mdbPc, netVars, seen>>

\* A frame is copied if the one before it was good.
HAL_UART_RxCpltCallback(mdb_err) ==
    /\ mdb_wait_rx_flag = 1
    /\ IF mdb_err_code = noErr
       THEN mdb_reg_buf < MaxFrames /\ mdb_reg_buf' = mdb_reg_buf + 1
       ELSE UNCHANGED mdb_reg_buf
    /\ mdb_wait_rx_flag' = 0
    /\ mdb_err_code' = mdb_err
    /\ UNCHANGED <<mdb_err_cnt, mdbPc, netVars>>
    /\ Observe

GiveUp ==
    /\ mdbPc = "loop" /\ mdb_wait_rx_flag = 1
    /\ mdbPc' = "giveup"
    /\ UNCHANGED <<mdb_reg_buf, mdb_err_cnt, mdb_err_code, mdb_wait_rx_flag, netVars, seen>>

\* A late answer may have come since, and the flag be reset already.
CountTimeout ==
    /\ mdbPc = "giveup"
    /\ mdb_err_cnt < MaxErr
    /\ mdb_wait_rx_flag' = 0
    /\ mdb_err_cnt' = mdb_err_cnt + 1
    /\ mdbPc' = "code"
    /\ UNCHANGED <<mdb_reg_buf, mdb_err_code, netVars>>
    /\ Observe

CodeTimeout ==
    /\ mdbPc = "code"
    /\ mdb_err_code' = timeout
    /\ mdbPc' = "loop"
    /\ UNCHANGED <<mdb_reg_buf, mdb_err_cnt, mdb_wait_rx_flag, netVars>>
    /\ Observe

-----------------------------------------------------------------------------
(* The reader.                                                             *)

\* A read of registers that getTable has found; it may be of none.
Request(n, q) ==
    /\ netPc = "idle"
    /\ n + q <= NReg + 3
    /\ reg' = n /\ quantity' = q
    /\ r' = n
    /\ netPc' = "refresh"
    /\ seen' = [x \in AskedFor' |-> {Source(x)}]
    /\ UNCHANGED <<rtuVars, modbusHoldingBuf, reply>>

\* Fault: the loop starts behind the first register.
RefreshSkipsFirst ==
    /\ netPc = "refresh" /\ r < reg + quantity
    /\ modbusHoldingBuf' = IF r = reg THEN modbusHoldingBuf
                           ELSE [modbusHoldingBuf EXCEPT ![r] = Source(r)]
    /\ r' = r + 1
    /\ UNCHANGED <<rtuVars, netPc, reg, quantity, reply, seen>>

\* Fault: the loop runs downwards.
RefreshDownwards ==
    /\ netPc = "refresh" /\ r < reg + quantity
    /\ LET x == 2 * reg + quantity - 1 - r
       IN  modbusHoldingBuf' = [modbusHoldingBuf EXCEPT ![x] = Source(x)]
    /\ r' = r + 1
    /\ UNCHANGED <<rtuVars, netPc, reg, quantity, reply, seen>>

\* One round of modbusHoldingReq.
Refresh ==
    /\ netPc = "refresh" /\ r < reg + quantity
    /\ modbusHoldingBuf' = [modbusHoldingBuf EXCEPT ![r] = Source(r)]
    /\ r' = r + 1
    /\ UNCHANGED <<rtuVars, netPc, reg, quantity, reply, seen>>

\* The answer is made from the table, which only taskNet uses.
Reply ==
    /\ netPc = "refresh" /\ r = reg + quantity
    /\ reply' = [x \in AskedFor |-> modbusHoldingBuf[x]]
    /\ netPc' = "idle"
    /\ seen' = [x \in {} |-> {}]
    /\ UNCHANGED <<rtuVars, modbusHoldingBuf, r, reg, quantity>>

\* Function 6 writes the table, and nothing else (cbHoldingUpdate is NULL).
WriteHolding(x, w) ==
    /\ netPc = "idle"
    /\ modbusHoldingBuf' = [modbusHoldingBuf EXCEPT ![x] = w]
    /\ UNCHANGED <<rtuVars, netPc, r, reg, quantity, reply, seen>>

Rtu ==
    \/ StartRequest \/ GiveUp \/ CountTimeout \/ CodeTimeout
    \/ \E mdb_err \in {noErr, crc_no_corret} : HAL_UART_RxCpltCallback(mdb_err)

Net ==
    \/ \E query \in Queries : Request(query[1], query[2])
    \/ Refresh \/ Reply
    \/ \E x \in Reg, w \in ClientWords : WriteHolding(x, w)

Next == Rtu \/ Net

Spec == Init /\ [][Next]_vars

-----------------------------------------------------------------------------
(* Properties.                                                             *)

RegistersTypeOK ==
    /\ mdb_reg_buf \in Nat /\ mdb_err_cnt \in Nat
    /\ mdb_err_code \in {noErr, timeout, crc_no_corret}
    /\ mdb_wait_rx_flag \in {0, 1} /\ mdbPc \in {"loop", "giveup", "code"}

LoopTypeOK ==
    /\ netPc \in {"idle", "refresh"}
    /\ reg \in Reg /\ quantity \in 0 .. NReg + 2 /\ reg + quantity <= NReg + 3
    /\ r \in reg .. reg + quantity

TableTypeOK ==
    /\ modbusHoldingBuf \in [Reg -> Nat]
    /\ DOMAIN reply \subseteq Reg
    /\ reply \in [DOMAIN reply -> Nat]
    /\ DOMAIN seen = IF netPc = "refresh" THEN AskedFor ELSE {}

GatewayTypeOK == RegistersTypeOK /\ LoopTypeOK /\ TableTypeOK

\* Every word of an answer was in its register at some time between request
\* and answer.  In particular what a client has written is not answered.
ReplyIsRegular ==
    [][netPc = "refresh" /\ netPc' = "idle" =>
           \A x \in DOMAIN reply' : reply'[x] \in seen[x]]_vars

\* An answer may be torn between frames, but only in one way: a register with
\* a higher number is never from an older frame.
TornForward ==
    \A x, y \in DOMAIN reply : x < y /\ y <= NReg => reply[x] <= reply[y]

\* What a later answer says of a register or of the errors is not older.
NeverBackwards ==
    [][\A x \in DOMAIN reply \cap DOMAIN reply' :
           x # CodeReg => reply[x] <= reply'[x]]_vars
=============================================================================
