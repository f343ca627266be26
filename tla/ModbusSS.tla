------------------------------ MODULE ModbusSS ------------------------------
(***************************************************************************)
(* The Modbus TCP slave: ModbusSS_ParseRxData takes a request out of the   *)
(* shared buffer, byte by byte, and builds the answer in its place.  The   *)
(* buffer starts with the MBAP header (transaction, protocol, length), the *)
(* unit is at MODBUS_TCP_BUF_OFFSET, and words are big-endian.             *)
(***************************************************************************)
EXTENDS Integers

CONSTANTS
    RegNo,     \* MBP_reg_1, 256
    Quantity,  \* MODBUS_TABLE_HOLDING_QUANT, 7
    BufCnt,    \* MODBUS_SS_BUF_CNT, 260
    Word,      \* values of the registers
    Asked      \* requests: [slave, func, reg, value]

slaveId == 1

Byte   == 0 .. 255
Uint16 == {n \in Nat : n < 65536}

ASSUME ModbusSSAssumption ==
    /\ RegNo \in Nat /\ Quantity \in 1 .. 127  \* the byte count of an answer is a byte
    /\ RegNo + Quantity <= 65536
    /\ BufCnt \in Nat /\ 12 <= BufCnt /\ 9 + 2 * Quantity <= BufCnt
    /\ Word \subseteq Uint16
    /\ Asked \subseteq [slave : Byte, func : Byte, reg : Uint16, value : Uint16]

Reg == RegNo .. RegNo + Quantity - 1

VARIABLES
    buf,          \* modbusBufRxTxTCP
    holding,      \* modbusHoldingBuf, by register number
    txFrameSize,  \* of the socket: what is sent, 65535 for nothing
    asked         \* history: the last request

vars == <<buf, holding, txFrameSize, asked>>

MODBUS_TCP_BUF_OFFSET == 6

MB_ERR_FUNC  == 1
MB_ERR_RANGE == 2

GetByte(b, pos) == b[MODBUS_TCP_BUF_OFFSET + pos]
GetWord(b, pos) == 256 * GetByte(b, pos) + GetByte(b, pos + 1)

\* WRITE_WORD(buf + pos, idx, w): idx counts words.
WriteWord(b, pos, idx, w) ==
    LET at == MODBUS_TCP_BUF_OFFSET + pos + 2 * idx
    IN  [b EXCEPT ![at] = (w \div 256) % 256, ![at + 1] = w % 256]

\* getTable, with the one table there is, for the functions 3 and 6.
InTable(r, q) == RegNo <= r /\ r + q - 1 <= RegNo + Quantity - 1

\* The cast binds before the product, which is then cut to a byte.
ByteCount(q) == (2 * (q % 256)) % 256

\* Fault: the low byte comes first.
WordsLittleEndian(b, r, q, h) ==
    LET at == MODBUS_TCP_BUF_OFFSET + 3
    IN  [p \in DOMAIN b |->
            IF p < at \/ p >= at + 2 * q THEN b[p]
            ELSE IF (p - at) % 2 = 1 THEN h[r + (p - at) \div 2] \div 256
                                     ELSE h[r + (p - at) \div 2] % 256]

\* The loop that writes the q registers from r behind the byte count.
Words(b, r, q, h) ==
    LET at == MODBUS_TCP_BUF_OFFSET + 3
    IN  [p \in DOMAIN b |->
            IF p < at \/ p >= at + 2 * q THEN b[p]
            ELSE IF (p - at) % 2 = 0 THEN h[r + (p - at) \div 2] \div 256
                                     ELSE h[r + (p - at) \div 2] % 256]

\* An answer: the buffer, the registers and the length from the unit on.
Answer(b, h, len) == [buf |-> b, holding |-> h, len |-> len]

\* Fault: the registers are refreshed before the range is checked.
ReadHoldingTooEarly(b, h, fresh) ==
    LET r == GetWord(b, 2)
        q == GetWord(b, 4)
        h2 == [x \in Reg |-> IF r <= x /\ x < r + q THEN fresh[x] ELSE h[x]]
    IN  IF ~InTable(r, q)
        THEN Answer(WriteWord(b, 1, 0, (3 + 128) * 256 + MB_ERR_RANGE), h2, 3)
        ELSE Answer(Words([b EXCEPT ![MODBUS_TCP_BUF_OFFSET + 2] = ByteCount(q)], r, q, h2),
                    h2, 2 * q + 3)

\* Function 3; cbHoldingRequest first refreshes the registers asked for.
ReadHolding(b, h, fresh) ==
    LET r == GetWord(b, 2)
        q == GetWord(b, 4)
        h2 == [x \in Reg |-> IF r <= x /\ x < r + q THEN fresh[x] ELSE h[x]]
    IN  IF ~InTable(r, q)
        THEN Answer(WriteWord(b, 1, 0, (3 + 128) * 256 + MB_ERR_RANGE), h, 3)
        ELSE Answer(Words([b EXCEPT ![MODBUS_TCP_BUF_OFFSET + 2] = ByteCount(q)], r, q, h2),
                    h2, 2 * q + 3)

\* Fault: the request is only echoed.
WriteHoldingEchoes(b, h) ==
    LET r == GetWord(b, 2)
    IN  IF ~InTable(r, 1)
        THEN Answer(WriteWord(b, 0, 1, MB_ERR_RANGE * 256 + 6 + 128), h, 3)
        ELSE Answer(b, h, 6)

\* Function 6; the answer is the request.  The position of the exception code
\* is given in bytes where WRITE_WORD counts words.
WriteHolding(b, h) ==
    LET r == GetWord(b, 2)
    IN  IF ~InTable(r, 1)
        THEN Answer(WriteWord(b, 0, 1, MB_ERR_RANGE * 256 + 6 + 128), h, 3)
        ELSE Answer(b, [h EXCEPT ![r] = GetWord(b, 4)], 6)

OtherFunction(b, h) ==
    Answer(WriteWord(b, 0, 1, MB_ERR_FUNC * 256 + GetByte(b, 1) + 128), h, 3)

Known == 1 .. 6 \cup {15, 16}

\* Fault: the length in the header counts the header.
WithMbapTooLong(a) ==
    Answer(WriteWord(a.buf, 0, -1, a.len + MODBUS_TCP_BUF_OFFSET), a.holding,
           a.len + MODBUS_TCP_BUF_OFFSET)

\* The word in front of the unit is the length.
WithMbap(a) ==
    Answer(WriteWord(a.buf, 0, -1, a.len), a.holding, a.len + MODBUS_TCP_BUF_OFFSET)

\* ModbusSS_ParseRxData, for a slave on TCP.
ParseRxData(b, h, fresh) ==
    LET func == GetByte(b, 1)
        a == IF func = 3 THEN ReadHolding(b, h, fresh)
             ELSE IF func = 6 THEN WriteHolding(b, h)
             ELSE OtherFunction(b, h)
    IN  IF GetByte(b, 0) # slaveId \/ func \notin Known
        THEN Answer(b, h, -1)
        ELSE WithMbap(a)

-----------------------------------------------------------------------------

\* A request of 12 bytes replaces the front of the buffer; what was behind
\* it, and the first four bytes (transaction and protocol), are left as they
\* are: nothing here looks at them.
Received(b, req) ==
    LET hi(w) == w \div 256
        lo(w) == w % 256
    IN  [b EXCEPT ![4] = 0, ![5] = 6, ![6] = req.slave, ![7] = req.func,
                  ![8] = hi(req.reg), ![9] = lo(req.reg),
                  ![10] = hi(req.value), ![11] = lo(req.value)]

Init ==
    /\ buf = [p \in 0 .. BufCnt - 1 |-> 0]
    /\ holding = [r \in Reg |-> 0]
    /\ txFrameSize = 0
    /\ asked = [slave |-> 0, func |-> 0, reg |-> 0, value |-> 0]

\* cbckModbusTcpServer: the length becomes a uint16_t.
cbckModbusTcpServer(req, fresh) ==
    LET a == ParseRxData(Received(buf, req), holding, fresh)
    IN  /\ buf' = a.buf
        /\ holding' = a.holding
        /\ txFrameSize' = (a.len + 65536) % 65536
        /\ asked' = req

Next == \E req \in Asked, fresh \in [Reg -> Word] : cbckModbusTcpServer(req, fresh)

Spec == Init /\ [][Next]_vars

-----------------------------------------------------------------------------
(* Properties.  They are stated as the Modbus protocol has them, for the   *)
(* last request and the frame that answers it.                             *)

ModbusTypeOK ==
    /\ buf \in [0 .. BufCnt - 1 -> Byte]
    /\ holding \in [Reg -> Uint16]
    /\ txFrameSize \in Uint16
    /\ asked \in [slave : Byte, func : Byte, reg : Uint16, value : Uint16]

\* The registers from n on exist.
Exist(n, count) == count > 0 /\ \A i \in 0 .. count - 1 : n + i \in Reg

\* The length in the MBAP header, from the unit on.
MbapLength == 256 * buf[4] + buf[5]

\* A read of registers that exist is answered with their values.
ReadAnswered ==
    asked.slave = slaveId /\ asked.func = 3 /\ Exist(asked.reg, asked.value) =>
        /\ txFrameSize = 9 + 2 * asked.value
        /\ MbapLength = 3 + 2 * asked.value
        /\ buf[6] = slaveId /\ buf[7] = 3 /\ buf[8] = 2 * asked.value
        /\ \A i \in 0 .. asked.value - 1 :
               256 * buf[9 + 2 * i] + buf[10 + 2 * i] = holding[asked.reg + i]

\* A write of a register that exists is done and echoed.
WriteAnswered ==
    asked.slave = slaveId /\ asked.func = 6 /\ Exist(asked.reg, 1) =>
        /\ holding[asked.reg] = asked.value
        /\ txFrameSize = 12 /\ MbapLength = 6
        /\ Received(buf, asked) = buf

\* Any other request leaves the registers alone.
OthersHarmless ==
    [][holding' # holding =>
           /\ asked'.slave = slaveId
           /\ \/ asked'.func = 3 /\ Exist(asked'.reg, asked'.value)
              \/ asked'.func = 6 /\ Exist(asked'.reg, 1)]_vars

\* A request is not answered, or the answer is in the buffer and the length
\* in its header is its own.
FrameFits ==
    txFrameSize \in {0, 65535} \/ (txFrameSize <= BufCnt /\ txFrameSize = MbapLength + 6)

\* MB_POS_FUNC is 1: the function of an exception is the second byte from the
\* unit on, and has its highest bit set.
ExceptionFlagged ==
    asked.slave = slaveId /\ asked.func \in Known /\ txFrameSize = 9 /\ asked.value > 0 =>
        buf[MODBUS_TCP_BUF_OFFSET + 1] = asked.func + 128
=============================================================================
