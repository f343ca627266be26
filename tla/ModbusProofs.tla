----------------------------- MODULE ModbusProofs -----------------------------
(* The slave, for every table, every buffer that holds its answers and every *)
(* request of 12 bytes.                                                      *)
EXTENDS ModbusSS, TLAPS

Pos     == 0 .. BufCnt - 1
Buffer  == [Pos -> Byte]
Table   == [Reg -> Uint16]
Request == [slave : Byte, func : Byte, reg : Uint16, value : Uint16]

\* The sizes of the table and of the buffer.
LEMMA Sizes ==
    /\ RegNo \in Nat /\ Quantity \in 1 .. 127 /\ RegNo + Quantity <= 65536
    /\ BufCnt \in Nat /\ 12 <= BufCnt /\ 9 + 2 * Quantity <= BufCnt
  BY ModbusSSAssumption

-----------------------------------------------------------------------------
(* Words and bytes.                                                         *)

\* A word is a number of 16 bits.
LEMMA WordIn == ASSUME NEW w \in Uint16 PROVE w \in Nat /\ w <= 65535
  BY DEF Uint16

\* And every such number is one.
LEMMA InWord == ASSUME NEW w \in Nat, w <= 65535 PROVE w \in Uint16
  BY DEF Uint16

\* The two bytes of a word.
LEMMA BytesOfWord ==
    ASSUME NEW w \in Nat
    PROVE  (w \div 256) % 256 \in Byte /\ w % 256 \in Byte
  BY DEF Byte

\* A word is what its two bytes say.
LEMMA WordOfBytes ==
    ASSUME NEW w \in Uint16
    PROVE  /\ w \div 256 \in Byte /\ (w \div 256) % 256 = w \div 256 /\ w % 256 \in Byte
           /\ 256 * (w \div 256) + (w % 256) = w
  <1>1. w \in Nat /\ w <= 65535
    BY WordIn
  <1>2. w \div 256 \in 0 .. 255 /\ w % 256 \in 0 .. 255
    BY <1>1
  <1>3. (w \div 256) % 256 = w \div 256
    BY <1>1
  <1>4. 256 * (w \div 256) + (w % 256) = w
    BY <1>1
  <1> QED BY <1>2, <1>3, <1>4 DEF Byte

\* Writing a word changes its two bytes and no other.
LEMMA WordWritten ==
    ASSUME NEW b \in Buffer, NEW pos \in Int, NEW idx \in Int, NEW w \in Nat,
           NEW at \in Pos, at = MODBUS_TCP_BUF_OFFSET + pos + 2 * idx, at + 1 \in Pos
    PROVE  /\ WriteWord(b, pos, idx, w) \in Buffer
           /\ WriteWord(b, pos, idx, w)[at] = (w \div 256) % 256
           /\ WriteWord(b, pos, idx, w)[at + 1] = w % 256
           /\ \A p \in Pos \ {at, at + 1} : WriteWord(b, pos, idx, w)[p] = b[p]
  <1>1. WriteWord(b, pos, idx, w) = [b EXCEPT ![at] = (w \div 256) % 256, ![at + 1] = w % 256]
    BY DEF WriteWord
  <1>2. at # at + 1 /\ at \in Int
    BY Sizes DEF Pos
  <1>3. DOMAIN b = Pos
    BY DEF Buffer
  <1>4. [b EXCEPT ![at] = (w \div 256) % 256, ![at + 1] = w % 256] \in Buffer
    BY BytesOfWord, <1>3 DEF Buffer
  <1> HIDE DEF Pos
  <1> QED BY <1>1, <1>2, <1>3, <1>4 DEF Buffer

\* What the slave reads of a request is what was sent.
LEMMA RequestRead ==
    ASSUME NEW b \in Buffer, NEW req \in Request
    PROVE  LET r == Received(b, req)
           IN  /\ r \in Buffer
               /\ GetByte(r, 0) = req.slave /\ GetByte(r, 1) = req.func
               /\ GetWord(r, 2) = req.reg /\ GetWord(r, 4) = req.value
               /\ r[6] = req.slave /\ r[7] = req.func
               /\ 256 * r[8] + r[9] = req.reg /\ 256 * r[10] + r[11] = req.value
               /\ r[4] = 0 /\ r[5] = 6
               /\ r[8] = req.reg \div 256 /\ r[9] = req.reg % 256
               /\ r[10] = req.value \div 256 /\ r[11] = req.value % 256
               /\ \A p \in Pos \ 4 .. 11 : r[p] = b[p]
  <1> DEFINE r == Received(b, req)
  <1> HIDE DEF r
  <1>1. 0 .. 11 \subseteq Pos
    BY Sizes DEF Pos
  <1>2. /\ req.slave \in Byte /\ req.func \in Byte
        /\ req.reg \in Uint16 /\ req.value \in Uint16
    BY DEF Request
  <1>3. /\ req.reg \div 256 \in Byte /\ req.reg % 256 \in Byte
        /\ req.value \div 256 \in Byte /\ req.value % 256 \in Byte
        /\ 256 * (req.reg \div 256) + (req.reg % 256) = req.reg
        /\ 256 * (req.value \div 256) + (req.value % 256) = req.value
    BY <1>2, WordOfBytes
  <1>4. r = [b EXCEPT ![4] = 0, ![5] = 6, ![6] = req.slave, ![7] = req.func,
                      ![8] = req.reg \div 256, ![9] = req.reg % 256,
                      ![10] = req.value \div 256, ![11] = req.value % 256]
    BY DEF Received, r
  <1>5. r \in Buffer
    <2>1. 0 \in Byte /\ 6 \in Byte
      BY DEF Byte
    <2> QED BY <1>2, <1>3, <1>4, <2>1 DEF Buffer
  <1>6. /\ r[4] = 0 /\ r[5] = 6 /\ r[6] = req.slave /\ r[7] = req.func
        /\ r[8] = req.reg \div 256 /\ r[9] = req.reg % 256
        /\ r[10] = req.value \div 256 /\ r[11] = req.value % 256
    <2>1. /\ 4 \in Pos /\ 5 \in Pos /\ 6 \in Pos /\ 7 \in Pos
          /\ 8 \in Pos /\ 9 \in Pos /\ 10 \in Pos /\ 11 \in Pos
      BY <1>1
    <2> QED BY <1>4, <2>1 DEF Buffer
  <1>7. \A p \in Pos \ 4 .. 11 : r[p] = b[p]
    <2> QED BY <1>4 DEF Buffer
  <1>8. /\ GetByte(r, 0) = req.slave /\ GetByte(r, 1) = req.func
        /\ GetWord(r, 2) = req.reg /\ GetWord(r, 4) = req.value
    <2> QED BY <1>3, <1>6 DEF GetByte, GetWord, MODBUS_TCP_BUF_OFFSET
  <1> QED BY <1>3, <1>5, <1>6, <1>7, <1>8 DEF r

-----------------------------------------------------------------------------
(* The parts of the parser.  An answer is in order if its buffer and its     *)
(* registers keep their types and its length is one the buffer holds.        *)

InOrder(a) ==
    /\ a.buf \in Buffer /\ a.holding \in Table
    /\ a.len \in 3 .. 257 /\ a.len + MODBUS_TCP_BUF_OFFSET <= BufCnt

\* Registers that pass the range check exist.
LEMMA TableRange ==
    ASSUME NEW r \in Uint16, NEW q \in Uint16, InTable(r, q)
    PROVE  q \in 0 .. Quantity /\ \A i \in 0 .. q - 1 : r + i \in Reg
  <1>1. r \in Nat /\ q \in Nat
    BY WordIn
  <1>2. RegNo <= r /\ r + q - 1 <= RegNo + Quantity - 1
    BY DEF InTable
  <1> QED BY <1>1, <1>2, Sizes DEF Reg

\* Registers that exist, at least one, pass it.
LEMMA RangeTable ==
    ASSUME NEW r \in Uint16, NEW q \in Uint16, Exist(r, q)
    PROVE  InTable(r, q)
  <1>1. r \in Nat /\ q \in Nat
    BY WordIn
  <1>2. q > 0 /\ \A i \in 0 .. q - 1 : r + i \in Reg
    BY DEF Exist
  <1>3. 0 \in 0 .. q - 1 /\ q - 1 \in 0 .. q - 1
    BY <1>1, <1>2
  <1>4. r + 0 \in Reg /\ r + (q - 1) \in Reg
    BY <1>2, <1>3
  <1> QED BY <1>1, <1>4, Sizes DEF InTable, Reg

\* The byte count is not cut for as many registers as there are.
LEMMA ByteCountIn ==
    ASSUME NEW q \in Uint16
    PROVE  ByteCount(q) \in Byte /\ (q \in 0 .. Quantity => ByteCount(q) = 2 * q)
  <1>1. q \in Nat
    BY WordIn
  <1>2. ByteCount(q) = (2 * (q % 256)) % 256
    BY DEF ByteCount
  <1>3. q % 256 \in 0 .. 255
    BY <1>1
  <1>4. (2 * (q % 256)) % 256 \in 0 .. 255
    BY <1>3
  <1>5. ASSUME q \in 0 .. Quantity PROVE ByteCount(q) = 2 * q
    <2>1. q \in 0 .. 127
      BY <1>5, Sizes
    <2>2. q % 256 = q /\ (2 * q) % 256 = 2 * q
      BY <2>1
    <2> QED BY <1>2, <2>2
  <1> QED BY <1>2, <1>4, <1>5 DEF Byte

\* The loop writes the values of its registers behind the byte count, and no
\* other byte.
LEMMA WordsWritten ==
    ASSUME NEW b \in Buffer, NEW r \in Uint16, NEW q \in 0 .. Quantity, NEW h \in Table,
           \A i \in 0 .. q - 1 : r + i \in Reg
    PROVE  /\ Words(b, r, q, h) \in Buffer
           /\ \A p \in 0 .. 8 : Words(b, r, q, h)[p] = b[p]
           /\ \A i \in 0 .. q - 1 :
                  /\ Words(b, r, q, h)[9 + 2 * i] = h[r + i] \div 256
                  /\ Words(b, r, q, h)[10 + 2 * i] = h[r + i] % 256
  <1> DEFINE w == Words(b, r, q, h)
  <1>1. w = [p \in Pos |->
                IF p < 9 \/ p >= 9 + 2 * q THEN b[p]
                ELSE IF (p - 9) % 2 = 0 THEN h[r + (p - 9) \div 2] \div 256
                                        ELSE h[r + (p - 9) \div 2] % 256]
    <2>1. DOMAIN b = Pos
      BY DEF Buffer
    <2> QED BY <2>1 DEF Words, MODBUS_TCP_BUF_OFFSET
  <1> HIDE DEF w
  <1>2. \A p \in Pos : w[p] \in Byte
    <2> SUFFICES ASSUME NEW p \in Pos PROVE w[p] \in Byte
      OBVIOUS
    <2>1. CASE p < 9 \/ p >= 9 + 2 * q
      BY <1>1, <2>1 DEF Buffer
    <2>2. CASE ~(p < 9 \/ p >= 9 + 2 * q)
      <3>1. (p - 9) \div 2 \in 0 .. q - 1
        BY <2>2, Sizes DEF Pos
      <3> DEFINE x == h[r + (p - 9) \div 2]
      <3>2. x \in Uint16
        BY <3>1 DEF Table
      <3>3. x \div 256 \in Byte /\ x % 256 \in Byte
        BY <3>2, WordOfBytes
      <3>4. w[p] = x \div 256 \/ w[p] = x % 256
        BY <1>1, <2>2
      <3> QED BY <3>3, <3>4
    <2> QED BY <2>1, <2>2
  <1>3. w \in Buffer
    BY <1>1, <1>2 DEF Buffer
  <1>4. \A p \in 0 .. 8 : w[p] = b[p]
    BY <1>1, Sizes DEF Pos
  <1>5. ASSUME NEW i \in 0 .. q - 1
        PROVE  w[9 + 2 * i] = h[r + i] \div 256 /\ w[10 + 2 * i] = h[r + i] % 256
    <2>1. 9 + 2 * i \in Pos /\ 10 + 2 * i \in Pos /\ i \in Int
      BY Sizes DEF Pos
    <2>2. /\ ~(9 + 2 * i < 9 \/ 9 + 2 * i >= 9 + 2 * q)
          /\ ~(10 + 2 * i < 9 \/ 10 + 2 * i >= 9 + 2 * q)
      BY Sizes
    <2>3. /\ (9 + 2 * i - 9) % 2 = 0 /\ (9 + 2 * i - 9) \div 2 = i
          /\ (10 + 2 * i - 9) % 2 # 0 /\ (10 + 2 * i - 9) \div 2 = i
      BY <2>1
    <2>4. w[9 + 2 * i] = h[r + (9 + 2 * i - 9) \div 2] \div 256
      BY <1>1, <2>1, <2>2, <2>3
    <2>5. w[10 + 2 * i] = h[r + (10 + 2 * i - 9) \div 2] % 256
      BY <1>1, <2>1, <2>2, <2>3
    <2> QED BY <2>3, <2>4, <2>5
  <1> QED BY <1>3, <1>4, <1>5 DEF w

\* The fields of an answer.
LEMMA AnswerFields ==
    ASSUME NEW b, NEW h, NEW len
    PROVE  /\ Answer(b, h, len).buf = b
           /\ Answer(b, h, len).holding = h
           /\ Answer(b, h, len).len = len
  BY DEF Answer

\* The three bytes of an exception lie behind the header and the unit.
LEMMA ExceptionInOrder ==
    ASSUME NEW b \in Buffer, NEW h \in Table, NEW pos \in {0, 1}, NEW w \in Nat
    PROVE  LET e == Answer(WriteWord(b, pos, 1 - pos, w), h, 3)
           IN  InOrder(e) /\ e.buf[6] = b[6]
  <1> DEFINE x == WriteWord(b, pos, 1 - pos, w)
             at == 6 + pos + 2 * (1 - pos)
  <1>1. at \in {7, 8} /\ at \in Pos /\ at + 1 \in Pos /\ 1 - pos \in Int /\ pos \in Int
    BY Sizes DEF Pos
  <1>2. at = MODBUS_TCP_BUF_OFFSET + pos + 2 * (1 - pos)
    BY DEF MODBUS_TCP_BUF_OFFSET
  <1> HIDE DEF at
  <1>3. x \in Buffer /\ \A p \in Pos \ {at, at + 1} : x[p] = b[p]
    BY <1>1, <1>2, WordWritten
  <1>4. 6 \in Pos \ {at, at + 1}
    BY <1>1, Sizes DEF Pos
  <1>5. 3 \in 3 .. 257 /\ 3 + MODBUS_TCP_BUF_OFFSET <= BufCnt
    BY Sizes DEF MODBUS_TCP_BUF_OFFSET
  <1> HIDE DEF x
  <1>6. InOrder(Answer(x, h, 3)) /\ Answer(x, h, 3).buf[6] = b[6]
    BY <1>3, <1>4, <1>5, AnswerFields DEF InOrder
  <1> QED BY <1>6 DEF x

\* What a read answers, and that it leaves the registers alone if those asked
\* for do not exist.
LEMMA ReadAnswers ==
    ASSUME NEW b \in Buffer, NEW h \in Table, NEW fresh \in Table,
           NEW r \in Uint16, NEW q \in Uint16, GetWord(b, 2) = r, GetWord(b, 4) = q
    PROVE  LET a == ReadHolding(b, h, fresh)
           IN  /\ InOrder(a) /\ a.buf[6] = b[6]
               /\ a.holding # h => Exist(r, q)
               /\ Exist(r, q) =>
                      /\ a.len = 2 * q + 3 /\ a.buf[7] = b[7] /\ a.buf[8] = 2 * q
                      /\ \A i \in 0 .. q - 1 :
                             /\ a.buf[9 + 2 * i] = a.holding[r + i] \div 256
                             /\ a.buf[10 + 2 * i] = a.holding[r + i] % 256
  <1> DEFINE a == ReadHolding(b, h, fresh)
             h2 == [x \in Reg |-> IF r <= x /\ x < r + q THEN fresh[x] ELSE h[x]]
             b2 == [b EXCEPT ![MODBUS_TCP_BUF_OFFSET + 2] = ByteCount(q)]
  <1>1. h2 \in Table
    BY DEF Table
  <1>2. CASE ~InTable(r, q)
    <2>1. a = Answer(WriteWord(b, 1, 1 - 1, (3 + 128) * 256 + MB_ERR_RANGE), h, 3)
      BY <1>2 DEF ReadHolding
    <2>2. 1 \in {0, 1} /\ (3 + 128) * 256 + MB_ERR_RANGE \in Nat
      BY DEF MB_ERR_RANGE
    <2> HIDE DEF a
    <2>3. InOrder(a) /\ a.buf[6] = b[6]
      BY <2>1, <2>2, ExceptionInOrder
    <2>4. a.holding = h
      BY <2>1, AnswerFields
    <2>5. ~Exist(r, q)
      BY <1>2, RangeTable
    <2> QED BY <2>3, <2>4, <2>5 DEF a
  <1>3. CASE InTable(r, q)
    <2> DEFINE w == Words(b2, r, q, h2)
    <2>1. a = Answer(w, h2, 2 * q + 3)
      BY <1>3 DEF ReadHolding
    <2>2. q \in 0 .. Quantity /\ \A i \in 0 .. q - 1 : r + i \in Reg
      BY <1>3, TableRange
    <2>3. ByteCount(q) \in Byte /\ ByteCount(q) = 2 * q
      BY <2>2, ByteCountIn
    <2>4. 8 \in Pos /\ 7 \in Pos /\ 6 \in Pos
      BY Sizes DEF Pos
    <2>5. b2 \in Buffer /\ b2[8] = 2 * q /\ b2[7] = b[7] /\ b2[6] = b[6]
      BY <2>3, <2>4 DEF Buffer, MODBUS_TCP_BUF_OFFSET
    <2> HIDE DEF a, h2, b2
    <2>6. /\ w \in Buffer
          /\ \A p \in 0 .. 8 : w[p] = b2[p]
          /\ \A i \in 0 .. q - 1 :
                 w[9 + 2 * i] = h2[r + i] \div 256 /\ w[10 + 2 * i] = h2[r + i] % 256
      <3>1. q \in 0 .. Quantity
        BY <2>2
      <3>2. \A i \in 0 .. q - 1 : r + i \in Reg
        BY <2>2
      <3>3. b2 \in Buffer
        BY <2>5
      <3>4. h2 \in Table
        BY <1>1
      <3> QED BY ONLY r \in Uint16, <3>1, <3>2, <3>3, <3>4, WordsWritten
    <2>7. 2 * q + 3 \in 3 .. 257 /\ 2 * q + 3 + MODBUS_TCP_BUF_OFFSET <= BufCnt
      BY <2>2, Sizes DEF MODBUS_TCP_BUF_OFFSET
    <2> HIDE DEF w
    <2>8. a.buf = w /\ a.holding = h2 /\ a.len = 2 * q + 3
      BY <2>1, AnswerFields
    <2>9. InOrder(a) /\ a.buf[6] = b[6] /\ a.buf[7] = b[7] /\ a.buf[8] = 2 * q
      BY <1>1, <2>5, <2>6, <2>7, <2>8 DEF InOrder
    <2>10. h2 # h => Exist(r, q)
      <3>1. CASE q = 0
        <4>1. \A x \in Reg : ~(r <= x /\ x < r + q)
          BY <3>1, WordIn, Sizes DEF Reg
        <4>2. h2 = h
          BY <4>1 DEF Table, h2
        <4> QED BY <4>2
      <3>2. CASE q # 0
        BY <2>2, <3>2 DEF Exist
      <3> QED BY <3>1, <3>2
    <2> QED BY <2>6, <2>8, <2>9, <2>10 DEF a
  <1> QED BY <1>2, <1>3

\* What a write answers: the request, with the register written, if it exists.
LEMMA WriteAnswers ==
    ASSUME NEW b \in Buffer, NEW h \in Table,
           NEW r \in Uint16, NEW v \in Uint16, GetWord(b, 2) = r, GetWord(b, 4) = v
    PROVE  LET a == WriteHolding(b, h)
           IN  /\ InOrder(a) /\ a.buf[6] = b[6]
               /\ a.holding # h => Exist(r, 1)
               /\ Exist(r, 1) => a.len = 6 /\ a.buf = b /\ a.holding[r] = v
  <1> DEFINE a == WriteHolding(b, h)
  <1>1. Exist(r, 1) <=> r \in Reg
    BY WordIn DEF Exist
  <1>2. InTable(r, 1) <=> r \in Reg
    BY WordIn, Sizes DEF InTable, Reg
  <1>3. CASE ~InTable(r, 1)
    <2>1. a = Answer(WriteWord(b, 0, 1 - 0, MB_ERR_RANGE * 256 + 6 + 128), h, 3)
      BY <1>3 DEF WriteHolding
    <2>2. 0 \in {0, 1} /\ MB_ERR_RANGE * 256 + 6 + 128 \in Nat
      BY DEF MB_ERR_RANGE
    <2> HIDE DEF a
    <2>3. InOrder(a) /\ a.buf[6] = b[6]
      BY <2>1, <2>2, ExceptionInOrder
    <2>4. a.holding = h
      BY <2>1, AnswerFields
    <2> QED BY <1>1, <1>2, <1>3, <2>3, <2>4 DEF a
  <1>4. CASE InTable(r, 1)
    <2>1. a = Answer(b, [h EXCEPT ![r] = v], 6)
      BY <1>4 DEF WriteHolding
    <2> HIDE DEF a
    <2>2. a.buf = b /\ a.holding = [h EXCEPT ![r] = v] /\ a.len = 6
      BY <2>1, AnswerFields
    <2>3. a.holding \in Table /\ a.holding[r] = v
      BY <1>2, <1>4, <2>2 DEF Table
    <2>4. 6 \in 3 .. 257 /\ 6 + MODBUS_TCP_BUF_OFFSET <= BufCnt
      BY Sizes DEF MODBUS_TCP_BUF_OFFSET
    <2> QED BY <1>1, <1>2, <1>4, <2>2, <2>3, <2>4 DEF InOrder, a
  <1> QED BY <1>3, <1>4

\* Any other function is answered with an exception.
LEMMA OtherAnswers ==
    ASSUME NEW b \in Buffer, NEW h \in Table
    PROVE  LET a == OtherFunction(b, h)
           IN  InOrder(a) /\ a.buf[6] = b[6] /\ a.holding = h
  <1> DEFINE w == MB_ERR_FUNC * 256 + GetByte(b, 1) + 128
             a == OtherFunction(b, h)
  <1>1. 7 \in Pos
    BY Sizes DEF Pos
  <1>2. b[7] \in 0 .. 255
    BY <1>1 DEF Buffer, Byte
  <1>3. w \in Nat
    BY <1>2 DEF MB_ERR_FUNC, GetByte, MODBUS_TCP_BUF_OFFSET
  <1>4. a = Answer(WriteWord(b, 0, 1 - 0, w), h, 3)
    BY DEF OtherFunction
  <1> HIDE DEF w, a
  <1>5. 0 \in {0, 1}
    OBVIOUS
  <1>6. InOrder(a) /\ a.buf[6] = b[6]
    BY <1>3, <1>4, <1>5, ExceptionInOrder
  <1>7. a.holding = h
    BY <1>4, AnswerFields
  <1> QED BY <1>6, <1>7 DEF a

\* The length of an answer fits its word.
LEMMA SmallLength == ASSUME NEW n \in 3 .. 257 PROVE n \in Uint16 /\ n \in Nat
  <1>1. n \in Nat /\ n <= 65535
    OBVIOUS
  <1> QED BY <1>1, InWord

\* The header counts the bytes of the answer from the unit on, and nothing
\* else is written.
LEMMA MbapWritten ==
    ASSUME NEW a, InOrder(a)
    PROVE  LET m == WithMbap(a)
           IN  /\ m.buf \in Buffer /\ m.holding = a.holding
               /\ m.len = a.len + 6 /\ m.len <= BufCnt
               /\ 256 * m.buf[4] + m.buf[5] = a.len
               /\ m.buf[4] = a.len \div 256 /\ m.buf[5] = a.len % 256
               /\ \A p \in Pos \ {4, 5} : m.buf[p] = a.buf[p]
  <1> DEFINE m == WithMbap(a)
             x == WriteWord(a.buf, 0, -1, a.len)
  <1>1. a.buf \in Buffer /\ a.len \in Uint16 /\ a.len \in Nat /\ a.len + 6 <= BufCnt
    <2>1. a.buf \in Buffer /\ a.len \in 3 .. 257 /\ a.len + 6 <= BufCnt
      BY DEF InOrder, MODBUS_TCP_BUF_OFFSET
    <2> QED BY <2>1, SmallLength
  <1>2. m = Answer(x, a.holding, a.len + 6)
    BY DEF WithMbap, MODBUS_TCP_BUF_OFFSET
  <1>3. 4 \in Pos /\ 4 + 1 \in Pos /\ 4 = MODBUS_TCP_BUF_OFFSET + 0 + 2 * (-1)
    BY Sizes DEF Pos, MODBUS_TCP_BUF_OFFSET
  <1>4. 0 \in Int /\ -1 \in Int /\ 4 + 1 = 5
    OBVIOUS
  <1> HIDE DEF m
  <1>5. /\ x \in Buffer
        /\ x[4] = (a.len \div 256) % 256 /\ x[5] = a.len % 256
        /\ \A p \in Pos \ {4, 5} : x[p] = a.buf[p]
    <2>1. /\ x \in Buffer
          /\ x[4] = (a.len \div 256) % 256 /\ x[4 + 1] = a.len % 256
          /\ \A p \in Pos \ {4, 4 + 1} : x[p] = a.buf[p]
      BY <1>1, <1>3, <1>4, WordWritten
    <2> HIDE DEF x
    <2> QED BY <1>4, <2>1
  <1> HIDE DEF x
  <1>6. (a.len \div 256) % 256 = a.len \div 256 /\ 256 * (a.len \div 256) + (a.len % 256) = a.len
    BY <1>1, WordOfBytes
  <1>7. m.buf = x /\ m.holding = a.holding /\ m.len = a.len + 6
    BY <1>2, AnswerFields
  <1> QED BY <1>1, <1>5, <1>6, <1>7 DEF m

\* The requests that are obeyed.
Reads(req)  == req.slave = slaveId /\ req.func = 3 /\ Exist(req.reg, req.value)
Writes(req) == req.slave = slaveId /\ req.func = 6 /\ Exist(req.reg, 1)

\* What a length in an answer means.
LengthFits(a) ==
    \/ a.len = -1
    \/ a.len \in 9 .. 263 /\ a.len <= BufCnt /\ 256 * a.buf[4] + a.buf[5] + 6 = a.len

\* What the parser makes of a request.
LEMMA ParseAnswers ==
    ASSUME NEW b0 \in Buffer, NEW h \in Table, NEW fresh \in Table, NEW req \in Request
    PROVE  LET a == ParseRxData(Received(b0, req), h, fresh)
           IN  /\ a.buf \in Buffer /\ a.holding \in Table /\ LengthFits(a)
               /\ a.holding # h => Reads(req) \/ Writes(req)
               /\ Reads(req) =>
                      /\ a.len = 9 + 2 * req.value
                      /\ a.buf[6] = slaveId /\ a.buf[7] = 3 /\ a.buf[8] = 2 * req.value
                      /\ \A i \in 0 .. req.value - 1 :
                             /\ a.buf[9 + 2 * i] = a.holding[req.reg + i] \div 256
                             /\ a.buf[10 + 2 * i] = a.holding[req.reg + i] % 256
               /\ Writes(req) =>
                      /\ a.len = 12 /\ a.holding[req.reg] = req.value
                      /\ Received(a.buf, req) = a.buf
  <1> DEFINE b == Received(b0, req)
             p == ParseRxData(b, h, fresh)
             a == IF req.func = 3 THEN ReadHolding(b, h, fresh)
                  ELSE IF req.func = 6 THEN WriteHolding(b, h)
                  ELSE OtherFunction(b, h)
  <1> HIDE DEF b, p, a
  <1>1. /\ req.slave \in Byte /\ req.func \in Byte
        /\ req.reg \in Uint16 /\ req.value \in Uint16
    BY DEF Request
  <1>2. /\ b \in Buffer
        /\ GetByte(b, 0) = req.slave /\ GetByte(b, 1) = req.func
        /\ GetWord(b, 2) = req.reg /\ GetWord(b, 4) = req.value
        /\ b[6] = req.slave /\ b[7] = req.func
        /\ b[4] = 0 /\ b[5] = 6
        /\ b[8] = req.reg \div 256 /\ b[9] = req.reg % 256
        /\ b[10] = req.value \div 256 /\ b[11] = req.value % 256
    BY RequestRead DEF b
  <1>3. p = IF req.slave # slaveId \/ req.func \notin Known
            THEN Answer(b, h, -1) ELSE WithMbap(a)
    BY <1>2 DEF ParseRxData, p, a
  <1>4. CASE req.slave # slaveId \/ req.func \notin Known
    <2>1. p.buf = b /\ p.holding = h /\ p.len = -1
      BY <1>3, <1>4, AnswerFields
    <2>2. ~Reads(req) /\ ~Writes(req)
      BY <1>4 DEF Reads, Writes, Known
    <2> QED BY <1>2, <2>1, <2>2 DEF LengthFits, p, b
  <1>5. CASE req.slave = slaveId /\ req.func \in Known
    <2>1. p = WithMbap(a)
      BY <1>3, <1>5
    <2>2. InOrder(a) /\ (a.holding # h => Reads(req) \/ Writes(req))
      <3>1. CASE req.func = 3
        BY <1>1, <1>2, <1>5, <3>1, ReadAnswers DEF a, Reads
      <3>2. CASE req.func = 6
        BY <1>1, <1>2, <1>5, <3>2, WriteAnswers DEF a, Writes
      <3>3. CASE req.func # 3 /\ req.func # 6
        BY <1>2, <3>3, OtherAnswers DEF a
      <3> QED BY <3>1, <3>2, <3>3
    <2>3. /\ p.buf \in Buffer /\ p.holding = a.holding
          /\ p.len = a.len + 6 /\ p.len <= BufCnt
          /\ 256 * p.buf[4] + p.buf[5] = a.len
          /\ p.buf[4] = a.len \div 256 /\ p.buf[5] = a.len % 256
          /\ \A x \in Pos \ {4, 5} : p.buf[x] = a.buf[x]
      BY <2>1, <2>2, MbapWritten
    <2>4. a.len \in 3 .. 257 /\ a.holding \in Table
      BY <2>2 DEF InOrder
    <2>5. LengthFits(p)
      BY <2>3, <2>4 DEF LengthFits
    <2>6. ASSUME Reads(req)
          PROVE  /\ p.len = 9 + 2 * req.value
                 /\ p.buf[6] = slaveId /\ p.buf[7] = 3 /\ p.buf[8] = 2 * req.value
                 /\ \A i \in 0 .. req.value - 1 :
                        /\ p.buf[9 + 2 * i] = p.holding[req.reg + i] \div 256
                        /\ p.buf[10 + 2 * i] = p.holding[req.reg + i] % 256
      <3>1. req.func = 3 /\ Exist(req.reg, req.value)
        BY <2>6 DEF Reads
      <3>2. a = ReadHolding(b, h, fresh)
        BY <3>1 DEF a
      <3>3. /\ a.buf[6] = b[6]
            /\ a.len = 2 * req.value + 3 /\ a.buf[7] = b[7] /\ a.buf[8] = 2 * req.value
            /\ \A i \in 0 .. req.value - 1 :
                   /\ a.buf[9 + 2 * i] = a.holding[req.reg + i] \div 256
                   /\ a.buf[10 + 2 * i] = a.holding[req.reg + i] % 256
        BY <1>1, <1>2, <3>1, <3>2, ReadAnswers
      <3>4. req.value \in 0 .. Quantity
        BY <1>1, <3>1, RangeTable, TableRange
      <3>5. p.buf[6] = a.buf[6] /\ p.buf[7] = a.buf[7] /\ p.buf[8] = a.buf[8]
        <4>1. {6, 7, 8} \subseteq Pos \ {4, 5}
          BY Sizes DEF Pos
        <4> QED BY <2>3, <4>1
      <3>6. ASSUME NEW i \in 0 .. req.value - 1
            PROVE  p.buf[9 + 2 * i] = a.buf[9 + 2 * i] /\ p.buf[10 + 2 * i] = a.buf[10 + 2 * i]
        <4>1. 9 + 2 * i \in Pos \ {4, 5} /\ 10 + 2 * i \in Pos \ {4, 5}
          BY <3>4, Sizes DEF Pos
        <4> QED BY <2>3, <4>1
      <3>7. p.len = 9 + 2 * req.value
        BY <2>3, <3>3, <3>4, Sizes
      <3> QED BY <1>2, <1>5, <2>3, <3>1, <3>3, <3>5, <3>6, <3>7
    <2>7. ASSUME Writes(req)
          PROVE  /\ p.len = 12 /\ p.holding[req.reg] = req.value
                 /\ Received(p.buf, req) = p.buf
      <3>1. req.func = 6 /\ Exist(req.reg, 1)
        BY <2>7 DEF Writes
      <3>2. a = WriteHolding(b, h)
        BY <3>1 DEF a
      <3>3. a.len = 6 /\ a.buf = b /\ a.holding[req.reg] = req.value
        BY <1>1, <1>2, <3>1, <3>2, WriteAnswers
      <3>4. p.buf[4] = 0 /\ p.buf[5] = 6
        BY <2>3, <3>3
      <3> DEFINE r == Received(p.buf, req)
      <3>5. /\ r \in Buffer /\ r[4] = 0 /\ r[5] = 6
            /\ r[6] = req.slave /\ r[7] = req.func
            /\ r[8] = req.reg \div 256 /\ r[9] = req.reg % 256
            /\ r[10] = req.value \div 256 /\ r[11] = req.value % 256
            /\ \A x \in Pos \ 4 .. 11 : r[x] = p.buf[x]
        BY <2>3, RequestRead
      <3> HIDE DEF r
      <3>6. ASSUME NEW x \in Pos PROVE r[x] = p.buf[x]
        <4>1. CASE x \in {6, 7, 8, 9, 10, 11}
          <5>1. p.buf[x] = b[x]
            BY <2>3, <3>3, <4>1
          <5> QED BY <1>2, <3>5, <4>1, <5>1
        <4>2. CASE x \in {4, 5}
          BY <3>4, <3>5, <4>2
        <4>3. CASE x \notin 4 .. 11
          BY <3>5, <4>3
        <4> QED BY <4>1, <4>2, <4>3, Sizes DEF Pos
      <3>7. r = p.buf
        BY <2>3, <3>5, <3>6 DEF Buffer
      <3> QED BY <2>3, <3>3, <3>7 DEF r
    <2> QED BY <2>2, <2>3, <2>4, <2>5, <2>6, <2>7 DEF p, b
  <1> QED BY <1>4, <1>5

-----------------------------------------------------------------------------
(* The theorems.  Each answer is what it is because of the request alone:    *)
(* the types are all the induction needs.                                    *)

ModbusInv == ModbusTypeOK /\ ReadAnswered /\ WriteAnswered /\ FrameFits

\* A length as a uint16_t.
LEMMA LengthCast ==
    ASSUME NEW n \in Int, n = -1 \/ n \in 9 .. 263
    PROVE  /\ (n + 65536) % 65536 \in Uint16
           /\ n = -1 => (n + 65536) % 65536 = 65535
           /\ n # -1 => (n + 65536) % 65536 = n
  <1> DEFINE k == (n + 65536) % 65536
  <1>1. n = -1 => k = 65535
    OBVIOUS
  <1>2. n # -1 => k = n /\ k <= 65535 /\ k \in Nat
    OBVIOUS
  <1>3. 65535 \in Nat /\ 65535 <= 65535
    OBVIOUS
  <1> HIDE DEF k
  <1>4. k \in Uint16
    BY <1>1, <1>2, <1>3, InWord
  <1> QED BY <1>1, <1>2, <1>4 DEF k

\* The same equation without the six bytes in front.
LEMMA WithoutHeader ==
    ASSUME NEW x \in Int, NEW y \in Int, NEW n \in Int, 256 * x + y + 6 = n
    PROVE  256 * x + y = n - 6
  OBVIOUS

\* The length in the header.
LEMMA HeaderLength ==
    ASSUME NEW b \in Buffer, NEW n \in Nat, 256 * b[4] + b[5] + 6 = n
    PROVE  256 * b[4] + b[5] = n - 6
  <1>1. 4 \in Pos /\ 5 \in Pos
    BY Sizes DEF Pos
  <1>2. b[4] \in 0 .. 255 /\ b[5] \in 0 .. 255
    BY <1>1 DEF Buffer, Byte
  <1>3. b[4] \in Int /\ b[5] \in Int /\ n \in Int
    BY <1>2
  <1> QED BY <1>3, WithoutHeader

LEMMA ModbusStart == Init => ModbusInv
  <1> SUFFICES ASSUME Init PROVE ModbusInv
    OBVIOUS
  <1>1. 0 \in Byte /\ 0 \in Uint16
    BY DEF Byte, Uint16
  <1>2. ModbusTypeOK
    BY <1>1 DEF Init, ModbusTypeOK
  <1>3. ReadAnswered /\ WriteAnswered /\ FrameFits
    BY DEF Init, ReadAnswered, WriteAnswered, FrameFits, slaveId
  <1> QED BY <1>2, <1>3 DEF ModbusInv

\* One request.
LEMMA CallAnswers ==
    ASSUME ModbusTypeOK, NEW req \in Asked, NEW fresh \in [Reg -> Word],
           cbckModbusTcpServer(req, fresh)
    PROVE  ModbusInv' /\ (holding' # holding => Reads(req) \/ Writes(req)) /\ asked' = req
  <1> DEFINE a == ParseRxData(Received(buf, req), holding, fresh)
  <1> HIDE DEF a
  <1>1. buf' = a.buf /\ holding' = a.holding /\ txFrameSize' = (a.len + 65536) % 65536 /\ asked' = req
    BY DEF cbckModbusTcpServer, a
  <1>2. buf \in Buffer /\ holding \in Table
    BY DEF ModbusTypeOK, Buffer, Table, Pos
  <1>3. req \in Request /\ fresh \in Table
    BY ModbusSSAssumption DEF Request, Table
  <1>4. /\ a.buf \in Buffer /\ a.holding \in Table /\ LengthFits(a)
        /\ a.holding # holding => Reads(req) \/ Writes(req)
        /\ Reads(req) =>
               /\ a.len = 9 + 2 * req.value
               /\ a.buf[6] = slaveId /\ a.buf[7] = 3 /\ a.buf[8] = 2 * req.value
               /\ \A i \in 0 .. req.value - 1 :
                      /\ a.buf[9 + 2 * i] = a.holding[req.reg + i] \div 256
                      /\ a.buf[10 + 2 * i] = a.holding[req.reg + i] % 256
        /\ Writes(req) =>
               /\ a.len = 12 /\ a.holding[req.reg] = req.value
               /\ Received(a.buf, req) = a.buf
    BY <1>2, <1>3, ParseAnswers DEF a
  <1>5. (a.len = -1 /\ txFrameSize' = 65535) \/ (a.len \in 9 .. 263 /\ txFrameSize' = a.len)
    <2>1. a.len \in Int /\ (a.len = -1 \/ a.len \in 9 .. 263)
      BY <1>4 DEF LengthFits
    <2> QED BY <1>1, <2>1, LengthCast
  <1>6. ModbusTypeOK'
    <2>1. a.len \in Int /\ (a.len = -1 \/ a.len \in 9 .. 263)
      BY <1>4 DEF LengthFits
    <2>2. txFrameSize' \in Uint16
      BY <1>1, <2>1, LengthCast
    <2> QED BY <1>1, <1>3, <1>4, <2>2 DEF ModbusTypeOK, Buffer, Table, Pos, Request
  <1>7. FrameFits'
    BY <1>1, <1>4, <1>5 DEF LengthFits, FrameFits, MbapLength
  <1>8. ReadAnswered'
    <2> SUFFICES ASSUME Reads(req)
                 PROVE  /\ txFrameSize' = 9 + 2 * req.value
                        /\ 256 * a.buf[4] + a.buf[5] = 3 + 2 * req.value
                        /\ a.buf[6] = slaveId /\ a.buf[7] = 3 /\ a.buf[8] = 2 * req.value
                        /\ \A i \in 0 .. req.value - 1 :
                               256 * a.buf[9 + 2 * i] + a.buf[10 + 2 * i]
                                   = a.holding[req.reg + i]
      BY <1>1 DEF ReadAnswered, MbapLength, Reads
    <2>1. req.reg \in Uint16 /\ req.value \in Uint16
      BY <1>3 DEF Request
    <2>2. req.value \in 0 .. Quantity /\ \A i \in 0 .. req.value - 1 : req.reg + i \in Reg
      BY <2>1, RangeTable, TableRange DEF Reads
    <2>3. ASSUME NEW i \in 0 .. req.value - 1
          PROVE  256 * a.buf[9 + 2 * i] + a.buf[10 + 2 * i] = a.holding[req.reg + i]
      <3> DEFINE w == a.holding[req.reg + i]
      <3>1. w \in Uint16
        BY <1>4, <2>2 DEF Table
      <3>2. a.buf[9 + 2 * i] = w \div 256 /\ a.buf[10 + 2 * i] = w % 256
        BY <1>4
      <3> HIDE DEF w
      <3>3. 256 * (w \div 256) + (w % 256) = w
        BY <3>1, WordOfBytes
      <3> QED BY <3>2, <3>3 DEF w
    <2>4. a.len = 9 + 2 * req.value /\ req.value \in Nat
      BY <1>4, <2>2
    <2>5. a.len \in 9 .. 263 /\ txFrameSize' = a.len
      BY <1>5, <2>4
    <2>6. 256 * a.buf[4] + a.buf[5] = 3 + 2 * req.value
      <3>1. a.len \in Nat /\ 256 * a.buf[4] + a.buf[5] + 6 = a.len
        BY <1>4, <2>5 DEF LengthFits
      <3>2. 256 * a.buf[4] + a.buf[5] = a.len - 6
        BY <1>4, <3>1, HeaderLength
      <3>3. a.len - 6 = 3 + 2 * req.value
        BY <2>4
      <3> QED BY <3>2, <3>3
    <2> QED BY <1>4, <2>3, <2>4, <2>5, <2>6
  <1>9. WriteAnswered'
    <2> SUFFICES ASSUME Writes(req)
                 PROVE  /\ a.holding[req.reg] = req.value
                        /\ txFrameSize' = 12 /\ 256 * a.buf[4] + a.buf[5] = 6
                        /\ Received(a.buf, req) = a.buf
      BY <1>1 DEF WriteAnswered, MbapLength, Writes
    <2>1. a.len = 12 /\ txFrameSize' = 12
      BY <1>4, <1>5
    <2>2. 256 * a.buf[4] + a.buf[5] + 6 = 12
      BY <1>4, <2>1 DEF LengthFits
    <2>3. 256 * a.buf[4] + a.buf[5] = 12 - 6
      BY <1>4, <2>2, HeaderLength
    <2> QED BY <1>4, <2>1, <2>3
  <1> QED BY <1>1, <1>4, <1>6, <1>7, <1>8, <1>9 DEF ModbusInv

LEMMA ModbusStep == ModbusInv /\ [Next]_vars => ModbusInv'
  <1> SUFFICES ASSUME ModbusInv, [Next]_vars PROVE ModbusInv'
    OBVIOUS
  <1>1. CASE Next
    BY <1>1, CallAnswers DEF ModbusInv, Next
  <1>2. CASE UNCHANGED vars
    BY <1>2 DEF vars, ModbusInv, ModbusTypeOK, ReadAnswered, WriteAnswered, FrameFits,
                MbapLength
  <1> QED BY <1>1, <1>2

LEMMA ModbusAlways == Spec => []ModbusInv
  BY ModbusStart, ModbusStep, PTL DEF Spec

\* Every byte of the buffer is a byte, every register a word, and the length a
\* uint16_t, whatever is asked (ModbusSS.c:25-141, freertos.c:262-267).
THEOREM ModbusTypeCorrect == Spec => []ModbusTypeOK
  BY ModbusAlways, PTL DEF ModbusInv

\* A read of registers that exist is answered with their values, whose byte
\* count fits its byte (ModbusSS.c:83-105).
THEOREM ModbusReadAnswered == Spec => []ReadAnswered
  BY ModbusAlways, PTL DEF ModbusInv

\* A write of a register that exists is done and echoed (ModbusSS.c:106-123).
THEOREM ModbusWriteAnswered == Spec => []WriteAnswered
  BY ModbusAlways, PTL DEF ModbusInv

\* An answer is never longer than the buffer, and its header says how long it
\* is; a refusal becomes 65535 and no other length (ModbusSS.c:130-140).
THEOREM ModbusFrameFits == Spec => []FrameFits
  BY ModbusAlways, PTL DEF ModbusInv

\* Requests of registers that do not exist, of zero registers, of other
\* functions and of other units change no register (ModbusSS.c:83-127, 157-191).
THEOREM ModbusOthersHarmless == Spec => OthersHarmless
  <1>1. ModbusInv /\ [Next]_vars =>
            [holding' # holding =>
                /\ asked'.slave = slaveId
                /\ \/ asked'.func = 3 /\ Exist(asked'.reg, asked'.value)
                   \/ asked'.func = 6 /\ Exist(asked'.reg, 1)]_vars
    BY CallAnswers DEF ModbusInv, Next, Reads, Writes
  <1> QED BY <1>1, ModbusAlways, PTL DEF Spec, OthersHarmless
=============================================================================
