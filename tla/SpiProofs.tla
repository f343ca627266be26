------------------------------ MODULE SpiProofs ------------------------------
(***************************************************************************)
(* Why every access of SpiBus is an access of ChipAccess, for a memory, a  *)
(* byte and bursts of any size: the bytes that are written but not clocked *)
(* are on the line (OnTheLine), and at every label of taskNet it is known  *)
(* how far the transfer may be (Progress).                                 *)
(***************************************************************************)
EXTENDS SpiBus, TLAPS, SequenceTheorems

InFlight(register) == IF register = None THEN 0 ELSE 1

OnTheLine ==
    /\ written = clocked + InFlight(shift) + InFlight(tdr)
    /\ shift # None => shift = Item(clocked + 1)
    /\ tdr # None => tdr = Item(written)

\* What the chip has sent so far is what the frame has clocked behind its header.
Sent ==
    /\ Len(miso) = IF Reads(access) /\ clocked > Header THEN clocked - Header ELSE 0
    /\ ~Reads(access) => got = <<>>

Quiet ==
    /\ State = "READY" /\ hdmatx = "READY" /\ hdmarx = "READY"
    /\ rxCount = 0 /\ tcTx = 0 /\ tcRx = 0
    /\ tdr = None /\ shift = None /\ rdr = None
    /\ written = txEnd

Sending ==
    /\ State = "BUSY_TX" /\ hdmatx = "BUSY" /\ hdmarx = "READY"
    /\ rxCount = 0 /\ tcRx = 0
    /\ tcTx = 1 <=> written = txEnd

\* The single byte is on the line, or it was received, or it was read.
Polling ==
    /\ State = "BUSY_RX" /\ hdmatx = "READY" /\ hdmarx = "READY"
    /\ rxCount = 0 /\ tcTx = 0 /\ tcRx = 0
    /\ written = txEnd

\* Channel 4 has read all that came in but the byte in the data register.
Receiving ==
    /\ State = "BUSY_RX" /\ hdmarx = "BUSY"
    /\ clocked >= Header
    /\ rdr \in Value \cup {None}
    /\ IF rdr = None THEN miso = got ELSE miso = Append(got, rdr)
    /\ rxCount + Len(got) = Length
    /\ tcRx = 1 <=> rxCount = 0
    /\ IF hdmatx = "BUSY" THEN tcTx = 1 <=> written = txEnd
                          ELSE tcTx = 0 /\ written = txEnd

FirstEnd == IF access.op = "writeReg" THEN Header + 1 ELSE Header

Progress ==
    /\ pc # "halt"
    /\ pc = "idle" => Quiet
    /\ pc = "header" => Quiet /\ txEnd = 0 /\ got = <<>>
    /\ pc = "waitHeader" => (Quiet \/ Sending) /\ txEnd = FirstEnd /\ got = <<>>
    /\ pc = "readByte" => Quiet /\ txEnd = Header /\ got = <<>> /\ access.op = "readReg"
    /\ pc = "poll" => /\ Polling /\ txEnd = Header + 1 /\ got = <<>> /\ access.op = "readReg"
                      /\ IF rdr = None THEN clocked = Header
                         ELSE clocked = Header + 1 /\ miso = Append(got, rdr)
    /\ pc = "endByte" => /\ Polling /\ txEnd = Header + 1 /\ access.op = "readReg"
                         /\ clocked = Header + 1 /\ got = miso
    /\ pc = "readBurst" => Quiet /\ txEnd = Header /\ got = <<>> /\ access.op = "readBuf"
    /\ pc = "waitRx" => /\ access.op = "readBuf" /\ txEnd = Header + Length
                        /\ Receiving \/ (Quiet /\ got = miso)
    /\ pc = "writeBurst" => Quiet /\ txEnd = Header /\ access.op = "writeBuf"
    /\ pc = "waitTx" => (Quiet \/ Sending) /\ txEnd = Header + Length /\ access.op = "writeBuf"
    /\ pc = "deselect" => Quiet /\ txEnd = Header + Length /\ (Reads(access) => got = miso)

InOrder ==
    /\ written <= txEnd
    /\ pc # "idle" => txEnd <= Header + Length

SpiInv == SpiTypeOK /\ OnTheLine /\ Sent /\ InOrder /\ Progress

-----------------------------------------------------------------------------
\* The data of an access are a sequence; those of a register are one byte.
LEMMA AccessData ==
    ASSUME NEW a \in Access
    PROVE  /\ a.op \in {"readReg", "writeReg", "readBuf", "writeBuf"}
           /\ a.addr \in Addr
           /\ Len(a.data) \in 1 .. MaxLen
           /\ a.op \in {"readReg", "writeReg"} => Len(a.data) = 1
           /\ \A i \in 1 .. Len(a.data) :
                 IF Reads(a) THEN a.data[i] = Dummy ELSE a.data[i] \in Value
<1>1. \A n \in Nat : \A S : \A f \in [1 .. n -> S] : Len(f) = n
  BY LenProperties, SeqDef
<1>2. MaxLen \in Nat \ {0}
  BY SpiBusAssumption
<1>3. CASE a \in [op : {"readReg"}, addr : Addr, data : [1 .. 1 -> {Dummy}]]
  <2>1. a.op = "readReg" /\ a.addr \in Addr /\ a.data \in [1 .. 1 -> {Dummy}]
    BY <1>3
  <2>2. Len(a.data) = 1
    BY <1>1, <2>1
  <2> QED BY <1>2, <2>1, <2>2 DEF Reads
<1>4. CASE a \in [op : {"writeReg"}, addr : Addr, data : [1 .. 1 -> Value]]
  <2>1. a.op = "writeReg" /\ a.addr \in Addr /\ a.data \in [1 .. 1 -> Value]
    BY <1>4
  <2>2. Len(a.data) = 1
    BY <1>1, <2>1
  <2> QED BY <1>2, <2>1, <2>2 DEF Reads
<1>5. CASE a \in [op : {"readBuf"}, addr : Addr,
                  data : UNION {[1 .. n -> {Dummy}] : n \in 1 .. MaxLen}]
  <2>1. PICK n \in 1 .. MaxLen : a.data \in [1 .. n -> {Dummy}]
    BY <1>5
  <2>2. a.op = "readBuf" /\ a.addr \in Addr
    BY <1>5
  <2>3. Len(a.data) = n
    BY <1>1, <1>2, <2>1
  <2> QED BY <1>2, <2>1, <2>2, <2>3 DEF Reads
<1>6. CASE a \in [op : {"writeBuf"}, addr : Addr,
                  data : UNION {[1 .. n -> Value] : n \in 1 .. MaxLen}]
  <2>1. PICK n \in 1 .. MaxLen : a.data \in [1 .. n -> Value]
    BY <1>6
  <2>2. a.op = "writeBuf" /\ a.addr \in Addr
    BY <1>6
  <2>3. Len(a.data) = n
    BY <1>1, <1>2, <2>1
  <2> QED BY <1>2, <2>1, <2>2, <2>3 DEF Reads
<1> QED BY <1>3, <1>4, <1>5, <1>6 DEF Access

LEMMA SpiInitInv == Init => SpiInv
<1> SUFFICES ASSUME Init PROVE SpiInv
  OBVIOUS
<1>1. <<>> \in Seq(Value) /\ Len(<<>>) = 0
  BY EmptySeq
<1>2. MaxLen \in Nat
  BY SpiBusAssumption
<1> QED BY <1>1, <1>2 DEF SpiInv, SpiTypeOK, OnTheLine, Sent, InOrder, Progress, Quiet,
        InFlight, Init, Header, Reads

LEMMA SpiStepInv == SpiInv /\ [Next]_vars => SpiInv'
<1> SUFFICES ASSUME SpiInv, [Next]_vars PROVE SpiInv'
  OBVIOUS
<1>a. /\ access.op \in {"readReg", "writeReg", "readBuf", "writeBuf"}
      /\ access.addr \in Addr
      /\ Length \in 1 .. MaxLen
      /\ access.op \in {"readReg", "writeReg"} => Length = 1
      /\ \A i \in 1 .. Length :
            IF Reads(access) THEN access.data[i] = Dummy ELSE access.data[i] \in Value
  BY AccessData DEF SpiInv, SpiTypeOK, Length
<1>b. MaxLen \in Nat /\ Junk \notin Value /\ None \notin Value \cup {Dummy, Junk, "hdr"}
  BY SpiBusAssumption
<1>c. \A q \in Seq(Value), v \in Value :
         Append(q, v) \in Seq(Value) /\ Len(Append(q, v)) = Len(q) + 1
  BY AppendProperties
<1>d. \A q \in Seq(Value) : Len(q) \in Nat
  BY LenProperties
<1>e. <<>> \in Seq(Value) /\ Len(<<>>) = 0
  BY EmptySeq
<1> USE DEF Header, Length, Reads, Bursts, BSY, Item, SpiInv, SpiTypeOK, OnTheLine, Sent,
        InOrder, Progress, Quiet, Sending, Polling, Receiving, FirstEnd, InFlight,
        vars, taskVars, halVars, dmaVars, spiVars, chipVars
<1>1. CASE Select
  BY <1>a, <1>b, <1>c, <1>d, <1>e, <1>1 DEF Select
<1>2. CASE SendHeader
  BY <1>a, <1>b, <1>c, <1>d, <1>e, <1>2 DEF SendHeader, HAL_SPI_Transmit_DMA
<1>3. CASE HeaderSent
  BY <1>a, <1>b, <1>c, <1>d, <1>e, <1>3 DEF HeaderSent
<1>4. CASE SendData
  BY <1>a, <1>b, <1>c, <1>d, <1>e, <1>4 DEF SendData, HAL_SPI_Transmit_DMA
<1>5. CASE DataSent
  BY <1>a, <1>b, <1>c, <1>d, <1>e, <1>5 DEF DataSent
<1>6. CASE ReceiveByte
  BY <1>a, <1>b, <1>c, <1>d, <1>e, <1>6 DEF ReceiveByte
<1>7. CASE PollByte
  BY <1>a, <1>b, <1>c, <1>d, <1>e, <1>7 DEF PollByte
<1>8. CASE EndByte
  BY <1>a, <1>b, <1>c, <1>d, <1>e, <1>8 DEF EndByte
<1>9. CASE ReceiveBurst
  BY <1>a, <1>b, <1>c, <1>d, <1>e, <1>9 DEF ReceiveBurst
<1>10. CASE BurstReceived
  BY <1>a, <1>b, <1>c, <1>d, <1>e, <1>10 DEF BurstReceived
<1>11. CASE Deselect
  BY <1>a, <1>b, <1>c, <1>d, <1>e, <1>11 DEF Deselect
<1>12. CASE DmaWrites
  <2>1. /\ written < txEnd /\ tdr = None
        /\ tdr' = Item(written + 1) /\ written' = written + 1
        /\ tcTx' = IF written + 1 = txEnd THEN 1 ELSE tcTx
        /\ UNCHANGED <<taskVars, halVars, txEnd, rxCount, tcRx, shift, rdr, ovr, chipVars>>
    BY <1>12 DEF DmaWrites
  <2>2. pc \in {"waitHeader", "waitRx", "waitTx"} /\ (Sending \/ Receiving)
    BY <2>1
  <2>3. written + 1 \in 1 .. Header + Length
    BY <1>a, <2>1, <2>2
  <2>4. Item(written + 1) \in Value \cup {Dummy, "hdr"}
    <3>1. written + 1 > Header => written + 1 - Header \in 1 .. Length
      BY <1>a, <2>3
    <3>2. written + 1 > Header => Item(written + 1) \in Value \cup {Dummy}
      BY <1>a, <3>1
    <3>3. ~(written + 1 > Header) => Item(written + 1) = "hdr"
      BY <2>3
    <3> QED BY <3>2, <3>3
  <2>5. SpiTypeOK'
    BY <1>a, <1>b, <2>1, <2>3, <2>4
  <2>6. OnTheLine'
    BY <1>b, <2>1, <2>4
  <2>7. Sent' /\ InOrder'
    BY <1>a, <2>1, <2>2
  <2>8. Progress'
    BY <1>a, <1>b, <2>1, <2>2
  <2> QED BY <2>5, <2>6, <2>7, <2>8
<1>13. CASE ShiftStarts
  BY <1>a, <1>b, <1>c, <1>d, <1>e, <1>13 DEF ShiftStarts
<1>14. CASE ShiftEnds
  <2>1. /\ shift # None /\ shift' = None /\ clocked' = clocked + 1
        /\ rxCount > 0 => rdr = None
        /\ rdr' = IF rdr = None THEN Answer ELSE rdr
        /\ ovr' \in {0, 1}
        /\ miso' = IF clocked >= Header /\ Reads(access) THEN Append(miso, Answer) ELSE miso
        /\ mem' = IF clocked >= Header /\ ~Reads(access)
                  THEN [mem EXCEPT ![Place(access, clocked - Header)] = shift] ELSE mem
        /\ UNCHANGED <<taskVars, halVars, dmaVars, tdr, cs>>
    BY <1>14 DEF ShiftEnds
  <2>2. pc \in {"waitHeader", "poll", "waitRx", "waitTx"} /\ ~Quiet
    BY <2>1
  <2>3. clocked + 1 \in 1 .. Header + Length /\ clocked + 1 <= written /\ written <= txEnd
    BY <1>a, <2>1, <2>2
  <2>4. Place(access, clocked - Header) \in Addr
    <3>1. Size \in Nat \ {0} /\ access.addr \in 0 .. Size - 1 /\ clocked \in Nat
      BY <1>a, SpiBusAssumption DEF Addr
    <3> QED BY ONLY <3>1 DEF Place, Addr, Header
  <2>5. /\ clocked < Header => Answer = Junk
        /\ clocked >= Header => Answer \in Value
    BY <2>3, <2>4 DEF Answer
  <2>6. clocked >= Header => shift = access.data[clocked + 1 - Header]
                             /\ (~Reads(access) => shift \in Value)
    <3>1. clocked >= Header => clocked + 1 - Header \in 1 .. Length
      BY <1>a, <2>3
    <3>2. clocked >= Header => shift = access.data[clocked + 1 - Header]
      BY <2>1, <2>3
    <3> QED BY <1>a, <3>1, <3>2
  <2>7. mem' \in [Addr -> Value]
    BY <2>1, <2>4, <2>6
  <2>8. miso' \in Seq(Value) /\ Len(miso') = IF clocked >= Header /\ Reads(access)
                                            THEN Len(miso) + 1 ELSE Len(miso)
    BY <1>c, <2>1, <2>5
  <2>9. SpiTypeOK'
    BY <1>a, <1>b, <2>1, <2>3, <2>5, <2>7, <2>8
  <2>10. OnTheLine'
    BY <1>b, <2>1, <2>3
  <2>11. Sent' /\ InOrder'
    BY <1>a, <2>1, <2>2, <2>3, <2>8
  <2>12. CASE pc \in {"waitHeader", "waitTx"}
    BY <1>a, <2>1, <2>2, <2>9, <2>10, <2>11, <2>12
  <2>13. CASE pc = "poll"
    BY <1>a, <1>b, <2>1, <2>2, <2>3, <2>5, <2>9, <2>10, <2>11, <2>13
  <2>14. CASE pc = "waitRx"
    <3>1. Receiving /\ Reads(access) /\ txEnd = Header + Length
      BY <2>2, <2>14
    <3>2. rdr # None => Len(miso) = Len(got) + 1
      BY <1>c, <3>1
    <3>3. rdr = None
      BY <1>a, <1>d, <2>1, <2>3, <3>1, <3>2
    <3>4. clocked >= Header
      BY <1>a, <2>1, <3>1
    <3>5. Receiving'
      BY <1>b, <2>1, <2>5, <3>1, <3>3, <3>4
    <3> QED BY <2>1, <2>9, <2>10, <2>11, <2>14, <3>1, <3>5
  <2> QED BY <2>2, <2>12, <2>13, <2>14
<1>15. CASE DmaReads
  <2>1. /\ rxCount > 0 /\ rdr # None /\ rdr' = None
        /\ got' = Append(got, rdr) /\ rxCount' = rxCount - 1
        /\ tcRx' = IF rxCount = 1 THEN 1 ELSE tcRx
        /\ UNCHANGED <<pc, access, returned, halVars, written, txEnd, tcTx, tdr, shift, ovr,
                       chipVars>>
    BY <1>15 DEF DmaReads
  <2>2. pc = "waitRx" /\ Receiving /\ Reads(access)
    BY <2>1
  <2>3. got' = miso
    BY <2>1, <2>2
  <2>4. Len(got') = Len(got) + 1
    BY <1>c, <2>1, <2>2, <2>3
  <2>5. SpiTypeOK'
    BY <1>a, <1>b, <1>d, <2>1, <2>2, <2>3, <2>4
  <2>6. OnTheLine' /\ Sent' /\ InOrder'
    BY <2>1, <2>2
  <2>7. Receiving'
    <3>1. rxCount' + Len(got') = Length'
      <4>1. Length' = Length /\ Length \in Nat /\ Len(got) \in Nat /\ rxCount \in Nat
        BY <1>a, <1>b, <1>d, <2>1
      <4>2. rxCount + Len(got) = Length
        BY <2>2
      <4> QED BY ONLY <2>1, <2>4, <4>1, <4>2
    <3>2. tcRx' = 1 <=> rxCount' = 0
      BY <2>1, <2>2
    <3> QED BY <2>1, <2>2, <2>3, <3>1, <3>2
  <2> QED BY <2>1, <2>2, <2>5, <2>6, <2>7
<1>16. CASE DMA1_Channel5_IRQHandler
  BY <1>a, <1>b, <1>c, <1>d, <1>e, <1>16 DEF DMA1_Channel5_IRQHandler, SPI_DMATransmitCplt
<1>17. CASE DMA1_Channel4_IRQHandler
  BY <1>a, <1>b, <1>c, <1>d, <1>e, <1>17 DEF DMA1_Channel4_IRQHandler
<1>18. CASE RegisterChanges
  BY <1>a, <1>b, <1>c, <1>d, <1>e, <1>18 DEF RegisterChanges
<1>19. CASE UNCHANGED vars
  BY <1>a, <1>b, <1>c, <1>d, <1>e, <1>19
<1> QED BY <1>1, <1>2, <1>3, <1>4, <1>5, <1>6, <1>7, <1>8, <1>9, <1>10, <1>11, <1>12, <1>13, <1>14, <1>15, <1>16, <1>17, <1>18, <1>19 DEF Next, taskNet, Hardware, Interrupt

LEMMA SpiInvariant == Spec => []SpiInv
<1>1. Init => SpiInv
  BY SpiInitInv
<1>2. SpiInv /\ [Next]_vars => SpiInv'
  BY SpiStepInv
<1> QED BY <1>1, <1>2, PTL DEF Spec

-----------------------------------------------------------------------------
\* taskNet, the HAL handle, both channels and the bus keep their types, and no
\* byte is received behind the caller's buffer.
THEOREM SpiTypeCorrect == Spec => []SpiTypeOK
<1>1. SpiInv => SpiTypeOK
  BY DEF SpiInv
<1> QED BY <1>1, SpiInvariant, PTL

\* No transfer is refused: whenever taskNet starts one, the state and both
\* channels are ready.
THEOREM SpiNeverRefused == Spec => []NeverRefused
<1>1. SpiInv => NeverRefused
  BY DEF SpiInv, Progress, NeverRefused
<1> QED BY <1>1, SpiInvariant, PTL

\* The chip is deselected when the last byte is on the line, and no byte and no
\* interrupt of a frame is left for the next one.
THEOREM SpiFrameWhole == Spec => []FrameWhole
<1>1. ASSUME SpiInv PROVE FrameWhole
  <2>1. pc \in {"deselect", "idle"} => Quiet
    BY <1>1 DEF SpiInv, Progress
  <2>2. pc = "deselect" => written = Header + Length
    BY <1>1 DEF SpiInv, Progress, Quiet
  <2>3. Quiet => clocked = written
    BY <1>1 DEF SpiInv, OnTheLine, InFlight, Quiet, SpiTypeOK
  <2> QED BY <2>1, <2>2, <2>3 DEF FrameWhole, Quiet, BSY
<1> QED BY <1>1, SpiInvariant, PTL

-----------------------------------------------------------------------------
(* The refinement.                                                         *)

\* A byte that is exchanged behind the header is a byte of the access.
LEMMA ExchangeIsByte ==
    ASSUME SpiInv, ShiftEnds
    PROVE  Chip!AccessNext \/ UNCHANGED Chip!chipAccessVars
<1>a. Length \in 1 .. MaxLen
  BY AccessData DEF SpiInv, SpiTypeOK, Length
<1>b. MaxLen \in Nat
  BY SpiBusAssumption
<1>1. pc # "idle" /\ pc' = pc /\ access' = access /\ returned' = returned /\ shift # None
  BY DEF ShiftEnds, SpiInv, Progress, Quiet, taskVars
<1>2. clocked \in Nat /\ clocked' = clocked + 1 /\ clocked + 1 <= Header + Length
  BY <1>a, <1>b, <1>1 DEF ShiftEnds, SpiInv, SpiTypeOK, OnTheLine, InOrder, InFlight, Header
<1>3. CASE clocked < Header
  BY <1>1, <1>2, <1>3 DEF ShiftEnds, Chip!chipAccessVars, Header
<1>4. CASE clocked >= Header /\ Reads(access)
  <2>1. miso' = Append(miso, mem[Place(access, clocked - Header)]) /\ mem' = mem
    BY <1>2, <1>4 DEF ShiftEnds, Answer, Header
  <2>2. Chip!ReadByte
    BY <1>1, <1>2, <1>4, <2>1 DEF Chip!ReadByte, Chip!Reads, Chip!Place, Reads, Place, Length, Header
  <2> QED BY <2>2 DEF Chip!AccessNext
<1>5. CASE clocked >= Header /\ ~Reads(access)
  <2>1. shift = access.data[clocked - Header + 1]
    BY <1>1, <1>2, <1>5 DEF SpiInv, OnTheLine, Item, Header
  <2>2. mem' = [mem EXCEPT ![Place(access, clocked - Header)] = shift] /\ miso' = miso
    BY <1>2, <1>5 DEF ShiftEnds, Header
  <2>3. (IF clocked > Header THEN clocked - Header ELSE 0) = clocked - Header
    BY <1>2, <1>5 DEF Header
  <2>4. (IF clocked' > Header THEN clocked' - Header ELSE 0) = clocked - Header + 1
    BY <1>2, <1>5 DEF Header
  <2>5. clocked - Header < Len(access.data)
    BY <1>2 DEF Length, Header
  <2>6. Chip!WriteByte
    BY <1>1, <1>5, <2>1, <2>2, <2>3, <2>4, <2>5
    DEF Chip!WriteByte, Chip!Reads, Chip!Place, Reads, Place
  <2> QED BY <2>6 DEF Chip!AccessNext
<1> QED BY <1>2, <1>3, <1>4, <1>5 DEF Header

\* The bytes of an access reach the chip one by one, in order and each once, a
\* read returns what the chip holds and never what came in before it, and a
\* call returns when the last byte was exchanged.
THEOREM SpiImplementsChipAccess == Spec => ImplementsChipAccess
<1>1. Init => Chip!AccessInit
  BY DEF Init, Chip!AccessInit, Addr, Chip!Addr, Header
<1>2. SpiInv /\ [Next]_vars => [Chip!AccessNext]_Chip!chipAccessVars
  <2> SUFFICES ASSUME SpiInv, [Next]_vars
               PROVE  Chip!AccessNext \/ UNCHANGED Chip!chipAccessVars
    OBVIOUS
  <2> USE DEF taskVars, halVars, dmaVars, spiVars, chipVars
  <2>1. CASE Select
    <3>1. pc = "idle" /\ pc' # "idle" /\ access' \in Access /\ clocked' = 0 /\ miso' = <<>>
          /\ UNCHANGED <<mem, returned>>
      BY <2>1 DEF Select
    <3>2. Chip!Call
      BY <3>1 DEF Chip!Call, Header
    <3> QED BY <3>2 DEF Chip!AccessNext
  <2>2. CASE Deselect
    <3>1. /\ Length \in 1 .. MaxLen /\ MaxLen \in Nat
      BY AccessData, SpiBusAssumption DEF SpiInv, SpiTypeOK, Length
    <3>2. /\ pc = "deselect" /\ pc' = "idle"
          /\ returned' = IF Reads(access) THEN got ELSE returned
          /\ UNCHANGED <<access, clocked, miso, mem>>
      BY <2>2 DEF Deselect
    <3>3. clocked = Header + Length /\ (Reads(access) => got = miso)
      BY <3>2 DEF SpiInv, SpiTypeOK, Progress, Quiet, OnTheLine, InFlight
    <3>4. Chip!Return
      BY <3>1, <3>2, <3>3 DEF Chip!Return, Chip!Reads, Reads, Length, Header
    <3> QED BY <3>4 DEF Chip!AccessNext
  <2>3. CASE RegisterChanges
    <3>1. pc = "idle" \/ ~Bursts(access)
      BY <2>3 DEF RegisterChanges, SpiInv, Progress
    <3>2. Chip!RegisterChanges
      BY <2>3, <3>1 DEF RegisterChanges, Chip!RegisterChanges, Bursts, Chip!Bursts, Addr, Chip!Addr
    <3> QED BY <3>2 DEF Chip!AccessNext
  <2>4. CASE ShiftEnds
    BY <2>4, ExchangeIsByte
  <2>5. CASE SendHeader \/ HeaderSent \/ SendData \/ DataSent \/ ReceiveByte \/ PollByte
             \/ EndByte \/ ReceiveBurst \/ BurstReceived
    <3>1. access.op \in {"readReg", "writeReg", "readBuf", "writeBuf"}
      BY AccessData DEF SpiInv, SpiTypeOK
    <3>2. pc # "idle" /\ pc' # "idle" /\ UNCHANGED <<access, returned, clocked, miso, mem>>
      BY <2>5, <3>1 DEF SendHeader, HeaderSent, SendData, DataSent, ReceiveByte, PollByte, EndByte,
         ReceiveBurst, BurstReceived, HAL_SPI_Transmit_DMA
    <3> QED BY <3>2 DEF Chip!chipAccessVars
  <2>6. CASE DmaWrites \/ ShiftStarts \/ DmaReads \/ Interrupt \/ UNCHANGED vars
    <3>1. UNCHANGED <<pc, access, returned, clocked, miso, mem>>
      BY <2>6 DEF DmaWrites, ShiftStarts, DmaReads, Interrupt, DMA1_Channel4_IRQHandler,
         DMA1_Channel5_IRQHandler, vars
    <3> QED BY <3>1 DEF Chip!chipAccessVars
  <2> QED BY <2>1, <2>2, <2>3, <2>4, <2>5, <2>6 DEF Next, taskNet, Hardware
<1> QED BY <1>1, <1>2, SpiInvariant, PTL DEF Spec, ImplementsChipAccess, Chip!AccessSpec
=============================================================================
