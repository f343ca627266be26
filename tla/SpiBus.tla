-------------------------------- MODULE SpiBus --------------------------------
(***************************************************************************)
(* One access of taskNet to the W5500 over SPI2: WIZCHIP_READ,             *)
(* WIZCHIP_WRITE, WIZCHIP_READ_BUF and WIZCHIP_WRITE_BUF with the bursts   *)
(* of Eth.c.  A burst starts DMA and polls hspi2.State, which the DMA      *)
(* interrupts change; a single byte is received by polling.                *)
(*                                                                         *)
(* SPI2 is full duplex: every byte that is sent brings one in, wanted or   *)
(* not.  It has a data register to send (tdr), one that was received (rdr, *)
(* with RXNE and OVR) and the byte that is being shifted.  BSY falls when  *)
(* the first and the last of these are empty.                              *)
(*                                                                         *)
(* A frame starts when the chip is selected: three bytes of header with    *)
(* address and mode, then data.  The bytes of a frame are numbered; Item   *)
(* is what the driver wants to send as each of them.                       *)
(***************************************************************************)
EXTENDS Naturals, Sequences

CONSTANTS
    Size,    \* bytes of the chip's memory
    Value,   \* what a byte can be
    MaxLen,  \* bound on the bytes of a burst
    Dummy,   \* what is sent while data is read
    Junk,    \* what the chip sends during the header
    None     \* no byte

ASSUME SpiBusAssumption ==
    /\ Size \in Nat \ {0}
    /\ MaxLen \in Nat \ {0}
    /\ Junk \notin Value
    /\ None \notin Value \cup {Dummy, Junk, "hdr"}

Addr == 0 .. Size - 1

Access ==
    [op : {"readReg"},  addr : Addr, data : [1 .. 1 -> {Dummy}]] \cup
    [op : {"writeReg"}, addr : Addr, data : [1 .. 1 -> Value]] \cup
    [op : {"readBuf"},  addr : Addr, data : UNION {[1 .. n -> {Dummy}] : n \in 1 .. MaxLen}] \cup
    [op : {"writeBuf"}, addr : Addr, data : UNION {[1 .. n -> Value] : n \in 1 .. MaxLen}]

VARIABLES
    pc,         \* what taskNet does next
    access,     \* the access it is in
    got,        \* bytes in the caller's buffer
    returned,   \* what the last read returned
    State,      \* hspi2.State
    hdmatx,     \* hdma_spi2_tx.State
    hdmarx,     \* hdma_spi2_rx.State
    written,    \* bytes of this frame that were written to the data register
    txEnd,      \* the byte up to which DMA channel 5 writes
    rxCount,    \* bytes that DMA channel 4 still reads
    tcTx, tcRx, \* pending interrupts: transfer complete
    tdr, shift, rdr, ovr,  \* SPI2
    cs,         \* the chip is selected
    clocked,    \* bytes of this frame that the chip has seen
    miso,       \* history: the data bytes it has sent in this frame
    mem         \* its memory

taskVars == <<pc, access, got, returned>>
halVars  == <<State, hdmatx, hdmarx>>
dmaVars  == <<written, txEnd, rxCount, tcTx, tcRx>>
spiVars  == <<tdr, shift, rdr, ovr>>
chipVars == <<cs, clocked, miso, mem>>
vars     == <<taskVars, halVars, dmaVars, spiVars, chipVars>>

Reads(a)    == a.op \in {"readReg", "readBuf"}
Bursts(a)   == a.op \in {"readBuf", "writeBuf"}
Place(a, k) == (a.addr + k) % Size
Length      == Len(access.data)
Header      == 3

Item(i) == IF i <= Header THEN "hdr" ELSE access.data[i - Header]

BSY == tdr # None \/ shift # None

SpiTypeOK ==
    /\ pc \in {"idle", "header", "waitHeader", "readByte", "poll", "endByte",
               "readBurst", "waitRx", "writeBurst", "waitTx", "deselect", "halt"}
    /\ access \in Access
    /\ got \in Seq(Value) /\ Len(got) <= MaxLen
    /\ returned \in Seq(Value)
    /\ State \in {"READY", "BUSY_TX", "BUSY_RX"}
    /\ hdmatx \in {"READY", "BUSY"}
    /\ hdmarx \in {"READY", "BUSY"}
    /\ written \in 0 .. Header + MaxLen
    /\ txEnd \in 0 .. Header + MaxLen
    /\ rxCount \in 0 .. MaxLen
    /\ tcTx \in {0, 1}
    /\ tcRx \in {0, 1}
    /\ tdr \in Value \cup {"hdr", Dummy, None}
    /\ shift \in Value \cup {"hdr", Dummy, None}
    /\ rdr \in Value \cup {Junk, None}
    /\ ovr \in {0, 1}
    /\ cs \in {0, 1}
    /\ clocked \in 0 .. Header + MaxLen
    /\ miso \in Seq(Value)
    /\ mem \in [Addr -> Value]

Init ==
    /\ pc = "idle"
    /\ access \in Access
    /\ got = <<>>
    /\ returned = <<>>
    /\ State = "READY" /\ hdmatx = "READY" /\ hdmarx = "READY"
    /\ written = 0 /\ txEnd = 0 /\ rxCount = 0 /\ tcTx = 0 /\ tcRx = 0
    /\ tdr = None /\ shift = None /\ rdr = None /\ ovr = 0
    /\ cs = 1
    /\ clocked = 0
    /\ miso = <<>>
    /\ mem \in [Addr -> Value]

-----------------------------------------------------------------------------
(* taskNet.                                                                *)

Select ==
    /\ pc = "idle"
    /\ access' \in Access
    /\ cs' = 0
    /\ written' = 0 /\ txEnd' = 0 /\ clocked' = 0 /\ miso' = <<>> /\ got' = <<>>
    /\ pc' = "header"
    /\ UNCHANGED <<returned, halVars, rxCount, tcTx, tcRx, spiVars, mem>>

\* HAL_SPI_Transmit_DMA of the bytes of the frame up to end.  When the bus or
\* the channel is busy it answers an error, and Eth.c calls Error_Handler.
HAL_SPI_Transmit_DMA(end, next) ==
    IF State = "READY" /\ hdmatx = "READY"
    THEN /\ State' = "BUSY_TX"
         /\ hdmatx' = "BUSY"
         /\ txEnd' = end
         /\ pc' = next
         /\ UNCHANGED <<hdmarx, written, rxCount, tcTx, tcRx>>
    ELSE pc' = "halt" /\ UNCHANGED <<halVars, dmaVars>>

\* The byte of WIZCHIP_WRITE is part of the first burst.
SendHeader ==
    /\ pc = "header"
    /\ HAL_SPI_Transmit_DMA(IF access.op = "writeReg" THEN Header + 1 ELSE Header, "waitHeader")
    /\ UNCHANGED <<access, got, returned, spiVars, chipVars>>

\* spi_wb_burst polls the state.
HeaderSent ==
    /\ pc = "waitHeader" /\ State # "BUSY_TX"
    /\ pc' = CASE access.op = "readReg"  -> "readByte"
               [] access.op = "writeReg" -> "deselect"
               [] access.op = "readBuf"  -> "readBurst"
               [] access.op = "writeBuf" -> "writeBurst"
    /\ UNCHANGED <<access, got, returned, halVars, dmaVars, spiVars, chipVars>>

SendData ==
    /\ pc = "writeBurst"
    /\ HAL_SPI_Transmit_DMA(Header + Length, "waitTx")
    /\ UNCHANGED <<access, got, returned, spiVars, chipVars>>

DataSent ==
    /\ pc = "waitTx" /\ State # "BUSY_TX"
    /\ pc' = "deselect"
    /\ UNCHANGED <<access, got, returned, halVars, dmaVars, spiVars, chipVars>>

\* HAL_SPI_Receive (by HAL_SPI_TransmitReceive) writes its one byte at once ...
ReceiveByte ==
    /\ pc = "readByte"
    /\ State' = "BUSY_RX"
    /\ tdr' = Item(written + 1)
    /\ written' = written + 1 /\ txEnd' = written + 1
    /\ pc' = "poll"
    /\ UNCHANGED <<access, got, returned, hdmatx, hdmarx, rxCount, tcTx, tcRx,
                   shift, rdr, ovr, chipVars>>

\* ... reads what comes in ...
PollByte ==
    /\ pc = "poll" /\ rdr # None
    /\ got' = Append(got, rdr)
    /\ rdr' = None
    /\ pc' = "endByte"
    /\ UNCHANGED <<access, returned, halVars, dmaVars, tdr, shift, ovr, chipVars>>

\* Fault: an early return leaves the bus busy.
EndByteKeepsBusy ==
    /\ pc = "endByte" /\ ~BSY
    /\ rdr' = None /\ ovr' = 0
    /\ pc' = "deselect"
    /\ UNCHANGED <<access, got, returned, halVars, dmaVars, tdr, shift, chipVars>>

\* ... and waits for BSY.
EndByte ==
    /\ pc = "endByte" /\ ~BSY
    /\ State' = "READY"
    /\ rdr' = None /\ ovr' = 0
    /\ pc' = "deselect"
    /\ UNCHANGED <<access, got, returned, hdmatx, hdmarx, dmaVars, tdr, shift, chipVars>>

\* Fault: a byte too many is asked for.
ReceiveBurstOneMore ==
    /\ pc = "readBurst"
    /\ State' = "BUSY_RX"
    /\ hdmatx' = "BUSY" /\ hdmarx' = "BUSY"
    /\ rxCount' = Length + 1
    /\ txEnd' = Header + Length + 1
    /\ pc' = "waitRx"
    /\ UNCHANGED <<access, got, returned, written, tcTx, tcRx, spiVars, chipVars>>

\* HAL_SPI_Receive_DMA (by HAL_SPI_TransmitReceive_DMA) starts both channels,
\* the receiving one first, and does not look at the state.
ReceiveBurst ==
    /\ pc = "readBurst"
    /\ IF hdmarx = "READY" THEN hdmarx' = "BUSY" /\ rxCount' = Length
                           ELSE UNCHANGED <<hdmarx, rxCount>>
    /\ IF hdmarx = "READY" /\ hdmatx = "READY"
       THEN State' = "BUSY_RX" /\ hdmatx' = "BUSY" /\ txEnd' = Header + Length /\ pc' = "waitRx"
       ELSE State' = "READY" /\ pc' = "halt" /\ UNCHANGED <<hdmatx, txEnd>>
    /\ UNCHANGED <<access, got, returned, written, tcTx, tcRx, spiVars, chipVars>>

BurstReceived ==
    /\ pc = "waitRx" /\ State # "BUSY_RX"
    /\ pc' = "deselect"
    /\ UNCHANGED <<access, got, returned, halVars, dmaVars, spiVars, chipVars>>

Deselect ==
    /\ pc = "deselect"
    /\ cs' = 1
    /\ returned' = IF Reads(access) THEN got ELSE returned
    /\ pc' = "idle"
    /\ UNCHANGED <<access, got, halVars, dmaVars, spiVars, clocked, miso, mem>>

taskNet ==
    \/ Select \/ SendHeader \/ HeaderSent \/ SendData \/ DataSent \/ ReceiveByte
    \/ PollByte \/ EndByte \/ ReceiveBurst \/ BurstReceived \/ Deselect

-----------------------------------------------------------------------------
(* DMA1 and SPI2.                                                          *)

\* Channel 5 fills the data register.
DmaWrites ==
    /\ written < txEnd /\ tdr = None
    /\ tdr' = Item(written + 1)
    /\ written' = written + 1
    /\ tcTx' = IF written + 1 = txEnd THEN 1 ELSE tcTx
    /\ UNCHANGED <<taskVars, halVars, txEnd, rxCount, tcRx, shift, rdr, ovr, chipVars>>

ShiftStarts ==
    /\ shift = None /\ tdr # None
    /\ shift' = tdr
    /\ tdr' = None
    /\ UNCHANGED <<taskVars, halVars, dmaVars, rdr, ovr, chipVars>>

\* What the chip sends while byte clocked + 1 of the frame is shifted.
Answer ==
    IF clocked < Header THEN Junk ELSE mem[Place(access, clocked - Header)]

\* A byte is exchanged.  Channel 4 has always read the one before: a byte
\* takes 32 cycles of the bus.  Otherwise an unread byte stays, and OVR is set.
ShiftEnds ==
    /\ shift # None
    /\ rxCount > 0 => rdr = None
    /\ shift' = None
    /\ IF rdr = None THEN rdr' = Answer /\ UNCHANGED ovr
                     ELSE ovr' = 1 /\ UNCHANGED rdr
    /\ clocked' = clocked + 1
    /\ IF clocked < Header THEN UNCHANGED <<mem, miso>>
       ELSE IF Reads(access) THEN miso' = Append(miso, Answer) /\ UNCHANGED mem
       ELSE /\ mem' = [mem EXCEPT ![Place(access, clocked - Header)] = shift]
            /\ UNCHANGED miso
    /\ UNCHANGED <<taskVars, halVars, dmaVars, tdr, cs>>

\* Channel 4 empties it.
DmaReads ==
    /\ rxCount > 0 /\ rdr # None
    /\ got' = Append(got, rdr)
    /\ rdr' = None
    /\ rxCount' = rxCount - 1
    /\ tcRx' = IF rxCount = 1 THEN 1 ELSE tcRx
    /\ UNCHANGED <<pc, access, returned, halVars, written, txEnd, tcTx, tdr, shift, ovr, chipVars>>

Hardware == DmaWrites \/ ShiftStarts \/ ShiftEnds \/ DmaReads

-----------------------------------------------------------------------------
(* The interrupts.  A handler waits for BSY, and the task waits for it.    *)

\* Fault: the overrun, and with it the unread byte, is not cleared.
TransmitCpltKeepsOverrun ==
    /\ ~BSY
    /\ State' = "READY"
    /\ UNCHANGED <<rdr, ovr>>

\* Fault: BSY is not waited for.
TransmitCpltTooEarly ==
    /\ State' = "READY"
    /\ rdr' = None /\ ovr' = 0

SPI_DMATransmitCplt ==
    /\ ~BSY
    /\ State' = "READY"
    /\ rdr' = None /\ ovr' = 0

\* Channel 5 has a callback only when HAL_SPI_Transmit_DMA has set one.
DMA1_Channel5_IRQHandler ==
    /\ tcTx = 1 /\ tcRx = 0
    /\ tcTx' = 0
    /\ hdmatx' = "READY"
    /\ IF State = "BUSY_TX" THEN SPI_DMATransmitCplt ELSE UNCHANGED <<State, rdr, ovr>>
    /\ UNCHANGED <<taskVars, hdmarx, written, txEnd, rxCount, tcRx, tdr, shift, chipVars>>

\* Fault: channel 5 has a lower priority, and the task may run before it.
Channel4Alone ==
    /\ tcRx = 1
    /\ tcRx' = 0
    /\ hdmarx' = "READY"
    /\ ~BSY
    /\ State' = "READY"
    /\ UNCHANGED <<taskVars, hdmatx, written, txEnd, rxCount, tcTx, spiVars, chipVars>>

\* SPI_DMAReceiveCplt.  Both channels have the same priority: when channel 5
\* is pending it is served next, before the task goes on.
DMA1_Channel4_IRQHandler ==
    /\ tcRx = 1
    /\ tcRx' = 0 /\ tcTx' = 0
    /\ hdmarx' = "READY"
    /\ hdmatx' = IF tcTx = 1 THEN "READY" ELSE hdmatx
    /\ ~BSY
    /\ State' = "READY"
    /\ UNCHANGED <<taskVars, written, txEnd, rxCount, spiVars, chipVars>>

Interrupt == DMA1_Channel5_IRQHandler \/ DMA1_Channel4_IRQHandler

RegisterChanges ==
    /\ pc \in {"idle", "halt"} \/ ~Bursts(access)
    /\ \E i \in Addr, v \in Value : mem' = [mem EXCEPT ![i] = v]
    /\ UNCHANGED <<taskVars, halVars, dmaVars, spiVars, cs, clocked, miso>>

-----------------------------------------------------------------------------
Next == taskNet \/ Hardware \/ Interrupt \/ RegisterChanges

\* The task runs, the hardware moves bytes, pending interrupts are taken.
Fairness == WF_vars(taskNet) /\ WF_vars(Hardware) /\ WF_vars(Interrupt)

Spec     == Init /\ [][Next]_vars
FairSpec == Spec /\ Fairness

-----------------------------------------------------------------------------
(* Properties.                                                             *)

\* No transfer is refused because the one before is not quite over (State is
\* set before both channels are), so Error_Handler is not reached.
NeverRefused == pc # "halt"

\* The chip is deselected, and the next frame starts, only when the last byte
\* is on the line: hspi2.State tells the truth about the bus.
FrameWhole ==
    pc \in {"deselect", "idle"} => ~BSY /\ tcTx = 0 /\ tcRx = 0 /\ rdr = None
    /\ (pc = "deselect" => clocked = Header + Length)

\* What comes in during a header is never taken for data, and what a read
\* returns are the bytes of the chip's memory at the address, in order; a
\* write changes these bytes and no others.
Chip == INSTANCE ChipAccess WITH
    busy   <- pc # "idle",
    call   <- access,
    done   <- IF clocked > Header THEN clocked - Header ELSE 0,
    result <- miso

ImplementsChipAccess == Chip!AccessSpec

\* Every access returns.
AccessReturns == (pc # "idle") ~> (pc = "idle")
=============================================================================
