------------------------------ MODULE WizBuffer ------------------------------
(***************************************************************************)
(* The bytes of one socket in one direction: recv with wiz_recv_data, or   *)
(* send with wiz_send_data.  Chip and driver share a ring.  The driver     *)
(* keeps no pointer: it reads the chip's, adds to it at 16 bits, writes it *)
(* back byte by byte and gives the command with which the chip looks at    *)
(* it.  How much may be moved is a counter of the chip, Sn_RX_RSR or       *)
(* Sn_TX_FSR, which module RegRead16 reads; its bytes are hi and lo.       *)
(***************************************************************************)
EXTENDS RegRead16, Sequences

CONSTANTS
    Mod,     \* pointers have 16 bits, 65536
    Size,    \* of the ring, 2 KB
    MaxLen,  \* bufRxLen and bufTxLen, 260
    Value    \* bytes of the stream

Radix == Top + 1

ASSUME WizBufferAssumption ==
    /\ Size \in Nat \ {0}
    /\ Mod \in Nat /\ Mod <= Radix * Radix
    /\ \E k \in 2 .. Mod : Mod = Size * k
    /\ MaxLen \in 1 .. Size

VARIABLES
    dir,   \* the direction, "rx" or "tx"
    ring,  \* the memory of the chip
    rd,    \* where its oldest byte is: Sn_RX_RD at the last RECV, or Sn_TX_RD
    reg,   \* Sn_RX_RD or Sn_TX_WR
    ptr,   \* the driver's local
    data,  \* wizdata: what a recv has read, or what is to be sent
    step   \* what the driver does next

wizVars == <<vars, dir, ring, rd, reg, ptr, data, step>>

Counter == hi * Radix + lo
Result  == h2 * Radix + l2

Filled == IF dir = "rx" THEN Counter ELSE Size - Counter

\* The 16-bit offset selects a cell by its low bits.
Cell(p) == p % Size

Messages == UNION {[1 .. n -> Value] : n \in 1 .. MaxLen}

Idle == IF dir = "rx" THEN {<<>>} ELSE Messages

\* An open socket: nothing is in the ring, which may start at any pointer.
WizInit ==
    /\ dir \in {"rx", "tx"}
    /\ Init /\ Filled = 0
    /\ rd \in 0 .. Mod - 1 /\ reg = rd
    /\ data \in Idle
    /\ ring \in [0 .. Size - 1 -> Value]
    /\ ptr = 0
    /\ step = "count"

-----------------------------------------------------------------------------
(* The chip and the peer.                                                  *)

PeerSends ==
    /\ dir = "rx" /\ Filled < Size
    /\ Grow /\ Counter' = Counter + 1
    /\ \E v \in Value : ring' = [ring EXCEPT ![Cell(rd + Filled)] = v]
    /\ UNCHANGED <<dir, rd, reg, ptr, data, step>>

PeerTakes ==
    /\ dir = "tx" /\ Filled > 0
    /\ Grow /\ Counter' = Counter + 1
    /\ rd' = (rd + 1) % Mod
    /\ UNCHANGED <<dir, ring, reg, ptr, data, step>>

-----------------------------------------------------------------------------
(* The driver.                                                             *)

ReadCounter ==
    /\ step = "count"
    /\ Read
    /\ UNCHANGED <<dir, ring, rd, reg, ptr, data, step>>

\* recv and send go round in their loops.
Retry ==
    /\ step = "count" /\ pc = "done"
    /\ IF dir = "rx" THEN Result = 0 ELSE Result < Len(data)
    /\ UNCHANGED <<hi, lo, dir, ring, rd, reg, ptr, data, step>>
    /\ Call

\* recv cuts the length to what there is; wiz_recv_data reads the pointer and
\* copies from there.
wiz_recv_data ==
    /\ dir = "rx"
    /\ step = "count" /\ pc = "done" /\ Result > 0
    /\ LET n == IF Result < MaxLen THEN Result ELSE MaxLen
       IN  /\ data' = [i \in 1 .. n |-> ring[Cell(reg + i - 1)]]
           /\ ptr' = (reg + n) % Mod
    /\ step' = "ptrHi"
    /\ UNCHANGED <<vars, dir, ring, rd, reg>>

\* Fault: one byte more than there is room for.
wiz_send_data_full ==
    /\ dir = "tx"
    /\ step = "count" /\ pc = "done" /\ Len(data) <= Result + 1
    /\ ring' = [c \in DOMAIN ring |->
                   IF \E i \in 1 .. Len(data) : c = Cell(reg + i - 1)
                   THEN data[CHOOSE i \in 1 .. Len(data) : c = Cell(reg + i - 1)]
                   ELSE ring[c]]
    /\ ptr' = (reg + Len(data)) % Mod
    /\ step' = "ptrHi"
    /\ UNCHANGED <<vars, dir, rd, reg, data>>

\* send waits until the whole message has room.
wiz_send_data ==
    /\ dir = "tx"
    /\ step = "count" /\ pc = "done" /\ Len(data) <= Result
    /\ ring' = [c \in DOMAIN ring |->
                   IF \E i \in 1 .. Len(data) : c = Cell(reg + i - 1)
                   THEN data[CHOOSE i \in 1 .. Len(data) : c = Cell(reg + i - 1)]
                   ELSE ring[c]]
    /\ ptr' = (reg + Len(data)) % Mod
    /\ step' = "ptrHi"
    /\ UNCHANGED <<vars, dir, rd, reg, data>>

\* setSn_RX_RD and setSn_TX_WR write one byte after the other.
SetPointerHi ==
    /\ step = "ptrHi"
    /\ reg' = (ptr \div Radix) * Radix + (reg % Radix)
    /\ step' = "ptrLo"
    /\ UNCHANGED <<vars, dir, ring, rd, ptr, data>>

\* Fault: only the high byte is written.
SetPointerLoLost ==
    /\ step = "ptrLo"
    /\ step' = "command"
    /\ UNCHANGED <<vars, dir, ring, rd, reg, ptr, data>>

SetPointerLo ==
    /\ step = "ptrLo"
    /\ reg' = (reg \div Radix) * Radix + (ptr % Radix)
    /\ step' = "command"
    /\ UNCHANGED <<vars, dir, ring, rd, ptr, data>>

\* What the command tells the chip is how far the pointer has moved from where
\* it knew it to be.
Known == IF dir = "rx" THEN rd ELSE (rd + Filled) % Mod
Moved == (reg + Mod - Known) % Mod

\* RECV or SEND; the program then reads the counter for the next call.
Command ==
    /\ step = "command"
    /\ Call /\ Counter' = (Counter + Mod - Moved) % Mod
    /\ rd' = IF dir = "rx" THEN reg ELSE rd
    /\ data' \in Idle
    /\ step' = "count"
    /\ UNCHANGED <<dir, ring, reg, ptr>>

\* The socket is not connected any more: it is closed, and opened again.
Reopen ==
    /\ step = "count" /\ pc = "done"
    /\ UNCHANGED <<dir, ring, ptr, step>>
    /\ Call
    /\ Filled' = 0
    /\ rd' \in 0 .. Mod - 1 /\ reg' = rd'
    /\ data' \in Idle

Driver ==
    \/ ReadCounter \/ Retry \/ wiz_recv_data \/ wiz_send_data
    \/ SetPointerHi \/ SetPointerLo \/ Command \/ Reopen

WizNext == PeerSends \/ PeerTakes \/ Driver

WizSpec == WizInit /\ [][WizNext]_wizVars
WizFair == WizSpec /\ WF_wizVars(Driver)

-----------------------------------------------------------------------------
(* Properties.                                                             *)

WizTypeOK ==
    /\ RegReadTypeOK
    /\ dir \in {"rx", "tx"}
    /\ ring \in [0 .. Size - 1 -> Value]
    /\ rd \in 0 .. Mod - 1 /\ ptr \in 0 .. Mod - 1 /\ reg \in 0 .. Radix * Radix - 1
    /\ data \in Messages \cup {<<>>}
    /\ step \in {"count", "ptrHi", "ptrLo", "command"}
    /\ Counter <= Size

-----------------------------------------------------------------------------
(* What it promises: a queue of bytes.                                     *)

Queue == [i \in 1 .. Filled |-> ring[Cell(rd + i - 1)]]

Stream == INSTANCE ByteStream WITH
    queue   <- Queue,
    Message <- Messages

ImplementsByteStream == Stream!StreamSpec
=============================================================================
