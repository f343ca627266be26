----------------------------- MODULE ChipAccess -----------------------------
(***************************************************************************)
(* What the register access of w5500.c promises to its callers, without    *)
(* SPI, DMA or interrupts: the bytes of an access reach the chip one by    *)
(* one and in order, each exactly once, and a call returns when the last   *)
(* one has.  A register may change at any time; a buffer does not while it *)
(* is being read or written, as the driver only touches the part of it     *)
(* that the chip has left to it.                                           *)
(***************************************************************************)
EXTENDS Naturals, Sequences

CONSTANTS
    Size,    \* bytes of the chip's memory
    Value,   \* what a byte can be
    Access   \* records with op, addr and data (of a read, only its length)

VARIABLES
    mem,       \* the memory of the chip
    busy,      \* a call is running
    call,      \* the call that is running, or the last one
    done,      \* bytes of it that are read or written
    result,    \* the bytes that are read
    returned   \* what the last call of a read returned

chipAccessVars == <<mem, busy, call, done, result, returned>>

Addr     == 0 .. Size - 1
Reads(a) == a.op \in {"readReg", "readBuf"}
Bursts(a) == a.op \in {"readBuf", "writeBuf"}
Place(a, k) == (a.addr + k) % Size

AccessInit ==
    /\ mem \in [Addr -> Value]
    /\ busy = FALSE
    /\ call \in Access
    /\ done = 0
    /\ result = <<>>
    /\ returned = <<>>

Call ==
    /\ ~busy
    /\ busy' = TRUE
    /\ call' \in Access
    /\ done' = 0
    /\ result' = <<>>
    /\ UNCHANGED <<mem, returned>>

ReadByte ==
    /\ busy /\ Reads(call) /\ done < Len(call.data)
    /\ result' = Append(result, mem[Place(call, done)])
    /\ done' = done + 1
    /\ UNCHANGED <<mem, busy, call, returned>>

WriteByte ==
    /\ busy /\ ~Reads(call) /\ done < Len(call.data)
    /\ mem' = [mem EXCEPT ![Place(call, done)] = call.data[done + 1]]
    /\ done' = done + 1
    /\ UNCHANGED <<busy, call, result, returned>>

Return ==
    /\ busy /\ done = Len(call.data)
    /\ busy' = FALSE
    /\ returned' = IF Reads(call) THEN result ELSE returned
    /\ UNCHANGED <<mem, call, done, result>>

RegisterChanges ==
    /\ ~(busy /\ Bursts(call))
    /\ \E i \in Addr, v \in Value : mem' = [mem EXCEPT ![i] = v]
    /\ UNCHANGED <<busy, call, done, result, returned>>

AccessNext == Call \/ ReadByte \/ WriteByte \/ Return \/ RegisterChanges

AccessSpec == AccessInit /\ [][AccessNext]_chipAccessVars
=============================================================================
