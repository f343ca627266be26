------------------------------ MODULE RegRead16 ------------------------------
(***************************************************************************)
(* Calls of getSn_RX_RSR and getSn_TX_FSR: a counter of 16 bits is read    *)
(* over SPI byte by byte, twice, until both values are the same.  While    *)
(* the driver reads, the chip only lets it grow: data arrives, or data is  *)
(* acknowledged; what makes it smaller (RECV, SEND, OPEN) are commands of  *)
(* the driver.                                                             *)
(***************************************************************************)
EXTENDS Naturals

CONSTANTS Top  \* the largest byte, 255

ASSUME RegReadAssumption == Top \in Nat \ {0}

Byte == 0 .. Top

VARIABLES
    hi, lo,  \* the counter
    h1, l1,  \* val1
    h2, l2,  \* val
    pc,      \* the byte that is read next
    was      \* history: the values the counter has had during the call

vars == <<hi, lo, h1, l1, h2, l2, pc, was>>

Init ==
    /\ hi \in Byte /\ lo \in Byte
    /\ h1 = 0 /\ l1 = 0 /\ h2 = 0 /\ l2 = 0
    /\ pc = "val1Hi"
    /\ was = {<<hi, lo>>}

Grow ==
    /\ hi' \in Byte /\ lo' \in Byte
    /\ hi' > hi \/ (hi' = hi /\ lo' > lo)
    /\ was' = was \cup {<<hi', lo'>>}
    /\ UNCHANGED <<h1, l1, h2, l2, pc>>

ReadVal1Hi ==
    /\ pc = "val1Hi"
    /\ h1' = hi
    /\ pc' = "val1Lo"
    /\ UNCHANGED <<hi, lo, l1, h2, l2, was>>

\* Fault: only the low byte is kept.
ReadVal1LoByte ==
    /\ pc = "val1Lo"
    /\ l1' = lo
    /\ pc' = IF lo # 0 THEN "valHi"
             ELSE IF h2 = 0 /\ l2 = 0 THEN "done" ELSE "val1Hi"
    /\ UNCHANGED <<hi, lo, h1, h2, l2, was>>

\* A zero is not read again: it is compared with what val was before.
ReadVal1Lo ==
    /\ pc = "val1Lo"
    /\ l1' = lo
    /\ pc' = IF h1 # 0 \/ lo # 0 THEN "valHi"
             ELSE IF h2 = 0 /\ l2 = 0 THEN "done" ELSE "val1Hi"
    /\ UNCHANGED <<hi, lo, h1, h2, l2, was>>

\* Fault: the high byte is lost.
ReadValHiLost ==
    /\ pc = "valHi"
    /\ h2' = 0
    /\ pc' = "valLo"
    /\ UNCHANGED <<hi, lo, h1, l1, l2, was>>

ReadValHi ==
    /\ pc = "valHi"
    /\ h2' = hi
    /\ pc' = "valLo"
    /\ UNCHANGED <<hi, lo, h1, l1, l2, was>>

\* Fault: the values are not compared.
ReadValLoOnce ==
    /\ pc = "valLo"
    /\ l2' = lo
    /\ pc' = "done"
    /\ UNCHANGED <<hi, lo, h1, l1, h2, was>>

ReadValLo ==
    /\ pc = "valLo"
    /\ l2' = lo
    /\ pc' = IF h2 = h1 /\ lo = l1 THEN "done" ELSE "val1Hi"
    /\ UNCHANGED <<hi, lo, h1, l1, h2, was>>

Read == ReadVal1Hi \/ ReadVal1Lo \/ ReadValHi \/ ReadValLo

\* The next call; commands of the driver may have changed the counter before it.
Call ==
    /\ pc = "done"
    /\ hi' \in Byte /\ lo' \in Byte
    /\ h1' = 0 /\ l1' = 0 /\ h2' = 0 /\ l2' = 0
    /\ pc' = "val1Hi"
    /\ was' = {<<hi', lo'>>}

Next == Grow \/ Read \/ Call

Spec     == Init /\ [][Next]_vars
FairSpec == Spec /\ WF_vars(Read)

-----------------------------------------------------------------------------
(* Properties.                                                             *)

RegReadTypeOK ==
    /\ hi \in Byte /\ lo \in Byte
    /\ h1 \in Byte /\ l1 \in Byte /\ h2 \in Byte /\ l2 \in Byte
    /\ pc \in {"val1Hi", "val1Lo", "valHi", "valLo", "done"}
    /\ was \subseteq Byte \X Byte

\* What the call returns, if it is not 0, is one value the counter has had
\* during the call, and not the bytes of two.
ResultWasThere ==
    pc = "done" /\ (h2 # 0 \/ l2 # 0) => <<h2, l2>> \in was

\* A 0, which is not verified, was there too, or the high byte changed from 0
\* during the call.
ZeroOnlyAcrossBoundary ==
    pc = "done" /\ h2 = 0 /\ l2 = 0 =>
        <<0, 0>> \in was \/ (hi > 0 /\ \E l \in Byte : <<0, l>> \in was)

\* The loop ends, as the counter cannot grow for ever.
Returns == (pc # "done") ~> (pc = "done")
=============================================================================
