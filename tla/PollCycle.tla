------------------------------ MODULE PollCycle ------------------------------
(***************************************************************************)
(* What the RTU master promises to the reader of its registers, without    *)
(* task, interrupt or line: polls follow one another and each has exactly  *)
(* one outcome.  It is answered (the registers may change, no timeout is   *)
(* counted) or lost (one timeout is counted, the registers stay).  Only    *)
(* where answers may be late, one that was answered may be counted as lost *)
(* after all, once.                                                        *)
(***************************************************************************)
EXTENDS Naturals

CONSTANTS
    CntMod,  \* the count of lost polls wraps
    Data,    \* what the registers can be
    Late     \* whether answers may be late

VARIABLES waiting, cnt, code, regs

cycleVars == <<waiting, cnt, code, regs>>

CycleInit ==
    /\ waiting = 0
    /\ cnt = 0
    /\ code = 0
    /\ regs \in Data

Ask ==
    /\ waiting = 0
    /\ waiting' = 1
    /\ UNCHANGED <<cnt, code, regs>>

\* A frame of the right length came: its CRC is right (0) or wrong (3).
\* The registers can only change when the poll before left no error.
Answered ==
    /\ waiting = 1
    /\ waiting' = 0
    /\ code' \in {0, 3}
    /\ regs' \in Data
    /\ code # 0 => regs' = regs
    /\ UNCHANGED cnt

Lost ==
    /\ waiting = 1
    /\ waiting' = 0
    /\ cnt' = (cnt + 1) % CntMod
    /\ code' = 11
    /\ UNCHANGED regs

LostAfterAll ==
    /\ Late
    /\ waiting = 0 /\ code # 11
    /\ cnt' = (cnt + 1) % CntMod
    /\ code' = 11
    /\ UNCHANGED <<waiting, regs>>

CycleNext == Ask \/ Answered \/ Lost \/ LostAfterAll

CycleSpec == CycleInit /\ [][CycleNext]_cycleVars
=============================================================================
