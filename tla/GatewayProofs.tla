---------------------------- MODULE GatewayProofs ----------------------------
(***************************************************************************)
(* What a client can rely on when registers are read without a lock, for   *)
(* every number of registers and every interleaving of the tasks.          *)
(***************************************************************************)
EXTENDS Gateway, TLAPS

\* The registers asked for that the loop has refreshed.
Done == reg .. r - 1

\* What was refreshed was there then, and for frames and the count, which
\* only grow, it is a lower bound of what is there now.
DoneWasSeen ==
    netPc = "refresh" =>
        /\ \A x \in AskedFor : Source(x) \in seen[x]
        /\ \A x \in Done : modbusHoldingBuf[x] \in seen[x]
        /\ \A x \in Done : x # CodeReg => modbusHoldingBuf[x] <= Source(x)

\* The loop goes upwards.
DoneInOrder ==
    netPc = "refresh" =>
        \A x, y \in Done : x < y /\ y <= NReg => modbusHoldingBuf[x] <= modbusHoldingBuf[y]

\* No answer is ahead of its registers, nor of what was refreshed after it.
ReplyIsBehind ==
    /\ \A x \in DOMAIN reply : x # CodeReg => reply[x] <= Source(x)
    /\ netPc = "refresh" =>
           \A x \in DOMAIN reply \cap Done : x # CodeReg => reply[x] <= modbusHoldingBuf[x]

GatewayInv ==
    /\ GatewayAssumption
    /\ GatewayTypeOK
    /\ DoneWasSeen /\ DoneInOrder /\ ReplyIsBehind /\ TornForward

-----------------------------------------------------------------------------
(* The loop.                                                               *)

LEMMA LoopRange ==
    ASSUME GatewayAssumption, LoopTypeOK
    PROVE  /\ AskedFor \subseteq Reg /\ Done \subseteq AskedFor /\ Reg \subseteq Nat
           /\ r \in Nat /\ reg \in Nat /\ quantity \in Nat
  BY DEF GatewayAssumption, LoopTypeOK, AskedFor, Done, Reg

\* A round of the loop adds r to what is done.
LEMMA RefreshRange ==
    ASSUME GatewayAssumption, LoopTypeOK, Refresh
    PROVE  /\ r \in AskedFor /\ Done' = Done \cup {r} /\ r \notin Done
           /\ \A x \in Done : x < r
           /\ LoopTypeOK'
  <1>1. r \in Nat /\ reg \in Nat /\ quantity \in Nat /\ reg <= r /\ r < reg + quantity
    BY LoopRange DEF Refresh, LoopTypeOK
  <1>2. UNCHANGED <<netPc, reg, quantity>> /\ r' = r + 1
    BY DEF Refresh
  <1>3. r \in AskedFor /\ r \notin Done /\ \A x \in Done : x < r
    BY <1>1 DEF AskedFor, Done
  <1>4. Done' = Done \cup {r}
    BY <1>1, <1>2 DEF Done
  <1>5. r' \in reg' .. reg' + quantity'
    BY <1>1, <1>2
  <1> QED BY <1>2, <1>3, <1>4, <1>5 DEF LoopTypeOK

\* At the end of the loop all is done.
LEMMA ReplyRange ==
    ASSUME GatewayAssumption, LoopTypeOK, Reply
    PROVE  Done = AskedFor
  BY LoopRange DEF Reply, Done, AskedFor

\* A request starts the loop.
LEMMA RequestRange ==
    ASSUME GatewayAssumption, NEW query \in Queries, Request(query[1], query[2])
    PROVE  LoopTypeOK' /\ Done' = {}
  <1> DEFINE n == query[1]
             q == query[2]
  <1>1. n \in Reg /\ q \in 0 .. NReg + 2 /\ n \in Nat /\ q \in Nat /\ n + q <= NReg + 3
    BY DEF GatewayAssumption, Request, Reg
  <1>2. reg' = n /\ quantity' = q /\ r' = n /\ netPc' = "refresh"
    BY DEF Request
  <1>3. Done' = {} /\ r' \in reg' .. reg' + quantity'
    BY <1>1, <1>2 DEF Done
  <1> QED BY <1>1, <1>2, <1>3 DEF LoopTypeOK

-----------------------------------------------------------------------------
(* The types.                                                              *)

LEMMA SourceType ==
    ASSUME RegistersTypeOK
    PROVE  \A x : Source(x) \in Nat
  BY DEF RegistersTypeOK, Source, noErr, timeout, crc_no_corret

\* The writers leave the table and the answer alone, what they write is seen,
\* and frames and count only grow.
LEMMA WritersStep ==
    ASSUME RegistersTypeOK, Rtu
    PROVE  /\ UNCHANGED netVars
           /\ Observe \/ UNCHANGED <<seen, mdb_reg_buf, mdb_err_cnt, mdb_err_code>>
           /\ mdb_reg_buf <= mdb_reg_buf' /\ mdb_err_cnt <= mdb_err_cnt'
           /\ RegistersTypeOK'
  <1> USE DEF RegistersTypeOK
  <1>1. CASE StartRequest
    BY <1>1 DEF StartRequest
  <1>2. CASE \E mdb_err \in {noErr, crc_no_corret} : HAL_UART_RxCpltCallback(mdb_err)
    BY <1>2 DEF HAL_UART_RxCpltCallback
  <1>3. CASE GiveUp
    BY <1>3 DEF GiveUp
  <1>4. CASE CountTimeout
    BY <1>4 DEF CountTimeout
  <1>5. CASE CodeTimeout
    BY <1>5 DEF CodeTimeout
  <1> QED BY <1>1, <1>2, <1>3, <1>4, <1>5 DEF Rtu

LEMMA GatewayTypeInv ==
    GatewayAssumption /\ GatewayTypeOK /\ [Next]_vars => GatewayTypeOK'
  <1> SUFFICES ASSUME GatewayAssumption, RegistersTypeOK, LoopTypeOK, TableTypeOK, [Next]_vars
               PROVE  RegistersTypeOK' /\ LoopTypeOK' /\ TableTypeOK'
    BY DEF GatewayTypeOK
  <1>0. UNCHANGED <<netPc, r, reg, quantity>> => LoopTypeOK' /\ AskedFor' = AskedFor
    BY DEF LoopTypeOK, AskedFor
  <1>1. UNCHANGED rtuVars => RegistersTypeOK'
    BY DEF rtuVars, RegistersTypeOK
  <1>2. CASE Rtu
    <2>1. UNCHANGED <<modbusHoldingBuf, netPc, r, reg, quantity, reply>> /\ RegistersTypeOK'
      BY <1>2, WritersStep DEF netVars
    <2>2. DOMAIN seen' = DOMAIN seen
      BY <1>2, WritersStep DEF Observe
    <2> QED BY <1>0, <2>1, <2>2 DEF TableTypeOK
  <1>3. CASE \E query \in Queries : Request(query[1], query[2])
    <2>1. LoopTypeOK'
      BY <1>3, RequestRange
    <2>2. UNCHANGED <<rtuVars, modbusHoldingBuf, reply>> /\ netPc' = "refresh"
          /\ DOMAIN seen' = AskedFor'
      BY <1>3 DEF Request
    <2> QED BY <1>1, <2>1, <2>2 DEF TableTypeOK
  <1>4. CASE Refresh
    <2>1. r \in Reg /\ LoopTypeOK' /\ AskedFor' = AskedFor
      BY <1>4, RefreshRange, LoopRange DEF Refresh, AskedFor
    <2>2. modbusHoldingBuf' \in [Reg -> Nat]
      BY <1>4, <2>1, SourceType DEF TableTypeOK, Refresh
    <2> QED BY <1>1, <1>4, <2>1, <2>2 DEF TableTypeOK, Refresh
  <1>5. CASE Reply
    <2>1. reply' \in [AskedFor -> Nat] /\ DOMAIN reply' = AskedFor
      BY <1>5, LoopRange DEF TableTypeOK, Reply
    <2>2. UNCHANGED <<rtuVars, modbusHoldingBuf, r, reg, quantity>> /\ netPc' = "idle"
          /\ DOMAIN seen' = {}
      BY <1>5 DEF Reply
    <2>3. LoopTypeOK'
      BY <2>2 DEF LoopTypeOK
    <2> QED BY <1>1, <2>1, <2>2, <2>3, LoopRange DEF TableTypeOK
  <1>6. CASE \E x \in Reg, w \in ClientWords : WriteHolding(x, w)
    <2>0. PICK x \in Reg, w \in ClientWords : WriteHolding(x, w)
      BY <1>6
    <2>a. w \in Nat
      BY DEF GatewayAssumption
    <2>1. modbusHoldingBuf' \in [Reg -> Nat]
      BY <2>0, <2>a DEF TableTypeOK, WriteHolding
    <2>2. UNCHANGED <<rtuVars, netPc, r, reg, quantity, reply, seen>>
      BY <1>6 DEF WriteHolding
    <2> QED BY <1>0, <1>1, <2>1, <2>2 DEF TableTypeOK
  <1>7. CASE UNCHANGED vars
    BY <1>0, <1>1, <1>7 DEF vars, netVars, TableTypeOK
  <1> QED BY <1>2, <1>3, <1>4, <1>5, <1>6, <1>7 DEF Next, Net

-----------------------------------------------------------------------------
(* The rest of the invariant.                                              *)

LEMMA SourceGrows ==
    ASSUME RegistersTypeOK, Rtu
    PROVE  \A x : x # CodeReg => Source(x) <= Source(x)'
  <1>1. mdb_reg_buf <= mdb_reg_buf' /\ mdb_err_cnt <= mdb_err_cnt'
    BY WritersStep
  <1> QED BY <1>1 DEF Source

\* The words of the table, the registers and the answer are numbers.
LEMMA WordTypes ==
    ASSUME GatewayAssumption, GatewayTypeOK
    PROVE  /\ \A x \in Reg : modbusHoldingBuf[x] \in Nat
           /\ \A x \in Done : modbusHoldingBuf[x] \in Nat
           /\ \A x \in DOMAIN reply : reply[x] \in Nat
           /\ \A x : Source(x) \in Nat
  BY LoopRange, SourceType DEF GatewayTypeOK, TableTypeOK

LEMMA WritersKeep ==
    ASSUME GatewayInv, Rtu
    PROVE  DoneWasSeen' /\ DoneInOrder' /\ ReplyIsBehind' /\ TornForward'
  <1>1. UNCHANGED <<modbusHoldingBuf, netPc, r, reg, quantity, reply>>
    BY WritersStep DEF netVars, GatewayInv, GatewayTypeOK
  <1>2. Done' = Done /\ AskedFor' = AskedFor
    BY <1>1 DEF Done, AskedFor
  <1>3. DoneInOrder' /\ TornForward'
    BY <1>1, <1>2 DEF GatewayInv, DoneInOrder, TornForward
  <1>4. \A x : x # CodeReg => Source(x) <= Source(x)' /\ Source(x)' \in Nat
    BY SourceGrows, SourceType, WritersStep DEF GatewayInv, GatewayTypeOK, Source, RegistersTypeOK
  <1>5. ReplyIsBehind'
    <2>1. ASSUME NEW x \in DOMAIN reply, x # CodeReg
          PROVE  reply[x] <= Source(x)'
      BY <1>4, <2>1, WordTypes DEF GatewayInv, ReplyIsBehind
    <2> QED BY <1>1, <1>2, <2>1 DEF GatewayInv, ReplyIsBehind
  <1>6. DoneWasSeen'
    <2> SUFFICES ASSUME netPc = "refresh" PROVE DoneWasSeen'
      BY <1>1 DEF DoneWasSeen
    <2>1. DOMAIN seen = AskedFor /\ Done \subseteq AskedFor
      BY LoopRange DEF GatewayInv, GatewayTypeOK, TableTypeOK
    <2>2. \A x \in AskedFor : Source(x)' \in seen'[x] /\ seen[x] \subseteq seen'[x]
      <3>1. CASE Observe
        BY <2>1, <3>1 DEF Observe
      <3>2. CASE UNCHANGED <<seen, mdb_reg_buf, mdb_err_cnt, mdb_err_code>>
        BY <3>2 DEF GatewayInv, DoneWasSeen, Source
      <3> QED BY <3>1, <3>2, WritersStep DEF GatewayInv, GatewayTypeOK
    <2>3. ASSUME NEW x \in Done, x # CodeReg
          PROVE  modbusHoldingBuf[x] <= Source(x)'
      BY <1>4, <2>3, WordTypes DEF GatewayInv, DoneWasSeen
    <2> QED BY <1>1, <1>2, <2>1, <2>2, <2>3 DEF GatewayInv, DoneWasSeen
  <1> QED BY <1>3, <1>5, <1>6

LEMMA RequestKeeps ==
    ASSUME GatewayInv, NEW query \in Queries, Request(query[1], query[2])
    PROVE  DoneWasSeen' /\ DoneInOrder' /\ ReplyIsBehind' /\ TornForward'
  <1>1. UNCHANGED reply /\ Done' = {} /\ \A x : Source(x)' = Source(x)
    BY RequestRange DEF GatewayInv, Request, rtuVars, Source
  <1>2. \A x \in AskedFor' : Source(x)' \in seen'[x]
    BY DEF Request, rtuVars, Source
  <1> QED BY <1>1, <1>2
          DEF GatewayInv, DoneWasSeen, DoneInOrder, ReplyIsBehind, TornForward

\* What is refreshed is what the register has now: not less than anything
\* refreshed or answered before.
LEMMA RefreshKeeps ==
    ASSUME GatewayInv, Refresh
    PROVE  DoneWasSeen' /\ DoneInOrder' /\ ReplyIsBehind' /\ TornForward'
  <1>1. /\ r \in AskedFor /\ Done' = Done \cup {r} /\ r \notin Done
        /\ r \in Reg /\ Done \subseteq Reg /\ Done \subseteq Nat /\ r \in Nat
        /\ \A x \in Done : x < r
    BY RefreshRange, LoopRange DEF GatewayInv, GatewayTypeOK
  <1>2. /\ modbusHoldingBuf' = [modbusHoldingBuf EXCEPT ![r] = Source(r)]
        /\ UNCHANGED <<rtuVars, netPc, reg, quantity, reply, seen>> /\ netPc = "refresh"
    BY DEF Refresh
  <1>3. modbusHoldingBuf'[r] = Source(r) /\ \A x \in Done : modbusHoldingBuf'[x] = modbusHoldingBuf[x]
    BY <1>1, <1>2 DEF GatewayInv, GatewayTypeOK, TableTypeOK
  <1>4. (\A x : Source(x)' = Source(x)) /\ AskedFor' = AskedFor
    BY <1>2 DEF rtuVars, Source, AskedFor
  <1>5. Source(r) \in Nat /\ \A x \in Done : modbusHoldingBuf[x] \in Nat
    BY WordTypes DEF GatewayInv
  <1>6. DoneWasSeen'
    <2>1. Source(r) \in seen[r] /\ Source(r) <= Source(r)
      BY <1>1, <1>2, <1>5 DEF GatewayInv, DoneWasSeen
    <2> QED BY <1>1, <1>2, <1>3, <1>4, <2>1 DEF GatewayInv, DoneWasSeen
  <1>7. DoneInOrder'
    <2> SUFFICES ASSUME NEW x \in Done', NEW y \in Done', x < y, y <= NReg
                 PROVE  modbusHoldingBuf'[x] <= modbusHoldingBuf'[y]
      BY DEF DoneInOrder
    <2>1. x # r
      BY <1>1
    <2>2. x \in Done
      BY <1>1, <2>1
    <2>3. CASE y \in Done
      BY <1>2, <1>3, <2>2, <2>3 DEF GatewayInv, DoneInOrder
    <2>4. CASE y = r
      <3>1. modbusHoldingBuf[x] <= Source(x)
        <4>1. x # CodeReg
          BY <1>1, <2>2 DEF GatewayInv, GatewayAssumption, CodeReg
        <4> QED BY <1>2, <2>2, <4>1 DEF GatewayInv, DoneWasSeen
      <3>2. Source(x) = mdb_reg_buf /\ Source(y) = mdb_reg_buf
        BY <1>1, <2>2 DEF GatewayInv, GatewayAssumption, Source, CntReg, CodeReg
      <3> QED BY <1>3, <2>2, <2>4, <3>1, <3>2
    <2> QED BY <1>1, <2>3, <2>4
  <1>8. ReplyIsBehind'
    <2>1. \A x \in DOMAIN reply : x # CodeReg => reply[x] <= Source(x)
      BY DEF GatewayInv, ReplyIsBehind
    <2>2. \A x \in DOMAIN reply \cap Done : x # CodeReg => reply[x] <= modbusHoldingBuf[x]
      BY <1>2 DEF GatewayInv, ReplyIsBehind
    <2> QED BY <1>1, <1>2, <1>3, <1>4, <2>1, <2>2 DEF ReplyIsBehind
  <1>9. TornForward'
    BY <1>2 DEF GatewayInv, TornForward
  <1> QED BY <1>6, <1>7, <1>8, <1>9

\* When the loop has ended the answer is what was done.
LEMMA ReplyIsDone ==
    ASSUME GatewayInv, Reply
    PROVE  DOMAIN reply' = Done /\ \A x \in Done : reply'[x] = modbusHoldingBuf[x]
  BY ReplyRange DEF GatewayInv, GatewayTypeOK, Reply

LEMMA ReplyKeeps ==
    ASSUME GatewayInv, Reply
    PROVE  DoneWasSeen' /\ DoneInOrder' /\ ReplyIsBehind' /\ TornForward'
  <1>1. netPc = "refresh" /\ netPc' = "idle" /\ \A x : Source(x)' = Source(x)
    BY DEF Reply, rtuVars, Source
  <1>2. DoneWasSeen' /\ DoneInOrder'
    BY <1>1 DEF DoneWasSeen, DoneInOrder
  <1>3. ReplyIsBehind'
    BY <1>1, ReplyIsDone DEF GatewayInv, DoneWasSeen, ReplyIsBehind
  <1>4. TornForward'
    BY <1>1, ReplyIsDone DEF GatewayInv, DoneInOrder, TornForward
  <1> QED BY <1>2, <1>3, <1>4

LEMMA GatewayStep == GatewayInv /\ [Next]_vars => GatewayInv'
  <1> SUFFICES ASSUME GatewayInv, [Next]_vars
               PROVE  DoneWasSeen' /\ DoneInOrder' /\ ReplyIsBehind' /\ TornForward'
    BY GatewayTypeInv DEF GatewayInv
  <1>1. CASE \E x \in Reg, w \in ClientWords : WriteHolding(x, w)
    <2>1. netPc = "idle" /\ netPc' = "idle" /\ UNCHANGED reply /\ \A x : Source(x)' = Source(x)
      BY <1>1 DEF WriteHolding, rtuVars, Source
    <2> QED BY <2>1
            DEF GatewayInv, DoneWasSeen, DoneInOrder, ReplyIsBehind, TornForward
  <1>2. CASE UNCHANGED vars
    <2>1. UNCHANGED <<modbusHoldingBuf, netPc, r, reg, quantity, reply, seen>>
          /\ \A x : Source(x)' = Source(x)
      BY <1>2 DEF vars, rtuVars, netVars, Source
    <2>2. Done' = Done /\ AskedFor' = AskedFor
      BY <2>1 DEF Done, AskedFor
    <2> QED BY <2>1, <2>2
            DEF GatewayInv, DoneWasSeen, DoneInOrder, ReplyIsBehind, TornForward
  <1> QED BY <1>1, <1>2, WritersKeep, RequestKeeps, RefreshKeeps, ReplyKeeps DEF Next, Net

LEMMA GatewayStart == GatewayAssumption /\ Init => GatewayInv
  <1> SUFFICES ASSUME GatewayAssumption, Init PROVE GatewayInv
    OBVIOUS
  <1>1. RegistersTypeOK
    BY DEF Init, RtuInit, RegistersTypeOK, noErr
  <1>2. LoopTypeOK
    BY DEF GatewayAssumption, Init, NetInit, LoopTypeOK, Reg
  <1>3. TableTypeOK
    BY DEF Init, NetInit, TableTypeOK
  <1>4. netPc = "idle" /\ DOMAIN reply = {}
    BY DEF Init, NetInit
  <1> QED BY <1>1, <1>2, <1>3, <1>4
          DEF GatewayInv, GatewayTypeOK, DoneWasSeen, DoneInOrder, ReplyIsBehind, TornForward

LEMMA GatewayAlways == GatewayAssumption /\ Spec => []GatewayInv
  BY GatewayStart, GatewayStep, PTL DEF Spec

-----------------------------------------------------------------------------
(* The theorems.                                                           *)

\* The loop of modbusHoldingReq stays among the registers asked for, and those
\* in the table (freertos.c:269-313).
THEOREM GatewayTypeCorrect == GatewayAssumption /\ Spec => []GatewayTypeOK
  BY GatewayAlways, PTL DEF GatewayInv

\* An answer mixes frames at most in the order of the registers: the loop goes
\* upwards and the interrupt copies whole frames (freertos.c:273, 430).
THEOREM GatewayTornForward == GatewayAssumption /\ Spec => []TornForward
  BY GatewayAlways, PTL DEF GatewayInv

\* No answer holds a word that was not in its register during the request,
\* be it an older one or one a client has written (freertos.c:269-313).
THEOREM GatewayReplyIsRegular == GatewayAssumption /\ Spec => ReplyIsRegular
  <1>1. GatewayInv /\ [Next]_vars =>
            [netPc = "refresh" /\ netPc' = "idle" =>
                 \A x \in DOMAIN reply' : reply'[x] \in seen[x]]_vars
    <2> SUFFICES ASSUME GatewayInv, Next, netPc = "refresh", netPc' = "idle"
                 PROVE  \A x \in DOMAIN reply' : reply'[x] \in seen[x]
      OBVIOUS
    <2>1. Reply
      <3>1. ~ Rtu
        BY WritersStep DEF netVars, GatewayInv, GatewayTypeOK
      <3> QED BY <3>1 DEF Next, Net, Request, Refresh, WriteHolding
    <2> QED BY <2>1, ReplyIsDone DEF GatewayInv, DoneWasSeen
  <1> QED BY <1>1, GatewayAlways, PTL DEF Spec, ReplyIsRegular

\* Two clients, or one that asks twice, never see the registers or the error
\* count go back (as long as the count has not wrapped).
THEOREM GatewayNeverBackwards == GatewayAssumption /\ Spec => NeverBackwards
  <1>1. GatewayInv /\ [Next]_vars =>
            [\A x \in DOMAIN reply \cap DOMAIN reply' :
                 x # CodeReg => reply[x] <= reply'[x]]_vars
    <2> SUFFICES ASSUME GatewayInv, Next,
                        NEW x \in DOMAIN reply, x \in DOMAIN reply', x # CodeReg
                 PROVE  reply[x] <= reply'[x]
      OBVIOUS
    <2>1. CASE Reply
      BY <2>1, ReplyIsDone DEF GatewayInv, ReplyIsBehind, Reply
    <2>2. CASE UNCHANGED reply
      BY <2>2, WordTypes DEF GatewayInv
    <2>3. Reply \/ UNCHANGED reply
      BY WritersStep DEF netVars, GatewayInv, GatewayTypeOK, Next, Net, Request, Refresh, WriteHolding
    <2> QED BY <2>1, <2>2, <2>3
  <1> QED BY <1>1, GatewayAlways, PTL DEF Spec, NeverBackwards
=============================================================================
