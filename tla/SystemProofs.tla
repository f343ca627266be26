---------------------------- MODULE SystemProofs ----------------------------
(***************************************************************************)
(* The RTU master, its slave and the line are writers as Gateway describes *)
(* them, so all that is proved of Gateway's answers is true of the whole   *)
(* system: for every number of registers, frame length, limit and fault.   *)
(***************************************************************************)
EXTENDS GatewaySystem, RtuProofs

\* What GatewayProofs proves, for the variables of the system.
Answers == INSTANCE GatewayProofs WITH
    mdb_reg_buf <- Len(copied),
    mdbPc <- IF pc \in {"abort", "count"} THEN "giveup"
             ELSE IF pc = "code" THEN "code" ELSE "loop"

CopiesTypeOK == copied \in Seq(Value \cup {NoData, Garbage})

\* A register asked for has been seen as it is now; so a step that writes none
\* changes nothing that is observed.
SeenIsCurrent ==
    /\ seen = [x \in DOMAIN seen |-> seen[x]]
    /\ \A x \in DOMAIN seen : Reader!Source(x) \in seen[x]

SystemInv ==
    /\ RtuInv
    /\ CopiesTypeOK
    /\ BufferIsLastCopy
    /\ mdb_err_cnt <= MaxErr
    /\ SeenIsCurrent

-----------------------------------------------------------------------------
(* The invariant.                                                          *)

\* The system's master is the one RtuProofs is about.
LEMMA MasterSteps == SystemNext \/ UNCHANGED systemVars => [Next]_vars
  BY DEF SystemNext, Write, Read, Interrupt, Poll, Line, Next, systemVars

LEMMA BoundsType == MaxErr \in Nat /\ CntMod \in Nat \ {0} /\ MaxErr < CntMod
  BY GatewaySystemAssumption, RtuMasterAssumption DEF Reader!GatewayAssumption

LEMMA SystemStart == SystemInit => SystemInv
  <1> SUFFICES ASSUME SystemInit PROVE SystemInv
    OBVIOUS
  <1>1. RtuInv
    BY RtuInitInv DEF SystemInit
  <1>2. CopiesTypeOK /\ BufferIsLastCopy
    BY DEF SystemInit, Init, CopiesTypeOK, BufferIsLastCopy
  <1>3. mdb_err_cnt <= MaxErr
    BY BoundsType DEF SystemInit, Init
  <1>4. SeenIsCurrent
    BY DEF SystemInit, Reader!NetInit, SeenIsCurrent
  <1> QED BY <1>1, <1>2, <1>3, <1>4 DEF SystemInv

\* An interrupt that replaces the registers is recorded, with what they are now.
LEMMA InterruptCopies ==
    ASSUME SystemInv, Interrupt
    PROVE  CopiesTypeOK' /\ BufferIsLastCopy' /\ mdb_err_cnt' = mdb_err_cnt
  <1>1. mdb_err_cnt' = mdb_err_cnt
    BY DEF Interrupt, USART1_IRQHandler, taskVars
  <1>2. CASE Completes /\ mdb_err_code = noErr
    <2>1. copied' = Append(copied, mdb_reg_buf') /\ mdb_reg_buf' = Registers(rx')
      BY <1>2 DEF Interrupt, USART1_IRQHandler, HAL_UART_RxCpltCallback
    <2>2. mdb_reg_buf' \in Value \cup {NoData, Garbage}
      BY <2>1, RegistersType
    <2>3. /\ copied' \in Seq(Value \cup {NoData, Garbage}) /\ copied' # <<>>
          /\ Len(copied') = Len(copied) + 1 /\ copied'[Len(copied) + 1] = mdb_reg_buf'
      BY <2>1, <2>2, AppendProperties DEF SystemInv, CopiesTypeOK
    <2> QED BY <1>1, <2>3 DEF CopiesTypeOK, BufferIsLastCopy
  <1>3. CASE ~(Completes /\ mdb_err_code = noErr)
    <2>1. UNCHANGED <<copied, mdb_reg_buf>>
      BY <1>3 DEF Interrupt, USART1_IRQHandler, HAL_UART_RxCpltCallback, shared
    <2> QED BY <1>1, <2>1 DEF SystemInv, CopiesTypeOK, BufferIsLastCopy
  <1> QED BY <1>2, <1>3

\* A timeout is counted below the bound, where the count does not wrap.
LEMMA PollCounts ==
    ASSUME SystemInv, Poll
    PROVE  /\ CopiesTypeOK' /\ BufferIsLastCopy' /\ mdb_err_cnt' <= MaxErr
           /\ CountTimeout => mdb_err_cnt < MaxErr /\ mdb_err_cnt' = mdb_err_cnt + 1
  <1>1. UNCHANGED <<copied, mdb_reg_buf>>
    BY DEF Poll, taskMdbEntry, WaitForAnswer, GiveUp, AbortReceive, CountTimeout, CodeTimeout,
           WaitForScan, StartRequest, TransmitOK, TransmitTimeout, StartReceive, shared
  <1>2. CopiesTypeOK' /\ BufferIsLastCopy'
    BY <1>1 DEF SystemInv, CopiesTypeOK, BufferIsLastCopy
  <1>3. CountTimeout => mdb_err_cnt < MaxErr /\ mdb_err_cnt' = mdb_err_cnt + 1
    <2>1. mdb_err_cnt \in Nat
      BY BoundsType DEF SystemInv, RtuInv, RtuTypeOK
    <2>2. CountTimeout => mdb_err_cnt < MaxErr /\ mdb_err_cnt' = (mdb_err_cnt + 1) % CntMod
      BY DEF Poll, CountTimeout
    <2> QED BY <2>1, <2>2, BoundsType
  <1>4. ~CountTimeout => mdb_err_cnt' = mdb_err_cnt
    BY DEF Poll, taskMdbEntry, WaitForAnswer, GiveUp, AbortReceive, CodeTimeout,
           WaitForScan, StartRequest, TransmitOK, TransmitTimeout, StartReceive
  <1>5. mdb_err_cnt' <= MaxErr
    BY <1>3, <1>4, BoundsType DEF SystemInv, RtuInv, RtuTypeOK
  <1> QED BY <1>2, <1>3, <1>5

LEMMA LineKeeps ==
    ASSUME Line
    PROVE  UNCHANGED <<copied, shared, pc, mdb_err_cnt>>
  BY DEF Line, Slave, SlaveAnswers, SlaveFails, ByteArrives, taskVars

\* What is written is seen from then on, and a request sees what is there.
LEMMA SeenStep ==
    SeenIsCurrent /\ (SystemNext \/ UNCHANGED systemVars) => SeenIsCurrent'
  <1> SUFFICES ASSUME SeenIsCurrent, SystemNext \/ UNCHANGED systemVars PROVE SeenIsCurrent'
    OBVIOUS
  <1>1. CASE Write
    BY <1>1 DEF Write, Reader!Observe, SeenIsCurrent
  <1>2. CASE UNCHANGED <<vars, copied>> /\ Reader!Net
    <2>1. \A x : Reader!Source(x)' = Reader!Source(x)
      BY <1>2 DEF vars, taskVars, shared, Reader!Source, Reader!CntReg, Reader!CodeReg
    <2>2. CASE \E query \in Queries : Reader!Request(query[1], query[2])
      BY <2>1, <2>2 DEF Reader!Request, SeenIsCurrent
    <2>3. CASE Reader!Reply
      BY <2>3 DEF Reader!Reply, SeenIsCurrent
    <2>4. CASE UNCHANGED seen
      BY <2>1, <2>4 DEF SeenIsCurrent
    <2> QED BY <1>2, <2>2, <2>3, <2>4 DEF Reader!Net, Reader!Refresh, Reader!WriteHolding
  <1>3. CASE UNCHANGED systemVars
    <2>1. UNCHANGED seen /\ \A x : Reader!Source(x)' = Reader!Source(x)
      BY <1>3
      DEF systemVars, vars, taskVars, shared, Reader!Source, Reader!CntReg, Reader!CodeReg
    <2> QED BY <2>1 DEF SeenIsCurrent
  <1> QED BY <1>1, <1>2, <1>3 DEF SystemNext, Read

LEMMA SystemStep == SystemInv /\ [SystemNext]_systemVars => SystemInv'
  <1> SUFFICES ASSUME SystemInv, SystemNext \/ UNCHANGED systemVars PROVE SystemInv'
    OBVIOUS
  <1>1. RtuInv'
    BY MasterSteps, RtuStepInv DEF SystemInv
  <1>2. SeenIsCurrent'
    BY SeenStep DEF SystemInv
  <1>3. CopiesTypeOK' /\ BufferIsLastCopy' /\ mdb_err_cnt' <= MaxErr
    <2>1. CASE Interrupt
      BY <2>1, InterruptCopies DEF SystemInv
    <2>2. CASE Poll
      BY <2>2, PollCounts
    <2>3. CASE Line
      BY <2>3, LineKeeps DEF SystemInv, shared, CopiesTypeOK, BufferIsLastCopy
    <2>4. CASE UNCHANGED <<vars, copied>>
      BY <2>4 DEF SystemInv, vars, taskVars, shared, CopiesTypeOK, BufferIsLastCopy
    <2> QED BY <2>1, <2>2, <2>3, <2>4 DEF SystemNext, Write, Read, systemVars
  <1> QED BY <1>1, <1>2, <1>3 DEF SystemInv

LEMMA SystemAlways == SystemSpec => []SystemInv
  BY SystemStart, SystemStep, PTL DEF SystemSpec

-----------------------------------------------------------------------------
(* Refinement.                                                             *)

\* A step that writes no register is none for the reader.
LEMMA NothingWritten ==
    ASSUME SystemInv, Write, UNCHANGED <<copied, mdb_err_cnt, mdb_err_code, mdb_wait_rx_flag>>,
           \/ pc' = pc
           \/ pc \in {"abort", "count"} /\ pc' \in {"abort", "count"}
           \/ {pc, pc'} \cap {"abort", "count", "code"} = {}
    PROVE  UNCHANGED Reader!vars
  <1>1. \A x : Reader!Source(x)' = Reader!Source(x)
    BY DEF Reader!Source
  <1>2. seen' = [x \in DOMAIN seen |-> seen[x] \cup {Reader!Source(x)}]
    BY <1>1 DEF Write, Reader!Observe
  <1>3. \A x \in DOMAIN seen : seen[x] \cup {Reader!Source(x)} = seen[x]
    BY DEF SystemInv, SeenIsCurrent
  <1>4. seen' = seen
    BY <1>2, <1>3 DEF SystemInv, SeenIsCurrent
  <1> QED BY <1>4 DEF Write, readerVars, Reader!vars, Reader!rtuVars, Reader!netVars

\* Only an answer that is waited for ends in the callback, and it leaves no
\* error or a wrong CRC.
LEMMA InterruptRefines ==
    ASSUME SystemInv, Write, Interrupt
    PROVE  [Reader!Next]_Reader!vars
  <1>1. RxState = "BUSY_RX" /\ UNCHANGED <<pc, mdb_err_cnt>>
    BY InterruptKeepsArriving DEF Interrupt, USART1_IRQHandler, taskVars, SystemInv
  <1>2. mdb_wait_rx_flag = 1
    BY <1>1 DEF SystemInv, RtuInv, ReceiverOwned, flagSet
  <1>3. CASE Completes
    <2>1. HAL_UART_RxCpltCallback(rx')
      BY <1>3 DEF Interrupt, USART1_IRQHandler
    <2>2. mdb_wait_rx_flag' = 0
          /\ mdb_err_code' \in {Reader!noErr, Reader!crc_no_corret}
      BY <2>1 DEF HAL_UART_RxCpltCallback, flagReset, noErr, crc_no_corret, Reader!noErr,
                  Reader!crc_no_corret
    <2>3. IF mdb_err_code = Reader!noErr
          THEN Len(copied) < MaxFrames /\ Len(copied)' = Len(copied) + 1
          ELSE UNCHANGED Len(copied)
      <3>1. CASE mdb_err_code = noErr
        <4>1. mdb_reg_buf' \in Value \cup {NoData, Garbage}
          BY <2>1, <3>1, RegistersType DEF HAL_UART_RxCpltCallback
        <4>2. Len(copied) < MaxFrames /\ copied' = Append(copied, mdb_reg_buf')
          BY <1>3, <3>1 DEF Interrupt
        <4> QED BY <3>1, <4>1, <4>2, AppendProperties
                DEF SystemInv, CopiesTypeOK, noErr, Reader!noErr
      <3>2. CASE mdb_err_code # noErr
        BY <3>2 DEF Interrupt, noErr, Reader!noErr
      <3> QED BY <3>1, <3>2
    <2>4. Reader!Observe /\ UNCHANGED Reader!netVars
      BY DEF Write, readerVars, Reader!netVars
    <2>5. Reader!HAL_UART_RxCpltCallback(mdb_err_code')
      BY <1>1, <1>2, <2>2, <2>3, <2>4 DEF Reader!HAL_UART_RxCpltCallback
    <2> QED BY <2>2, <2>5 DEF Reader!Next, Reader!Rtu
  <1>4. CASE ~Completes
    <2>1. UNCHANGED <<copied, mdb_err_code, mdb_wait_rx_flag>>
      BY <1>4 DEF Interrupt, USART1_IRQHandler, shared
    <2> QED BY <1>1, <2>1, NothingWritten
  <1> QED BY <1>3, <1>4

LEMMA PollRefines ==
    ASSUME SystemInv, Write, Poll
    PROVE  [Reader!Next]_Reader!vars
  <1> USE DEF flagReset, flagSet
  <1>0. UNCHANGED copied /\ UNCHANGED Reader!netVars /\ Reader!Observe
    BY DEF Poll, Write, readerVars, Reader!netVars
  <1>1. CASE WaitForAnswer \/ AbortReceive \/ WaitForScan \/ TransmitOK \/ TransmitTimeout
             \/ StartReceive
    <2>1. /\ UNCHANGED <<mdb_err_cnt, mdb_err_code, mdb_wait_rx_flag>>
          /\ \/ pc' = pc
             \/ pc \in {"abort", "count"} /\ pc' \in {"abort", "count"}
             \/ {pc, pc'} \cap {"abort", "count", "code"} = {}
      BY <1>1 DEF WaitForAnswer, AbortReceive, WaitForScan, TransmitOK, TransmitTimeout,
                  StartReceive, shared
    <2> QED BY <1>0, <2>1, NothingWritten
  <1>2. CASE GiveUp \/ StartRequest
    <2>1. UNCHANGED <<mdb_err_cnt, mdb_err_code>> /\ \A x : Reader!Source(x)' = Reader!Source(x)
      BY <1>0, <1>2 DEF GiveUp, StartRequest, shared, Reader!Source
    <2>2. seen' = [x \in DOMAIN seen |-> seen[x] \cup {Reader!Source(x)}]
      BY <1>0, <2>1 DEF Reader!Observe
    <2>3. \A x \in DOMAIN seen : seen[x] \cup {Reader!Source(x)} = seen[x]
      BY DEF SystemInv, SeenIsCurrent
    <2>4. seen' = seen
      BY <2>2, <2>3 DEF SystemInv, SeenIsCurrent
    <2>5. GiveUp => Reader!GiveUp
      BY <1>0, <2>1, <2>4 DEF GiveUp, shared, Reader!GiveUp
    <2>6. StartRequest => Reader!StartRequest
      BY <1>0, <2>1, <2>4 DEF StartRequest, Reader!StartRequest
    <2> QED BY <1>2, <2>5, <2>6 DEF Reader!Next, Reader!Rtu
  <1>3. CASE CountTimeout
    <2>1. mdb_err_cnt < MaxErr /\ mdb_err_cnt' = mdb_err_cnt + 1
      BY <1>3, PollCounts
    <2>2. Reader!CountTimeout
      BY <1>0, <1>3, <2>1 DEF CountTimeout, Reader!CountTimeout
    <2> QED BY <2>2 DEF Reader!Next, Reader!Rtu
  <1>4. CASE CodeTimeout
    <2>1. Reader!CodeTimeout
      BY <1>0, <1>4 DEF CodeTimeout, timeout, Reader!CodeTimeout, Reader!timeout
    <2> QED BY <2>1 DEF Reader!Next, Reader!Rtu
  <1> QED BY <1>1, <1>2, <1>3, <1>4 DEF Poll, taskMdbEntry

LEMMA SystemRefines ==
    SystemInv /\ [SystemNext]_systemVars => [Reader!Next]_Reader!vars
  <1> SUFFICES ASSUME SystemInv, SystemNext \/ UNCHANGED systemVars
               PROVE  [Reader!Next]_Reader!vars
    OBVIOUS
  <1>1. CASE Write /\ Line
    BY <1>1, LineKeeps, NothingWritten DEF shared
  <1>2. CASE Read
    BY <1>2 DEF Read, Reader!Next
  <1>3. CASE UNCHANGED systemVars
    BY <1>3 DEF systemVars, vars, taskVars, shared, readerVars, Reader!vars, Reader!rtuVars,
                Reader!netVars
  <1> QED BY <1>1, <1>2, <1>3, InterruptRefines, PollRefines DEF SystemNext, Write

-----------------------------------------------------------------------------
(* The theorems.                                                           *)

\* Whatever slave, line and clients do, the master writes the registers as
\* Gateway says: a frame is copied whole, only when one is waited for, and
\* errors are counted one by one (freertos.c:347-445).
THEOREM SystemImplementsGateway == SystemSpec => ImplementsGateway
  <1>1. SystemInit => Reader!Init
    BY DEF SystemInit, Init, Reader!Init, Reader!RtuInit, noErr, flagReset, Reader!noErr
  <1>2. SystemInv => BufferIsLastCopy
    BY DEF SystemInv
  <1> QED BY <1>1, <1>2, SystemAlways, SystemRefines, PTL
          DEF SystemSpec, ImplementsGateway, Reader!Spec

\* So what RtuProofs proves of the master is true of it in the system as well.
LEMMA SystemHasMaster == SystemSpec => Spec
  <1>1. SystemInit => Init
    BY DEF SystemInit
  <1> QED BY <1>1, MasterSteps, PTL DEF SystemSpec, Spec

\* The two instances of Gateway are one.
LEMMA SameAssumption == Answers!GatewayAssumption
  <1>1. Answers!Reg = Reader!Reg
    BY DEF Reader!Reg, Answers!Reg
  <1>2. Answers!GatewayAssumption <=> Reader!GatewayAssumption
    BY <1>1 DEF Reader!GatewayAssumption, Answers!GatewayAssumption
  <1>3. Reader!GatewayAssumption
    BY GatewaySystemAssumption
  <1> QED BY <1>2, <1>3

LEMMA SameInit == Reader!Init => Answers!Init
  BY DEF Reader!Init, Reader!RtuInit, Reader!NetInit, Reader!Reg, Reader!noErr,
         Answers!Init, Answers!RtuInit, Answers!NetInit, Answers!Reg, Answers!noErr

LEMMA SameRtu == Reader!Rtu => Answers!Rtu
  BY DEF Reader!Rtu, Reader!StartRequest, Reader!GiveUp, Reader!CountTimeout,
         Reader!CodeTimeout, Reader!HAL_UART_RxCpltCallback, Reader!Observe, Reader!Source,
         Reader!CntReg, Reader!CodeReg, Reader!netVars, Reader!noErr, Reader!timeout,
         Reader!crc_no_corret,
         Answers!Rtu, Answers!StartRequest, Answers!GiveUp, Answers!CountTimeout,
         Answers!CodeTimeout, Answers!HAL_UART_RxCpltCallback, Answers!Observe,
         Answers!Source, Answers!CntReg, Answers!CodeReg, Answers!netVars, Answers!noErr,
         Answers!timeout, Answers!crc_no_corret

LEMMA SameNet == Reader!Net => Answers!Net
  BY DEF Reader!Net, Reader!Request, Reader!Refresh, Reader!Reply, Reader!WriteHolding,
         Reader!AskedFor, Reader!Source, Reader!CntReg, Reader!CodeReg, Reader!rtuVars,
         Reader!Reg,
         Answers!Net, Answers!Request, Answers!Refresh, Answers!Reply, Answers!WriteHolding,
         Answers!AskedFor, Answers!Source, Answers!CntReg, Answers!CodeReg,
         Answers!rtuVars, Answers!Reg

LEMMA SameVars == Reader!vars = Answers!vars /\ (UNCHANGED Answers!vars <=> UNCHANGED Reader!vars)
  BY DEF Reader!vars, Reader!rtuVars, Reader!netVars,
         Answers!vars, Answers!rtuVars, Answers!netVars

LEMMA SameGateway == SystemSpec => Answers!GatewayAssumption /\ Answers!Spec
  <1>1. [Reader!Next]_Reader!vars => [Answers!Next]_Answers!vars
    BY SameRtu, SameNet, SameVars DEF Reader!Next, Answers!Next
  <1> QED BY SameAssumption, SameInit, <1>1, SystemImplementsGateway, PTL
          DEF ImplementsGateway, Reader!Spec, Answers!Spec

\* An answer mixes frames only in the order of the registers, though the slave
\* may answer and the interrupt strike at any time (freertos.c:273, 430).
THEOREM SystemTornForward == SystemSpec => []TornForward
  BY SameGateway, Answers!GatewayTornForward, PTL
     DEF TornForward, Reader!TornForward, Answers!TornForward

\* Every word a client gets was in its register during the request, in the
\* whole system too (freertos.c:269-313).
THEOREM SystemReplyIsRegular == SystemSpec => ReplyIsRegular
  <1> DEFINE Regular == netPc = "refresh" /\ netPc' = "idle" =>
                            \A x \in DOMAIN reply' : reply'[x] \in seen[x]
  <1>1. [Regular]_Answers!vars => [Regular]_Reader!vars
    BY SameVars
  <1> QED BY <1>1, SameGateway, Answers!GatewayReplyIsRegular, PTL
          DEF ReplyIsRegular, Reader!ReplyIsRegular, Answers!ReplyIsRegular

\* No client sees the registers of the slave or the error count go back.
THEOREM SystemNeverBackwards == SystemSpec => NeverBackwards
  <1> DEFINE Forward(code) == \A x \in DOMAIN reply \cap DOMAIN reply' :
                                  x # code => reply[x] <= reply'[x]
  <1>1. [Forward(Answers!CodeReg)]_Answers!vars => [Forward(Reader!CodeReg)]_Reader!vars
    BY SameVars DEF Answers!CodeReg, Reader!CodeReg
  <1> QED BY <1>1, SameGateway, Answers!GatewayNeverBackwards, PTL
          DEF NeverBackwards, Reader!NeverBackwards, Answers!NeverBackwards
=============================================================================
