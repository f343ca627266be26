------------------------------ MODULE TcpServer ------------------------------
(***************************************************************************)
(* taskNet: it polls its sockets in turn (Eth_f_runTcpSrv), each through   *)
(* the blocking calls of socket.c, and answers Modbus requests in ONE      *)
(* buffer that all sockets share.  Every read of a chip register is a step *)
(* of its own: the network may change the chip between any two of them.    *)
(*                                                                         *)
(* A function that returns an error and what its callers do with it, up to *)
(* the next register read, are one step.  Faults are variants that a bug   *)
(* would make; no specification uses them.                                 *)
(***************************************************************************)
EXTENDS W5500

VARIABLES
    pc,          \* the register read or command taskNet does next
    cur,         \* the socket it is polling
    local,       \* the locals that are live: hi is the first byte of Sn_RX_RSR,
                 \* size what Eth_f_recv reads of it, recvsize what recv reads,
                 \* from tells who called disconnect
    sending,     \* sock_is_sending
    exchange,    \* exchangeState
    buf,         \* modbusBufRxTxTCP: the bytes the parser reads
    failed       \* history: an exchange on this socket was not answered

taskVars == <<pc, cur, local, sending, exchange, buf, failed>>
vars     == <<chipVars, taskVars>>

Nobody == SocCnt  \* the sender of a byte whose connection is gone

NoLocals == [hi |-> 0, size |-> 0, recvsize |-> 0, from |-> "none"]

Locals == [hi : {0, 1}, size : Nat, recvsize : Nat, from : {"none", "closeWait", "recv", "send"}]

ServerTypeOK ==
    /\ ChipTypeOK
    /\ pc \in {"poll", "listen", "rsr", "rsrLo", "recv", "recvLo", "recvSr", "recvFsr",
               "pending", "fsr", "send", "sendIr", "sendFsr", "transmit",
               "discon", "disSr", "disIr", "halt"}
    /\ cur \in Soc
    /\ local \in Locals
    /\ sending \in [Soc -> {0, 1}]
    /\ exchange \in [Soc -> {"idle", "res_inProc"}]
    /\ buf \in [1 .. ReqLen -> [who : Soc \cup {Nobody}, byte : Byte]]
    /\ failed \in [Soc -> {0, 1}]

Init ==
    /\ ChipInit
    /\ pc = "poll"
    /\ cur = 0
    /\ local = NoLocals
    /\ sending = [s \in Soc |-> 0]
    /\ exchange = [s \in Soc |-> "idle"]
    /\ buf = [i \in 1 .. ReqLen |-> [who |-> Nobody, byte |-> "X"]]
    /\ failed = [s \in Soc |-> 0]

\* Fault: the loop over the sockets runs one too far.
NextSocketTooFar ==
    /\ pc' = "poll"
    /\ cur' = (cur + 1) % (SocCnt + 1)
    /\ local' = NoLocals

\* Eth_f_runTcpSrv returns SOCK_OK and taskNet goes on with the next socket.
NextSocket ==
    /\ pc' = "poll"
    /\ cur' = (cur + 1) % SocCnt
    /\ local' = NoLocals

GoTo(label) == pc' = label /\ UNCHANGED cur

Continue(label) == GoTo(label) /\ UNCHANGED local

NotSending == sending' = [sending EXCEPT ![cur] = 0]

\* Eth_f_recv and Eth_f_send disconnect after every error of recv and send.
FailFrom(caller) ==
    /\ GoTo("discon")
    /\ local' = [local EXCEPT !.from = caller]
    /\ failed' = [failed EXCEPT ![cur] = 1]

-----------------------------------------------------------------------------
(* Eth_f_runTcpSrv: the switch on Sn_SR.                                   *)

\* SOCK_CLOSED: socket() closes and opens.  exchangeState stays as it is.
OpenSocket ==
    /\ pc = "poll" /\ sr[cur] = "CLOSED"
    /\ CloseAndOpen(cur)
    /\ NotSending
    /\ NextSocket
    /\ UNCHANGED <<exchange, buf, failed>>

\* Fault: listen() does not wait until the chip has taken the command.
StartListenTooEarly ==
    /\ pc = "poll" /\ sr[cur] = "INIT"
    /\ Continue("listen")
    /\ UNCHANGED <<chipVars, sending, exchange, buf, failed>>

\* SOCK_INIT: listen() gives the command ...
StartListen ==
    /\ pc = "poll" /\ sr[cur] = "INIT"
    /\ Listen(cur)
    /\ Continue("listen")
    /\ UNCHANGED <<sending, exchange, buf, failed>>

\* ... and expects to find SOCK_LISTEN.
ListenOk ==
    /\ pc = "listen" /\ sr[cur] = "LISTEN"
    /\ NextSocket
    /\ UNCHANGED <<chipVars, sending, exchange, buf, failed>>

\* Otherwise it closes the socket and answers SOCKERR_SOCKCLOSED, and taskNet
\* calls Error_Handler, which never returns.
ListenFails ==
    /\ pc = "listen" /\ sr[cur] # "LISTEN"
    /\ Close(cur)
    /\ NotSending
    /\ Continue("halt")
    /\ UNCHANGED <<exchange, buf, failed>>

PollEstablished ==
    /\ pc = "poll" /\ sr[cur] = "ESTABLISHED"
    /\ exchange[cur] = "idle"
    /\ Continue("rsr")
    /\ UNCHANGED <<chipVars, sending, exchange, buf, failed>>

\* state_res_inProc with cbfunc_sendData = NULL, and the statuses the switch
\* leaves alone.
NothingToDo ==
    /\ pc = "poll"
    /\ \/ sr[cur] = "ESTABLISHED" /\ exchange[cur] = "res_inProc"
       \/ sr[cur] \in {"LISTEN", "SYNRECV", "CLOSING"}
    /\ NextSocket
    /\ UNCHANGED <<chipVars, sending, exchange, buf, failed>>

PollCloseWait ==
    /\ pc = "poll" /\ sr[cur] = "CLOSE_WAIT"
    /\ GoTo("discon")
    /\ local' = [local EXCEPT !.from = "closeWait"]
    /\ UNCHANGED <<chipVars, sending, exchange, buf, failed>>

-----------------------------------------------------------------------------
(* Eth_f_recv and recv.                                                    *)

\* getSn_RX_RSR: the high byte comes first.  The chip lets the size grow until
\* the rest is read.
ReadHi(next) ==
    /\ GoTo(next)
    /\ local' = [local EXCEPT !.hi = IF Len(rx[cur]) < Radix THEN 0 ELSE 1]
    /\ UNCHANGED <<chipVars, sending, exchange, buf, failed>>

ReadSizeHi     == pc = "rsr" /\ ReadHi("rsrLo")
ReadRecvSizeHi == pc = "recv" /\ ReadHi("recvLo")

\* What it returns is a size that was there, as it is read twice (RegRead16).
\* But a zero is not: when the high byte was 0 and the size reached a multiple
\* of Radix since then, the low byte makes it a zero.
RSR == {Len(rx[cur])} \cup {v \in {0} : local.hi = 0 /\ Len(rx[cur]) % Radix = 0}

\* Fault: an empty buffer is not noticed.
ReadSizeOfNothing ==
    /\ pc = "rsrLo"
    /\ GoTo("recv")
    /\ \E v \in RSR : local' = [local EXCEPT !.hi = 0, !.size = v]
    /\ UNCHANGED <<chipVars, sending, exchange, buf, failed>>

ReadSize ==
    /\ pc = "rsrLo"
    /\ \E v \in RSR :
           \/ v = 0 /\ NextSocket
           \/ v > 0 /\ GoTo("recv") /\ local' = [local EXCEPT !.hi = 0, !.size = v]
    /\ UNCHANGED <<chipVars, sending, exchange, buf, failed>>

ReadRecvSize ==
    /\ pc = "recvLo"
    /\ \E v \in RSR : local' = [local EXCEPT !.hi = 0, !.recvsize = v]
    /\ GoTo("recvSr")
    /\ UNCHANGED <<chipVars, sending, exchange, buf, failed>>

\* The loop of recv: no data, and the client may still send some.
NoDataYet ==
    /\ pc = "recvSr" /\ sr[cur] = "ESTABLISHED" /\ local.recvsize = 0
    /\ Continue("recv")
    /\ UNCHANGED <<chipVars, sending, exchange, buf, failed>>

\* The client has closed its side: Sn_TX_FSR decides.  (Its high byte is never
\* 0, since at most one answer is on its way: a zero is not read of it.)
NoDataAnymore ==
    /\ pc = "recvSr" /\ sr[cur] = "CLOSE_WAIT" /\ local.recvsize = 0
    /\ Continue("recvFsr")
    /\ UNCHANGED <<chipVars, sending, exchange, buf, failed>>

AnswerOnItsWay ==
    /\ pc = "recvFsr" /\ unacked[cur] > 0
    /\ Continue("recv")
    /\ UNCHANGED <<chipVars, sending, exchange, buf, failed>>

\* SOCKERR_SOCKSTATUS.
NothingOnItsWay ==
    /\ pc = "recvFsr" /\ unacked[cur] = 0
    /\ Close(cur)
    /\ NotSending
    /\ FailFrom("recv")
    /\ UNCHANGED <<exchange, buf>>

\* Fault: the last byte of a request is not copied.
OverlayOneLess(n) ==
    [i \in 1 .. ReqLen |-> IF i < n THEN [who |-> cur, byte |-> rx[cur][i]] ELSE buf[i]]

\* The bytes that are read overwrite the front of the shared buffer; what was
\* behind them stays.
Overlay(n) ==
    [i \in 1 .. ReqLen |-> IF i <= n THEN [who |-> cur, byte |-> rx[cur][i]] ELSE buf[i]]

\* Eth_f_recv takes it for an error when the size changed on the way, or was
\* more than the buffer holds.
TakeData ==
    /\ pc = "recvSr" /\ Connected(cur) /\ local.recvsize > 0
    /\ LET n == IF local.recvsize < BufLen THEN local.recvsize ELSE BufLen
       IN  /\ Recv(cur, n)
           /\ buf' = Overlay(n)
           /\ IF n = local.size THEN Continue("pending") /\ UNCHANGED failed
                                ELSE FailFrom("recv")
    /\ UNCHANGED <<sending, exchange>>

\* SOCKERR_SOCKSTATUS.
RecvFails ==
    /\ pc = "recvSr" /\ ~Connected(cur)
    /\ Close(cur)
    /\ NotSending
    /\ FailFrom("recv")
    /\ UNCHANGED <<exchange, buf>>

-----------------------------------------------------------------------------
(* cbckModbusTcpServer, Eth_f_send and send.                               *)

\* ModbusSS_ParseRxData looks at the first request in the buffer and not at
\* how much of it was received.  Data in the place of unit or function may be
\* taken for it.  The answer is built in place.
Refused == \E i \in UnitFunc : buf[i].byte \in {"X", "D"}
Parsed  == \A i \in UnitFunc : buf[i].byte \in {"F", "D"}

\* Refused: txFrameSize = (uint16_t)-1 is more than bufTxLen, nothing is sent
\* and the exchange stays in process.
ParseRefused ==
    /\ pc = "pending" /\ Refused
    /\ exchange' = [exchange EXCEPT ![cur] = "res_inProc"]
    /\ failed' = [failed EXCEPT ![cur] = 1]
    /\ NextSocket
    /\ UNCHANGED <<chipVars, sending, buf>>

ParseOk ==
    /\ pc = "pending" /\ Parsed
    /\ exchange' = [exchange EXCEPT ![cur] = "res_inProc"]
    /\ Continue("fsr")
    /\ UNCHANGED <<chipVars, sending, buf, failed>>

\* Eth_f_send spins until the answer fits into the transmit buffer.
WaitForRoom ==
    /\ pc = "fsr"
    /\ unacked[cur] < TxMax
    /\ Continue("send")
    /\ UNCHANGED <<chipVars, sending, exchange, buf, failed>>

SendChecksStatus ==
    /\ pc = "send"
    /\ IF ~Connected(cur) THEN FailFrom("send")
       ELSE /\ Continue(IF sending[cur] = 1 THEN "sendIr" ELSE "sendFsr")
            /\ UNCHANGED failed
    /\ UNCHANGED <<chipVars, sending, exchange, buf>>

\* Fault: the interrupt bit is not cleared.
SendokKept ==
    /\ pc = "sendIr" /\ sendok[cur] = 1
    /\ NotSending
    /\ Continue("sendFsr")
    /\ UNCHANGED <<chipVars, exchange, buf, failed>>

SendokSeen ==
    /\ pc = "sendIr" /\ sendok[cur] = 1
    /\ ClearSendok(cur)
    /\ NotSending
    /\ Continue("sendFsr")
    /\ UNCHANGED <<exchange, buf, failed>>

\* SOCKERR_TIMEOUT.
SendTimedOut ==
    /\ pc = "sendIr" /\ sendok[cur] = 0 /\ tmo[cur] = 1
    /\ Close(cur)
    /\ NotSending
    /\ FailFrom("send")
    /\ UNCHANGED <<exchange, buf>>

\* SOCK_BUSY, although the socket is in block mode.
SendBusy ==
    /\ pc = "sendIr" /\ sendok[cur] = 0 /\ tmo[cur] = 0
    /\ FailFrom("send")
    /\ UNCHANGED <<chipVars, sending, exchange, buf>>

SendChecksAgain ==
    /\ pc = "sendFsr"
    /\ \/ /\ Connected(cur)
          /\ Continue("transmit")
          /\ UNCHANGED <<chipVars, sending, failed>>
       \/ /\ ~Connected(cur)
          /\ Close(cur)
          /\ NotSending
          /\ FailFrom("send")
    /\ UNCHANGED <<exchange, buf>>

\* Fault: the exchange is not ended.
TransmitInProcess ==
    /\ pc = "transmit"
    /\ Send(cur)
    /\ sending' = [sending EXCEPT ![cur] = 1]
    /\ NextSocket
    /\ UNCHANGED <<exchange, buf, failed>>

\* The whole frame is sent and txTotalSize is 0: the exchange is over.
Transmit ==
    /\ pc = "transmit"
    /\ Send(cur)
    /\ sending' = [sending EXCEPT ![cur] = 1]
    /\ exchange' = [exchange EXCEPT ![cur] = "idle"]
    /\ NextSocket
    /\ UNCHANGED <<buf, failed>>

-----------------------------------------------------------------------------
(* disconnect, in block mode.                                              *)

\* Fault: the command is missing.
DisconnectInSilence ==
    /\ pc = "discon"
    /\ NotSending
    /\ Continue("disSr")
    /\ UNCHANGED <<chipVars, exchange, buf, failed>>

Disconnect ==
    /\ pc = "discon"
    /\ Discon(cur)
    /\ NotSending
    /\ Continue("disSr")
    /\ UNCHANGED <<exchange, buf, failed>>

Disconnected ==
    /\ pc = "disSr" /\ sr[cur] = "CLOSED"
    /\ NextSocket
    /\ UNCHANGED <<chipVars, sending, exchange, buf, failed>>

NotYetClosed ==
    /\ pc = "disSr" /\ sr[cur] # "CLOSED"
    /\ Continue("disIr")
    /\ UNCHANGED <<chipVars, sending, exchange, buf, failed>>

NoTimeoutYet ==
    /\ pc = "disIr" /\ tmo[cur] = 0
    /\ Continue("disSr")
    /\ UNCHANGED <<chipVars, sending, exchange, buf, failed>>

\* SOCKERR_TIMEOUT: from SOCK_CLOSE_WAIT it reaches taskNet, from Eth_f_recv
\* it becomes a uint16_t greater than 0 and the callback parses what is in the
\* buffer, from Eth_f_send it is dropped.
DisconnectTimedOut ==
    /\ pc = "disIr" /\ tmo[cur] = 1
    /\ Close(cur)
    /\ NotSending
    /\ \/ local.from = "closeWait" /\ Continue("halt")
       \/ local.from = "recv" /\ Continue("pending")
       \/ local.from = "send" /\ NextSocket
    /\ UNCHANGED <<exchange, buf, failed>>

taskNetEntry ==
    \/ OpenSocket \/ StartListen \/ ListenOk \/ ListenFails \/ PollEstablished
    \/ NothingToDo \/ PollCloseWait \/ ReadSizeHi \/ ReadSize \/ ReadRecvSizeHi
    \/ ReadRecvSize \/ NoDataYet \/ NoDataAnymore \/ AnswerOnItsWay \/ NothingOnItsWay
    \/ TakeData \/ RecvFails \/ ParseRefused \/ ParseOk \/ WaitForRoom \/ SendChecksStatus
    \/ SendokSeen \/ SendTimedOut \/ SendBusy \/ SendChecksAgain \/ Transmit \/ Disconnect
    \/ Disconnected \/ NotYetClosed \/ NoTimeoutYet \/ DisconnectTimedOut

-----------------------------------------------------------------------------
(* The network.  A connection starts with Syn: what the buffer holds of    *)
(* the one before it on this socket belongs to nobody.                     *)

Connect(s) ==
    /\ "earlySyn" \in Events \/ pc # "listen" \/ cur # s
    /\ Syn(s)
    /\ buf' = [i \in 1 .. ReqLen |-> IF buf[i].who = s THEN [buf[i] EXCEPT !.who = Nobody]
                                ELSE buf[i]]
    /\ UNCHANGED <<pc, cur, local, sending, exchange, failed>>

Progress(s) == (Established(s) \/ Ack(s) \/ Closed(s)) /\ UNCHANGED taskVars

Choice(s) == (Data(s) \/ Fin(s) \/ Reset(s) \/ Timeout(s)) /\ UNCHANGED taskVars

Network == \E s \in Soc : Connect(s) \/ Progress(s) \/ Choice(s)

Next == taskNetEntry \/ Network

\* The task runs; a handshake, an acknowledgement and a close are completed.
\* Clients are not obliged to do anything else.
Fairness ==
    /\ WF_vars(taskNetEntry)
    /\ \A s \in Soc : WF_vars(Progress(s))

Spec     == Init /\ [][Next]_vars
FairSpec == Spec /\ Fairness

-----------------------------------------------------------------------------
(* Properties.                                                             *)

\* At most one answer of a socket is on its way, so the spin in Eth_f_send
\* for room in the transmit buffer ends at once.
AtMostOneUnacked == \A s \in Soc : unacked[s] <= 1

\* recv finds no data, and goes round in its loop, only if more data has come
\* since Eth_f_recv read the size, and then the high byte is not 0 when it looks
\* again: it never waits for a client.  Eth_f_recv disconnects a client that is
\* connected only then, or if its buffer is too small.
OnlyNewDataDisturbs ==
    [][/\ pc = "recvSr" /\ pc' \in {"recv", "recvFsr"} =>
              Len(rx[cur]) > local.size /\ Len(rx[cur]) >= Radix
       /\ pc \in {"recvSr", "recvFsr"} /\ pc' = "discon" /\ Connected(cur) =>
              Len(rx[cur]) > local.size \/ local.size > BufLen]_vars

\* A socket that is left in state_res_inProc after its turn is never served
\* again (no callback sends the rest).  That needs a failed exchange before.
StuckOnlyAfterFailure ==
    \A s \in Soc : exchange[s] = "res_inProc" => failed[s] = 1 \/ (cur = s /\ pc # "poll")

\* As much of a request as was received for an answer is from the connection
\* that the answer goes to, wherever its segments end: only the bytes behind,
\* which may be those of unit and function, are what others left in the buffer.
ReceivedIsOwn ==
    pc = "transmit" => local.size > 0 /\ \A i \in 1 .. ReqLen : i <= local.size => buf[i].who = cur

\* All the bytes an answer is made from were sent on the connection it goes
\* to.  (It holds as long as requests come in one segment.)
AnswerIsOwn == pc = "transmit" => \A i \in 1 .. ReqLen : buf[i].who = cur

\* taskNet ends up in Error_Handler only by a peer that vanished, or by a client
\* that listen() found connecting where it expected SOCK_LISTEN, and by nothing
\* else two clients do to their own or each other's sockets.
HaltsOnlyForAPeer ==
    [][pc # "halt" /\ pc' = "halt" =>
          tmo[cur] = 1 \/ (pc = "listen" /\ sr[cur] \notin {"INIT", "LISTEN"})]_vars

\* socket.h: SOCK_BUSY is valid only in non-block mode (these are not).
BusyOnlyNonBlock == ~(pc = "sendIr" /\ sendok[cur] = 0 /\ tmo[cur] = 0)

\* On a socket where no exchange failed before, every request is answered, or
\* its connection ends or its exchange fails.
ServedUnlessFailed ==
    \A s \in Soc : (sr[s] = "ESTABLISHED" /\ client[s] = ReqLen /\ failed[s] = 0)
                       ~> (Idle(s) \/ sr[s] # "ESTABLISHED" \/ failed[s] = 1)

\* Every socket is open for a connection, or has one, again and again.
AlwaysReopens == \A s \in Soc : []<>(sr[s] \in {"LISTEN", "ESTABLISHED"})

-----------------------------------------------------------------------------
(* What it promises.                                                       *)

\* The requests that were read and are not yet answered or refused.
InHand(s) == s = cur /\ pc \in {"pending", "fsr", "send", "sendIr", "sendFsr", "transmit"}

\* A connection, until the server decides to disconnect.
Alive(s) == Connected(s) /\ ~(s = cur /\ pc = "discon")

WaitingBytes(s) == Len(rx[s]) + (IF InHand(s) THEN local.size ELSE 0)

Promise == INSTANCE RequestServer WITH
    up       <- [s \in Soc |-> Alive(s)],
    waiting  <- [s \in Soc |-> IF Alive(s) THEN WaitingBytes(s) \div ReqLen ELSE 0],
    onTheWay <- [s \in Soc |-> IF Alive(s) THEN unacked[s] ELSE 0],
    mute     <- [s \in Soc |-> exchange[s] = "res_inProc" /\ ~InHand(s)]

\* No request is answered twice, none of another connection, none after a
\* failure on its socket, and what is read together is answered once.  (It
\* holds as long as requests come in one segment.)
ImplementsRequestServer == Promise!ServerSpec
=============================================================================
