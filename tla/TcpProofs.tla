------------------------------ MODULE TcpProofs ------------------------------
(***************************************************************************)
(* The safety of the TCP server, for every number of sockets, size of the  *)
(* buffers and behaviour of the clients and the network.                   *)
(***************************************************************************)
EXTENDS TcpServer, SequenceTheorems, TLAPS

\* What is read from a receive buffer, and what is put into it.
LEMMA TakenFromBuffer ==
    ASSUME NEW q \in Seq(Byte), NEW n \in Nat, n <= Len(q)
    PROVE  /\ SubSeq(q, n + 1, Len(q)) \in Seq(Byte)
           /\ \A i \in 1 .. n : q[i] \in Byte
  <1>1. \A i \in 1 .. Len(q) : q[i] \in Byte
    OBVIOUS
  <1>2. \A i \in n + 1 .. Len(q) : q[i] \in Byte
    BY <1>1
  <1> QED BY <1>1, <1>2, SubSeqProperties

\* The chip keeps its types whatever the driver commands.
LEMMA CommandsType ==
    ASSUME ChipTypeOK, NEW s \in Soc,
           Close(s) \/ CloseAndOpen(s) \/ Listen(s) \/ Discon(s) \/ Send(s) \/ ClearSendok(s)
    PROVE  ChipTypeOK'
  <1> USE DEF ChipTypeOK
  <1>1. CASE Close(s)
    BY <1>1 DEF Close
  <1>2. CASE CloseAndOpen(s)
    BY <1>2 DEF CloseAndOpen
  <1>3. CASE Listen(s)
    BY <1>3 DEF Listen
  <1>4. CASE Discon(s)
    BY <1>4 DEF Discon
  <1>5. CASE Send(s)
    BY <1>5 DEF Send
  <1>6. CASE ClearSendok(s)
    BY <1>6 DEF ClearSendok
  <1> QED BY <1>1, <1>2, <1>3, <1>4, <1>5, <1>6

LEMMA RecvType ==
    ASSUME ChipTypeOK, NEW s \in Soc, NEW n \in Nat, n <= Len(rx[s]), Recv(s, n)
    PROVE  ChipTypeOK'
  <1>1. SubSeq(rx[s], n + 1, Len(rx[s])) \in Seq(Byte)
    BY TakenFromBuffer DEF ChipTypeOK
  <1> QED BY <1>1 DEF ChipTypeOK, Recv

\* A request, and the segments it may be cut into.
LEMMA SegmentsOfRequests ==
    ASSUME NEW h \in {"F", "X"}, NEW from \in 0 .. ReqLen - 1, NEW to \in 1 .. ReqLen, from < to
    PROVE  /\ SubSeq(Request(h), from + 1, to) \in Seq(Byte)
           /\ Len(SubSeq(Request(h), from + 1, to)) = to - from
  <1>1. ReqLen \in Nat
    BY W5500Assumption
  <1>2. Request(h) \in Seq(Byte) /\ Len(Request(h)) = ReqLen
    BY <1>1 DEF Request, Byte
  <1>3. \A i \in from + 1 .. to : Request(h)[i] \in Byte
    BY <1>1 DEF Request, Byte
  <1> QED BY <1>1, <1>2, <1>3, SubSeqProperties

\* Data is appended to what is there, without fragments a whole request.
LEMMA DataArrives ==
    ASSUME ChipTypeOK, NEW s \in Soc, Data(s)
    PROVE  /\ UNCHANGED <<sr, sendok, tmo, unacked>> /\ sr[s] = "ESTABLISHED"
           /\ client' \in [Soc -> 0 .. ReqLen]
           /\ \E q \in Seq(Byte) :
                  /\ rx' = [rx EXCEPT ![s] = q] /\ Len(rx[s]) <= Len(q)
                  /\ "fragment" \notin Events => Len(q) = Len(rx[s]) + ReqLen
  <1>0. rx[s] \in Seq(Byte) /\ client \in [Soc -> 0 .. ReqLen] /\ ReqLen \in Nat
    BY W5500Assumption DEF ChipTypeOK
  <1>1. PICK h \in {"F", "X"}, from \in 0 .. ReqLen - 1, to \in 1 .. ReqLen :
            /\ from < to
            /\ "fragment" \in Events \/ (from = 0 /\ to = ReqLen)
            /\ Arrive(s, SubSeq(Request(h), from + 1, to))
            /\ client' = [client EXCEPT ![s] = to]
    BY DEF Data
  <1>2. PICK d \in Seq(Byte) : d = SubSeq(Request(h), from + 1, to) /\ Len(d) = to - from
    BY <1>1, SegmentsOfRequests
  <1>3. PICK q \in Seq(Byte) : q = rx[s] \o d /\ Len(q) = Len(rx[s]) + Len(d)
    BY <1>0, <1>2, ConcatProperties
  <1>4. /\ UNCHANGED <<sr, sendok, tmo, unacked>> /\ sr[s] = "ESTABLISHED"
        /\ rx' = [rx EXCEPT ![s] = q]
    BY <1>1, <1>2, <1>3 DEF Arrive
  <1>5. client' \in [Soc -> 0 .. ReqLen]
    BY <1>0, <1>1
  <1>6. Len(q) = Len(rx[s]) + (to - from)
    BY <1>2, <1>3
  <1>7. Len(rx[s]) <= Len(q) /\ ("fragment" \notin Events => Len(q) = Len(rx[s]) + ReqLen)
    <2>1. Len(rx[s]) \in Nat /\ to - from \in Nat
      BY <1>0, <1>1
    <2>2. "fragment" \notin Events => to - from = ReqLen
      BY <1>0, <1>1
    <2> QED BY <1>6, <2>1, <2>2
  <1> QED BY <1>4, <1>5, <1>7

\* It keeps them whatever the network does.
LEMMA EventsType ==
    ASSUME ChipTypeOK, NEW s \in Soc,
           Syn(s) \/ Established(s) \/ Ack(s) \/ Closed(s)
               \/ Data(s) \/ Fin(s) \/ Reset(s) \/ Timeout(s)
    PROVE  ChipTypeOK'
  <1> USE DEF ChipTypeOK
  <1>0. 0 \in 0 .. ReqLen
    BY W5500Assumption
  <1>1. CASE Syn(s) \/ Established(s) \/ Closed(s) \/ Fin(s) \/ Reset(s) \/ Timeout(s)
    BY <1>0, <1>1 DEF Syn, Established, Closed, Fin, Reset, Timeout
  <1>2. CASE Ack(s)
    BY <1>0, <1>2 DEF Ack
  <1>3. CASE Data(s)
    <2>1. PICK q \in Seq(Byte) : rx' = [rx EXCEPT ![s] = q]
      BY <1>3, DataArrives
    <2>2. UNCHANGED <<sr, sendok, tmo, unacked>> /\ client' \in [Soc -> 0 .. ReqLen]
      BY <1>3, DataArrives
    <2> QED BY <2>1, <2>2
  <1> QED BY <1>1, <1>2, <1>3

-----------------------------------------------------------------------------
(* The inductive invariant.                                                *)

\* Only the driver takes data out of a receive buffer, so what it has read of
\* Sn_RX_RSR is a lower bound until it uses it.  recv reads a zero only when
\* more has come, as the high byte was 0 for what Eth_f_recv has read.
SizesAreLowerBounds ==
    /\ pc \in {"recv", "recvLo", "recvSr", "recvFsr"} =>
           0 < local.size /\ local.size <= Len(rx[cur])
    /\ pc = "recvLo" /\ local.hi = 0 => local.size < Radix
    /\ pc = "recvSr" =>
           \/ local.size <= local.recvsize /\ local.recvsize <= Len(rx[cur])
           \/ local.recvsize = 0 /\ local.size < Len(rx[cur]) /\ Radix <= Len(rx[cur])
    /\ pc = "recvFsr" => local.size < Len(rx[cur])

\* Behind a successful listen, the socket is connected, closing or closed.
InConversation ==
    /\ pc \notin {"poll", "listen"} =>
           sr[cur] \in {"ESTABLISHED", "CLOSE_WAIT", "CLOSING", "CLOSED"}
    /\ pc \in {"disSr", "disIr"} => sr[cur] \in {"CLOSING", "CLOSED"}

\* While a connection lasts, data on its way has been sent with
\* sock_is_sending, and SENDOK comes with its acknowledgement.
SendIsTracked ==
    /\ \A s \in Soc :
        /\ unacked[s] <= 1
        /\ sr[s] \in {"INIT", "LISTEN", "SYNRECV"} => unacked[s] = 0 /\ sendok[s] = 0
        /\ Connected(s) /\ unacked[s] = 1 => sending[s] = 1 /\ sendok[s] = 0
        /\ Connected(s) /\ sendok[s] = 1 => sending[s] = 1
    /\ pc \in {"sendFsr", "transmit"} => sending[cur] = 0

\* An exchange is in process while its answer is being sent, or has failed.
ExchangeInProcess ==
    \A s \in Soc : exchange[s] = "res_inProc" /\ failed[s] = 0 =>
        cur = s /\ pc \in {"fsr", "send", "sendIr", "sendFsr", "transmit"}

\* From the moment data is read to the end of the turn, as much of the buffer
\* as was received belongs to the socket being polled, unless that was closed.
ReceivedOwn ==
    /\ pc \in {"pending", "fsr", "send", "sendIr", "sendFsr", "transmit"} => local.size > 0
    /\ pc \in {"discon", "disSr", "disIr"} /\ local.from = "recv" => local.size > 0
    /\ \A i \in 1 .. ReqLen : i <= local.size =>
           /\ pc \in {"pending", "fsr", "send", "sendIr", "sendFsr", "transmit"} =>
                  buf[i].who = cur
           /\ pc \in {"discon", "disSr", "disIr"} /\ local.from = "recv" =>
                  buf[i].who = cur \/ (sr[cur] = "CLOSED" /\ pc # "disIr")

TcpInv ==
    /\ ServerTypeOK
    /\ SizesAreLowerBounds
    /\ InConversation
    /\ SendIsTracked
    /\ ExchangeInProcess
    /\ ReceivedOwn

\* When requests come in one segment there are only whole requests in the
\* receive buffers, except when one was cut and its connection is given up.
Whole(n) == \E k \in Nat : n = k * ReqLen

WholeRequests ==
    /\ \A s \in Soc : sr[s] \notin {"CLOSING", "CLOSED"} /\ ~(s = cur /\ pc = "discon") =>
           Whole(Len(rx[s]))
    /\ pc \in {"rsr", "rsrLo"} => Whole(Len(rx[cur]))
    /\ Whole(local.size)

WholeInv == TcpInv /\ WholeRequests

-----------------------------------------------------------------------------
(* The types.                                                              *)

LEMMA NextSocketType ==
    ASSUME cur \in Soc, NextSocket
    PROVE  pc' = "poll" /\ cur' \in Soc /\ local' = NoLocals
  BY W5500Assumption DEF NextSocket, Soc

\* What is copied into the buffer.
LEMMA OverlayType ==
    ASSUME ServerTypeOK, NEW n \in Nat, n <= Len(rx[cur])
    PROVE  /\ Overlay(n) \in [1 .. ReqLen -> [who : Soc \cup {Nobody}, byte : Byte]]
           /\ \A i \in 1 .. ReqLen : i <= n => Overlay(n)[i].who = cur
  <1>1. rx[cur] \in Seq(Byte)
    BY DEF ServerTypeOK, ChipTypeOK
  <1>2. \A i \in 1 .. n : rx[cur][i] \in Byte
    BY <1>1, TakenFromBuffer
  <1> QED BY <1>2 DEF Overlay, ServerTypeOK

\* What a read of Sn_RX_RSR may return.
LEMMA SizeRead ==
    ASSUME ServerTypeOK, NEW v \in RSR
    PROVE  /\ v \in Nat
           /\ \/ v = Len(rx[cur])
              \/ v = 0 /\ local.hi = 0 /\ Radix <= Len(rx[cur])
  <1>1. rx[cur] \in Seq(Byte) /\ Len(rx[cur]) \in Nat
    BY DEF ServerTypeOK, ChipTypeOK
  <1>2. Radix \in Nat \ {0}
    BY W5500Assumption
  <1>3. v = Len(rx[cur]) \/ (v = 0 /\ local.hi = 0 /\ Len(rx[cur]) % Radix = 0)
    BY DEF RSR
  <1>4. ASSUME NEW l \in Nat, l % Radix = 0, l > 0 PROVE Radix <= l
    BY <1>2, <1>4
  <1> QED BY <1>1, <1>3, <1>4

\* Eth_f_recv goes on with a size that is there, or with the next socket.
LEMMA SizeTaken ==
    ASSUME ServerTypeOK, ReadSize
    PROVE  /\ pc = "rsrLo"
           /\ UNCHANGED <<sr, sendok, tmo, rx, unacked, client, sending, exchange, buf, failed>>
           /\ \/ NextSocket
              \/ /\ pc' = "recv" /\ cur' = cur /\ Len(rx[cur]) > 0
                 /\ local' = [local EXCEPT !.hi = 0, !.size = Len(rx[cur])]
  <1>1. PICK v \in RSR : \/ v = 0 /\ NextSocket
                         \/ v > 0 /\ GoTo("recv") /\ local' = [local EXCEPT !.hi = 0, !.size = v]
    BY DEF ReadSize
  <1>2. v > 0 => v = Len(rx[cur])
    BY SizeRead
  <1> QED BY <1>1, <1>2 DEF ReadSize, GoTo, chipVars

\* The steps that look at a register and change nothing but pc and the locals.
Looks ==
    ReadSizeHi \/ ReadRecvSizeHi \/ ReadRecvSize \/ NoDataYet \/ NoDataAnymore \/ AnswerOnItsWay

LEMMA LooksOnly ==
    ASSUME ServerTypeOK, Looks
    PROVE  /\ UNCHANGED <<sr, sendok, tmo, rx, unacked, client>>
           /\ UNCHANGED <<cur, sending, exchange, buf, failed>>
           /\ local' \in Locals /\ local'.size = local.size /\ local'.from = local.from
           /\ \/ pc = "rsr" /\ pc' = "rsrLo"
              \/ /\ pc \in {"recv", "recvLo", "recvSr", "recvFsr"}
                 /\ pc' \in {"recv", "recvLo", "recvSr", "recvFsr"}
  <1>0. local \in Locals
    BY DEF ServerTypeOK
  <1>1. CASE ReadSizeHi \/ ReadRecvSizeHi
    BY <1>0, <1>1 DEF ReadSizeHi, ReadRecvSizeHi, ReadHi, GoTo, chipVars, Locals
  <1>2. CASE ReadRecvSize
    <2>1. PICK v \in RSR : local' = [local EXCEPT !.hi = 0, !.recvsize = v]
      BY <1>2 DEF ReadRecvSize
    <2>2. v \in Nat
      BY SizeRead
    <2> QED BY <1>0, <1>2, <2>1, <2>2 DEF ReadRecvSize, GoTo, chipVars, Locals
  <1>3. CASE NoDataYet \/ NoDataAnymore \/ AnswerOnItsWay
    BY <1>0, <1>3 DEF NoDataYet, NoDataAnymore, AnswerOnItsWay, Continue, GoTo, chipVars
  <1> QED BY <1>1, <1>2, <1>3 DEF Looks

LEMMA TypeInv == ServerTypeOK /\ SizesAreLowerBounds /\ [Next]_vars => ServerTypeOK'
  <1> SUFFICES ASSUME ServerTypeOK, SizesAreLowerBounds, [Next]_vars PROVE ServerTypeOK'
    OBVIOUS
  <1>0. ChipTypeOK /\ cur \in Soc
    BY DEF ServerTypeOK
  <1>1. UNCHANGED chipVars => ChipTypeOK'
    BY <1>0 DEF chipVars, ChipTypeOK
  <1>2. CASE OpenSocket \/ ListenOk \/ NothingToDo \/ ParseRefused \/ Transmit \/ Disconnected
    <2>1. ChipTypeOK'
      BY <1>0, <1>1, <1>2, CommandsType
      DEF OpenSocket, ListenOk, NothingToDo, ParseRefused, Transmit, Disconnected
    <2>2. NextSocket
      BY <1>2 DEF OpenSocket, ListenOk, NothingToDo, ParseRefused, Transmit, Disconnected
    <2>3. pc' = "poll" /\ cur' \in Soc /\ local' \in Locals
      BY <2>2, NextSocketType, <1>0 DEF NoLocals, Locals
    <2> QED
      BY <1>2, <2>1, <2>3
      DEF OpenSocket, ListenOk, NothingToDo, ParseRefused, Transmit, Disconnected,
          NotSending, ServerTypeOK
  <1>3. CASE StartListen \/ ListenFails \/ PollEstablished \/ PollCloseWait
    <2>1. ChipTypeOK'
      BY <1>0, <1>1, <1>3, CommandsType
      DEF StartListen, ListenFails, PollEstablished, PollCloseWait
    <2> QED
      BY <1>3, <2>1
      DEF StartListen, ListenFails, PollEstablished, PollCloseWait,
          Continue, GoTo, NotSending, ServerTypeOK, Locals
  <1>4. CASE Looks \/ ReadSize
    <2>1. UNCHANGED <<sr, sendok, tmo, rx, unacked, client, sending, exchange, buf, failed>>
      BY <1>4, LooksOnly, SizeTaken
    <2>2. cur' \in Soc /\ local' \in Locals
          /\ pc' \in {"poll", "rsrLo", "recv", "recvLo", "recvSr", "recvFsr"}
      <3>1. CASE Looks
        BY <1>0, <3>1, LooksOnly
      <3>2. CASE ReadSize
        <4>1. Len(rx[cur]) \in Nat /\ local \in Locals
          BY <1>0 DEF ChipTypeOK, ServerTypeOK
        <4>2. NoLocals \in Locals
          BY DEF NoLocals, Locals
        <4> QED BY <1>0, <3>2, <4>1, <4>2, SizeTaken, NextSocketType DEF Locals
      <3> QED BY <1>4, <3>1, <3>2
    <2> QED BY <1>1, <2>1, <2>2 DEF ServerTypeOK, chipVars
  <1>5. CASE TakeData
    <2> DEFINE n == IF local.recvsize < BufLen THEN local.recvsize ELSE BufLen
    <2>1. n \in Nat /\ n <= Len(rx[cur])
      BY <1>5, W5500Assumption DEF TakeData, SizesAreLowerBounds, ServerTypeOK, ChipTypeOK, Locals
    <2>2. Recv(cur, n) /\ buf' = Overlay(n)
      BY <1>5 DEF TakeData
    <2>3. ChipTypeOK' /\ buf' \in [1 .. ReqLen -> [who : Soc \cup {Nobody}, byte : Byte]]
      BY <1>0, <2>1, <2>2, RecvType, OverlayType
    <2> QED BY <1>5, <2>3 DEF TakeData, Continue, FailFrom, GoTo, ServerTypeOK, Locals
  <1>6. CASE NothingOnItsWay \/ RecvFails \/ ParseOk \/ WaitForRoom
    <2>1. ChipTypeOK'
      BY <1>0, <1>1, <1>6, CommandsType DEF NothingOnItsWay, RecvFails, ParseOk, WaitForRoom
    <2> QED
      BY <1>6, <2>1
      DEF Locals, NothingOnItsWay, RecvFails, ParseOk, WaitForRoom, Continue, FailFrom,
          GoTo, NotSending, ServerTypeOK
  <1>7. CASE SendChecksStatus \/ SendokSeen \/ SendTimedOut \/ SendBusy \/ SendChecksAgain
    <2>1. ChipTypeOK'
      BY <1>0, <1>1, <1>7, CommandsType
      DEF SendChecksStatus, SendokSeen, SendTimedOut, SendBusy, SendChecksAgain
    <2> QED
      BY <1>7, <2>1
      DEF SendChecksStatus, SendokSeen, SendTimedOut, SendBusy, SendChecksAgain,
          Continue, FailFrom, GoTo, NotSending, ServerTypeOK, Locals
  <1>8. CASE Disconnect \/ NotYetClosed \/ NoTimeoutYet
    <2>1. ChipTypeOK'
      BY <1>0, <1>1, <1>8, CommandsType DEF Disconnect, NotYetClosed, NoTimeoutYet
    <2> QED
      BY <1>8, <2>1
      DEF Disconnect, NotYetClosed, NoTimeoutYet, Continue, GoTo, NotSending, ServerTypeOK
  <1>9. CASE DisconnectTimedOut
    <2>1. ChipTypeOK'
      BY <1>0, <1>9, CommandsType DEF DisconnectTimedOut
    <2>2. pc' \in {"halt", "pending", "poll"} /\ cur' \in Soc
              /\ local' \in Locals
      BY <1>0, <1>9, NextSocketType
      DEF DisconnectTimedOut, Continue, GoTo, NoLocals, Locals, ServerTypeOK
    <2> QED BY <1>9, <2>1, <2>2 DEF DisconnectTimedOut, NotSending, ServerTypeOK
  <1>10. CASE \E s \in Soc : Progress(s) \/ Choice(s)
    <2>1. ChipTypeOK'
      BY <1>0, <1>10, EventsType DEF Progress, Choice
    <2> QED BY <1>10, <2>1 DEF Progress, Choice, taskVars, ServerTypeOK
  <1>11. CASE \E s \in Soc : Connect(s)
    <2>1. ChipTypeOK'
      BY <1>0, <1>11, EventsType DEF Connect
    <2>2. buf' \in [1 .. ReqLen -> [who : Soc \cup {Nobody}, byte : Byte]]
      BY <1>11 DEF Connect, ServerTypeOK
    <2> QED BY <1>11, <2>1, <2>2 DEF Connect, ServerTypeOK
  <1>12. CASE UNCHANGED vars
    BY <1>1, <1>12 DEF vars, taskVars, ServerTypeOK
  <1> QED
    BY <1>2, <1>3, <1>4, <1>5, <1>6, <1>7, <1>8, <1>9, <1>10, <1>11, <1>12
    DEF Next, taskNetEntry, Looks, Network

-----------------------------------------------------------------------------
(* What the network leaves alone.                                          *)

\* Data in a receive buffer stays there until the driver takes it.
LEMMA NetworkKeepsData ==
    ASSUME ServerTypeOK, Network
    PROVE  Len(rx[cur]) <= Len(rx[cur])' /\ UNCHANGED <<pc, cur, local>>
  <1> USE DEF ServerTypeOK, ChipTypeOK
  <1>1. PICK s \in Soc : Connect(s) \/ Progress(s) \/ Choice(s)
    BY DEF Network
  <1>2. UNCHANGED <<pc, cur, local>>
    BY <1>1 DEF Connect, Progress, Choice, taskVars
  <1>3. CASE Data(s)
    <2>1. PICK q \in Seq(Byte) : rx' = [rx EXCEPT ![s] = q] /\ Len(rx[s]) <= Len(q)
      BY <1>3, DataArrives
    <2>2. Len(rx[cur]) <= Len(rx'[cur])
      BY <2>1
    <2> QED BY <1>2, <2>2
  <1>4. CASE ~Data(s)
    <2>1. UNCHANGED rx
      BY <1>1, <1>4
      DEF Connect, Syn, Progress, Established, Ack, Closed, Choice, Fin, Reset, Timeout
    <2> QED BY <1>2, <2>1
  <1> QED BY <1>3, <1>4

\* The invariant about the sizes: one step per way to read a register.
LEMMA SizesInv == ServerTypeOK /\ SizesAreLowerBounds /\ [Next]_vars => SizesAreLowerBounds'
  <1> SUFFICES ASSUME ServerTypeOK, SizesAreLowerBounds, [Next]_vars
               PROVE  SizesAreLowerBounds'
    OBVIOUS
  <1> USE DEF SizesAreLowerBounds
  <1>0. local \in Locals /\ cur \in Soc /\ rx[cur] \in Seq(Byte) /\ Len(rx[cur]) \in Nat
            /\ Radix \in Nat \ {0}
    BY W5500Assumption DEF ServerTypeOK, ChipTypeOK
  <1>1. CASE ReadSize
    <2>1. rx' = rx /\ (pc' = "poll" \/ (pc' = "recv" /\ cur' = cur /\ Len(rx[cur]) > 0
                                          /\ local'.size = Len(rx[cur])))
      BY <1>0, <1>1, SizeTaken DEF NextSocket, Locals
    <2> QED BY <1>0, <2>1
  <1>2. CASE ReadSizeHi \/ NoDataYet \/ AnswerOnItsWay
    <2>1. UNCHANGED <<rx, cur>> /\ local'.size = local.size
      BY <1>2, LooksOnly DEF Looks
    <2>2. \/ pc' = "rsrLo"
          \/ pc \in {"recvSr", "recvFsr"} /\ pc' = "recv"
      BY <1>2 DEF ReadSizeHi, ReadHi, NoDataYet, AnswerOnItsWay, Continue, GoTo
    <2> QED BY <2>1, <2>2
  <1>3. CASE ReadRecvSizeHi
    <2>1. UNCHANGED <<rx, cur>> /\ local'.size = local.size
      BY <1>3, LooksOnly DEF Looks
    <2>2. pc = "recv" /\ pc' = "recvLo" /\ (local'.hi = 0 => Len(rx[cur]) < Radix)
      BY <1>0, <1>3 DEF ReadRecvSizeHi, ReadHi, GoTo, Locals
    <2> QED BY <1>0, <2>1, <2>2 DEF Locals
  <1>4. CASE ReadRecvSize
    <2>1. PICK v \in RSR : local' = [local EXCEPT !.hi = 0, !.recvsize = v]
      BY <1>4 DEF ReadRecvSize
    <2>2. UNCHANGED <<rx, cur>> /\ pc = "recvLo" /\ pc' = "recvSr"
          /\ local'.size = local.size /\ local'.recvsize = v
      BY <1>0, <1>4, <2>1 DEF ReadRecvSize, GoTo, chipVars, Locals
    <2>3. v = Len(rx[cur]) \/ (v = 0 /\ local.hi = 0 /\ Radix <= Len(rx[cur]))
      BY SizeRead
    <2> QED BY <1>0, <2>2, <2>3 DEF Locals
  <1>5. CASE NoDataAnymore
    <2>1. UNCHANGED <<rx, cur, local>> /\ pc = "recvSr" /\ pc' = "recvFsr" /\ local.recvsize = 0
      BY <1>5 DEF NoDataAnymore, Continue, GoTo, chipVars
    <2> QED BY <1>0, <2>1 DEF Locals
  <1>6. CASE taskNetEntry /\ ~Looks /\ ~ReadSize
    <2>1. pc' \notin {"recv", "recvLo", "recvSr", "recvFsr"}
      BY <1>6
      DEF taskNetEntry, Looks, OpenSocket, StartListen, ListenOk, ListenFails, PollEstablished,
          NothingToDo, PollCloseWait, NothingOnItsWay, TakeData, RecvFails, ParseRefused,
          ParseOk, WaitForRoom, SendChecksStatus, SendokSeen, SendTimedOut, SendBusy,
          SendChecksAgain, Transmit, Disconnect, Disconnected, NotYetClosed, NoTimeoutYet,
          DisconnectTimedOut, NextSocket, Continue, GoTo, FailFrom
    <2> QED BY <2>1
  <1>7. CASE Network
    <2>1. Len(rx[cur]) <= Len(rx'[cur]) /\ pc' = pc /\ cur' = cur /\ local' = local
      BY <1>7, NetworkKeepsData
    <2>2. rx'[cur] \in Seq(Byte) /\ Len(rx'[cur]) \in Nat
      BY <1>0, <2>1, TypeInv DEF ServerTypeOK, ChipTypeOK
    <2> QED BY <1>0, <2>1, <2>2 DEF Locals
  <1>8. CASE UNCHANGED vars
    BY <1>8 DEF vars, chipVars, taskVars
  <1> QED BY <1>1, <1>2, <1>3, <1>4, <1>5, <1>6, <1>7, <1>8 DEF Next, Looks

\* The statuses a socket goes through during its turn.
LEMMA ConversationInv == ServerTypeOK /\ InConversation /\ [Next]_vars => InConversation'
  <1> SUFFICES ASSUME ServerTypeOK, InConversation, [Next]_vars
               PROVE  InConversation'
    OBVIOUS
  <1> USE DEF InConversation
  <1>0. sr \in [Soc -> {"CLOSED", "INIT", "LISTEN", "SYNRECV", "ESTABLISHED",
                        "CLOSE_WAIT", "CLOSING"}] /\ cur \in Soc
    BY DEF ServerTypeOK, ChipTypeOK
  <1>1. CASE OpenSocket \/ StartListen \/ ListenOk \/ NothingToDo \/ Transmit \/ Disconnected
             \/ ParseRefused
    <2>1. pc' \in {"poll", "listen"}
      BY <1>1
      DEF OpenSocket, StartListen, ListenOk, NothingToDo, Transmit, Disconnected, ParseRefused,
          NextSocket, Continue, GoTo
    <2> QED BY <2>1
  <1>2. CASE ListenFails \/ NothingOnItsWay \/ RecvFails \/ SendTimedOut \/ DisconnectTimedOut
    BY <1>0, <1>2
    DEF ListenFails, NothingOnItsWay, RecvFails, SendTimedOut, DisconnectTimedOut, Close,
        NextSocket, Continue, GoTo, FailFrom
  <1>3. CASE PollEstablished \/ PollCloseWait \/ ParseOk \/ WaitForRoom
             \/ SendChecksStatus \/ SendBusy \/ NotYetClosed \/ NoTimeoutYet
    BY <1>0, <1>3
    DEF PollEstablished, PollCloseWait, ParseOk, WaitForRoom, SendChecksStatus, SendBusy,
        NotYetClosed, NoTimeoutYet, chipVars, NextSocket, Continue, GoTo, FailFrom
  <1>4. CASE TakeData \/ SendokSeen
    BY <1>0, <1>4
    DEF TakeData, SendokSeen, Recv, ClearSendok, Continue, GoTo, FailFrom
  <1>5. CASE SendChecksAgain
    BY <1>0, <1>5 DEF SendChecksAgain, Close, chipVars, Continue, GoTo, FailFrom
  <1>6. CASE Disconnect
    BY <1>0, <1>6 DEF Disconnect, Discon, Connected, Continue, GoTo
  <1>7. CASE Network
    <2>1. PICK s \in Soc : Connect(s) \/ Progress(s) \/ Choice(s)
      BY <1>7 DEF Network
    <2>2. UNCHANGED <<pc, cur>>
      BY <2>1 DEF Connect, Progress, Choice, taskVars
    <2>3. sr[cur] = "CLOSED" => sr'[cur] = "CLOSED"
      BY <1>0, <2>1
      DEF Connect, Syn, Progress, Established, Ack, Closed, Choice, Data, Arrive, Fin, Reset,
          Timeout, Connected
    <2>4. sr[cur] = "CLOSING" => sr'[cur] \in {"CLOSING", "CLOSED"}
      BY <1>0, <2>1
      DEF Connect, Syn, Progress, Established, Ack, Closed, Choice, Data, Arrive, Fin, Reset,
          Timeout, Connected
    <2>5. Connected(cur) => sr'[cur] \in {"ESTABLISHED", "CLOSE_WAIT", "CLOSED"}
      BY <1>0, <2>1
      DEF Connect, Syn, Progress, Established, Ack, Closed, Choice, Data, Arrive, Fin, Reset,
          Timeout, Connected
    <2> QED BY <2>2, <2>3, <2>4, <2>5 DEF Connected
  <1>8. CASE UNCHANGED vars
    BY <1>8 DEF vars, chipVars, taskVars
  <1>9. CASE Looks \/ ReadSize
    <2>1. /\ sr' = sr /\ pc \notin {"poll", "listen"} /\ pc' \notin {"disSr", "disIr"}
          /\ pc' \notin {"poll", "listen"} => cur' = cur
      BY <1>9, LooksOnly, SizeTaken DEF NextSocket
    <2> QED BY <2>1
  <1> QED
    BY <1>1, <1>2, <1>3, <1>4, <1>5, <1>6, <1>7, <1>8, <1>9 DEF Next, taskNetEntry, Looks

-----------------------------------------------------------------------------
(* The answers on their way.                                               *)

LEMMA SendInv ==
    ServerTypeOK /\ InConversation /\ SendIsTracked /\ [Next]_vars => SendIsTracked'
  <1> SUFFICES ASSUME ServerTypeOK, InConversation, SendIsTracked, [Next]_vars
               PROVE  SendIsTracked'
    OBVIOUS
  <1> USE DEF SendIsTracked, Connected
  <1>0. /\ sr \in [Soc -> {"CLOSED", "INIT", "LISTEN", "SYNRECV", "ESTABLISHED",
                           "CLOSE_WAIT", "CLOSING"}]
        /\ sendok \in [Soc -> {0, 1}] /\ unacked \in [Soc -> Nat]
        /\ sending \in [Soc -> {0, 1}] /\ cur \in Soc
    BY DEF ServerTypeOK, ChipTypeOK
  <1>1. CASE OpenSocket
    BY <1>0, <1>1 DEF OpenSocket, CloseAndOpen, NotSending, NextSocket
  <1>2. CASE StartListen
    BY <1>0, <1>2 DEF StartListen, Listen, Continue, GoTo
  <1>3. CASE ListenFails \/ NothingOnItsWay \/ RecvFails \/ SendTimedOut
    BY <1>0, <1>3
    DEF ListenFails, NothingOnItsWay, RecvFails, SendTimedOut, Close, NotSending,
        Continue, FailFrom, GoTo
  <1>4. CASE DisconnectTimedOut
    BY <1>0, <1>4 DEF DisconnectTimedOut, Close, NotSending, NextSocket, Continue, GoTo
  <1>5. CASE ListenOk \/ PollEstablished \/ NothingToDo \/ PollCloseWait
             \/ ParseRefused \/ ParseOk \/ WaitForRoom \/ SendBusy \/ Disconnected
             \/ NotYetClosed \/ NoTimeoutYet
    BY <1>0, <1>5
    DEF ListenOk, PollEstablished, NothingToDo, PollCloseWait, ParseRefused, ParseOk,
        WaitForRoom, SendBusy, Disconnected, NotYetClosed, NoTimeoutYet, chipVars,
        NextSocket, Continue, FailFrom, GoTo
  <1>6. CASE TakeData
    BY <1>0, <1>6 DEF TakeData, Recv, Continue, FailFrom, GoTo
  <1>7. CASE SendChecksStatus
    BY <1>0, <1>7 DEF SendChecksStatus, chipVars, Continue, FailFrom, GoTo
  <1>8. CASE SendokSeen
    BY <1>0, <1>8 DEF SendokSeen, ClearSendok, NotSending, Continue, GoTo
  <1>9. CASE SendChecksAgain
    BY <1>0, <1>9 DEF SendChecksAgain, Close, NotSending, chipVars, Continue, FailFrom, GoTo
  <1>10. CASE Transmit
    BY <1>0, <1>10 DEF Transmit, Send, NextSocket, InConversation
  <1>11. CASE Disconnect
    BY <1>0, <1>11 DEF Disconnect, Discon, NotSending, Continue, GoTo
  <1>12. CASE Network
    <2>1. PICK s \in Soc : Connect(s) \/ Progress(s) \/ Choice(s)
      BY <1>12 DEF Network
    <2>2. UNCHANGED <<pc, cur, sending>>
      BY <2>1 DEF Connect, Progress, Choice, taskVars
    <2>3. CASE Syn(s) \/ Established(s) \/ Closed(s) \/ Fin(s) \/ Reset(s) \/ Timeout(s)
      BY <1>0, <2>2, <2>3 DEF Syn, Established, Closed, Fin, Reset, Timeout
    <2>4. CASE Ack(s)
      BY <1>0, <2>2, <2>4 DEF Ack
    <2>5. CASE Data(s)
      <3>1. UNCHANGED <<sr, sendok, unacked>>
        BY <2>5, DataArrives DEF ServerTypeOK
      <3> QED BY <2>2, <3>1
    <2> QED BY <2>1, <2>3, <2>4, <2>5 DEF Connect, Progress, Choice
  <1>13. CASE UNCHANGED vars
    BY <1>13 DEF vars, chipVars, taskVars
  <1>14. CASE Looks \/ ReadSize
    <2>1. UNCHANGED <<sr, sendok, unacked, sending>> /\ pc' \notin {"sendFsr", "transmit"}
      BY <1>14, LooksOnly, SizeTaken DEF NextSocket
    <2> QED BY <2>1
  <1> QED
    BY <1>1, <1>2, <1>3, <1>4, <1>5, <1>6, <1>7, <1>8, <1>9, <1>10, <1>11, <1>12, <1>13, <1>14
    DEF Next, taskNetEntry, Looks

-----------------------------------------------------------------------------
(* The exchanges, and the buffer they share.                               *)

LEMMA ExchangeInv ==
    ServerTypeOK /\ ExchangeInProcess /\ [Next]_vars => ExchangeInProcess'
  <1> SUFFICES ASSUME ServerTypeOK, ExchangeInProcess, [Next]_vars
               PROVE  ExchangeInProcess'
    OBVIOUS
  <1> USE DEF ExchangeInProcess
  <1>0. exchange \in [Soc -> {"idle", "res_inProc"}] /\ failed \in [Soc -> {0, 1}] /\ cur \in Soc
    BY DEF ServerTypeOK
  <1>1. CASE OpenSocket \/ ListenOk \/ NothingToDo \/ ParseRefused \/ Transmit
             \/ Disconnected \/ DisconnectTimedOut
    BY <1>0, <1>1
    DEF OpenSocket, ListenOk, NothingToDo, ParseRefused, Transmit, Disconnected,
        DisconnectTimedOut, NextSocket, Continue, GoTo
  <1>2. CASE StartListen \/ ListenFails \/ PollEstablished \/ PollCloseWait
             \/ ParseOk \/ WaitForRoom \/ SendokSeen \/ Disconnect \/ NotYetClosed \/ NoTimeoutYet
    BY <1>0, <1>2
    DEF StartListen, ListenFails, PollEstablished, PollCloseWait, ParseOk,
        WaitForRoom, SendokSeen, Disconnect, NotYetClosed, NoTimeoutYet, Continue, GoTo
  <1>3. CASE TakeData \/ NothingOnItsWay \/ RecvFails \/ SendChecksStatus \/ SendTimedOut
             \/ SendBusy \/ SendChecksAgain
    BY <1>0, <1>3
    DEF TakeData, NothingOnItsWay, RecvFails, SendChecksStatus, SendTimedOut, SendBusy,
        SendChecksAgain, Continue, FailFrom, GoTo
  <1>4. CASE Network
    BY <1>4 DEF Network, Connect, Progress, Choice, taskVars
  <1>5. CASE UNCHANGED vars
    BY <1>5 DEF vars, taskVars
  <1>6. CASE Looks \/ ReadSize
    <2>1. UNCHANGED <<exchange, failed>>
          /\ pc \notin {"fsr", "send", "sendIr", "sendFsr", "transmit"}
      BY <1>6, LooksOnly, SizeTaken
    <2> QED BY <2>1
  <1> QED BY <1>1, <1>2, <1>3, <1>4, <1>5, <1>6 DEF Next, taskNetEntry, Looks

\* As much of the buffer as was received, whatever recv takes of it.
LEMMA OwnInv ==
    ASSUME ServerTypeOK, SizesAreLowerBounds, InConversation, ReceivedOwn, [Next]_vars
    PROVE  ReceivedOwn'
  <1> DEFINE Answering == pc \in {"pending", "fsr", "send", "sendIr", "sendFsr", "transmit"}
             Cutting   == pc \in {"discon", "disSr", "disIr"} /\ local.from = "recv"
  <1>0. /\ sr \in [Soc -> {"CLOSED", "INIT", "LISTEN", "SYNRECV", "ESTABLISHED",
                           "CLOSE_WAIT", "CLOSING"}]
        /\ local \in Locals /\ cur \in Soc /\ rx[cur] \in Seq(Byte) /\ Len(rx[cur]) \in Nat
        /\ ReqLen \in Nat /\ BufLen \in Nat /\ ReqLen <= BufLen
    BY W5500Assumption DEF ServerTypeOK, ChipTypeOK
  <1>1. CASE ~(Answering') /\ ~(Cutting')
    BY <1>1 DEF ReceivedOwn
  <1>2. CASE TakeData
    <2> DEFINE n == IF local.recvsize < BufLen THEN local.recvsize ELSE BufLen
    <2>1. n \in Nat /\ n <= Len(rx[cur]) /\ local.size <= local.recvsize /\ local.size > 0
          /\ local.size \in Nat
      BY <1>0, <1>2 DEF TakeData, SizesAreLowerBounds, Locals
    <2>2. \A i \in 1 .. ReqLen : i <= local.size => buf'[i].who = cur
      <3>1. \A i \in 1 .. ReqLen : i <= n => buf'[i].who = cur
        BY <1>2, <2>1, OverlayType DEF TakeData
      <3>2. \A i \in 1 .. ReqLen : i <= local.size => i <= n
        BY <1>0, <2>1 DEF Locals
      <3> QED BY <3>1, <3>2
    <2>3. cur' = cur /\ local'.size = local.size
      BY <1>0, <1>2 DEF TakeData, Continue, FailFrom, GoTo, Locals
    <2> QED BY <2>1, <2>2, <2>3 DEF ReceivedOwn
  <1>3. CASE NothingOnItsWay \/ RecvFails
    <2>1. Close(cur) /\ FailFrom("recv")
      BY <1>3 DEF NothingOnItsWay, RecvFails
    <2>2. sr'[cur] = "CLOSED" /\ cur' = cur /\ pc' = "discon" /\ local'.size = local.size
      BY <1>0, <2>1 DEF Close, FailFrom, GoTo, Locals
    <2>3. local.size > 0 \/ RecvFails
      BY <1>3 DEF NothingOnItsWay, SizesAreLowerBounds
    <2>4. local.size > 0
      BY <2>3 DEF RecvFails, SizesAreLowerBounds
    <2> QED BY <2>2, <2>4 DEF ReceivedOwn
  <1>4. CASE ParseOk \/ WaitForRoom \/ SendokSeen
    <2>1. UNCHANGED <<buf, cur, local>> /\ Answering /\ Answering'
      BY <1>4 DEF ParseOk, WaitForRoom, SendokSeen, Continue, GoTo
    <2> QED BY <2>1 DEF ReceivedOwn
  <1>5. CASE SendChecksStatus \/ SendTimedOut \/ SendBusy \/ SendChecksAgain
    <2>1. /\ UNCHANGED <<buf, cur>> /\ Answering
          /\ \/ Answering' /\ local' = local
             \/ ~(Answering') /\ ~(Cutting')
      BY <1>0, <1>5
      DEF SendChecksStatus, SendTimedOut, SendBusy, SendChecksAgain, Continue, FailFrom, GoTo,
          Locals
    <2> QED BY <1>1, <2>1 DEF ReceivedOwn
  <1>6. CASE Disconnect
    <2>1. UNCHANGED <<buf, cur, local>> /\ pc = "discon" /\ pc' = "disSr"
          /\ (sr[cur] = "CLOSED" => sr'[cur] = "CLOSED")
      BY <1>0, <1>6 DEF Disconnect, Discon, Connected, Continue, GoTo
    <2> QED BY <2>1 DEF ReceivedOwn
  <1>7. CASE NotYetClosed \/ NoTimeoutYet
    <2>1. UNCHANGED <<buf, cur, local, sr>>
          /\ \/ pc = "disSr" /\ sr[cur] # "CLOSED" /\ pc' = "disIr"
             \/ pc = "disIr" /\ pc' = "disSr"
      BY <1>7 DEF NotYetClosed, NoTimeoutYet, chipVars, Continue, GoTo
    <2> QED BY <2>1 DEF ReceivedOwn
  <1>8. CASE DisconnectTimedOut
    <2>1. /\ UNCHANGED buf /\ pc = "disIr"
          /\ \/ pc' = "pending" /\ local.from = "recv" /\ UNCHANGED <<cur, local>>
             \/ ~(Answering') /\ ~(Cutting')
      BY <1>8 DEF DisconnectTimedOut, NextSocket, Continue, GoTo
    <2> QED BY <1>1, <2>1 DEF ReceivedOwn
  <1>9. CASE Network
    <2>1. PICK s \in Soc : Connect(s) \/ Progress(s) \/ Choice(s)
      BY <1>9 DEF Network
    <2>2. UNCHANGED <<pc, cur, local>>
      BY <2>1 DEF Connect, Progress, Choice, taskVars
    <2>3. sr[cur] = "CLOSED" => sr'[cur] = "CLOSED"
      BY <1>0, <2>1
      DEF Connect, Syn, Progress, Established, Ack, Closed, Choice, Data, Arrive, Fin, Reset,
          Timeout, Connected
    <2>4. pc \notin {"poll", "listen"} =>
              \A i \in 1 .. ReqLen : buf[i].who = cur => buf'[i].who = cur
      <3>1. CASE Connect(s)
        BY <3>1 DEF Connect, Syn, InConversation
      <3>2. CASE Progress(s) \/ Choice(s)
        BY <3>2 DEF Progress, Choice, taskVars
      <3> QED BY <2>1, <3>1, <3>2
    <2> QED BY <2>2, <2>3, <2>4 DEF ReceivedOwn
  <1>10. CASE UNCHANGED vars
    BY <1>10 DEF vars, chipVars, taskVars, ReceivedOwn
  <1>11. CASE Looks \/ ReadSize
    <2>1. ~(Answering') /\ ~(Cutting')
      BY <1>11, LooksOnly, SizeTaken DEF NextSocket
    <2> QED BY <1>1, <2>1
  <1>12. CASE OpenSocket \/ StartListen \/ ListenOk \/ ListenFails \/ PollEstablished
              \/ NothingToDo \/ PollCloseWait \/ ParseRefused \/ Transmit \/ Disconnected
    <2>1. ~(Answering') /\ ~(Cutting')
      BY <1>0, <1>12
      DEF OpenSocket, StartListen, ListenOk, ListenFails, PollEstablished, NothingToDo,
          PollCloseWait, ParseRefused, Transmit, Disconnected, NextSocket, Continue, GoTo,
          Locals
    <2> QED BY <1>1, <2>1
  <1> QED
    BY <1>2, <1>3, <1>4, <1>5, <1>6, <1>7, <1>8, <1>9, <1>10, <1>11, <1>12
    DEF Next, taskNetEntry, Looks

-----------------------------------------------------------------------------
(* The theorems.                                                           *)

LEMMA TcpInitInv == Init => TcpInv
  <1> SUFFICES ASSUME Init PROVE TcpInv
    OBVIOUS
  <1> USE DEF Init, ChipInit
  <1>1. ServerTypeOK
    <2>1. <<>> \in Seq(Byte) /\ 0 \in Soc /\ 0 \in 0 .. ReqLen
      BY W5500Assumption DEF Soc
    <2> QED BY <2>1 DEF ServerTypeOK, ChipTypeOK, NoLocals, Locals, Byte
  <1>2. SizesAreLowerBounds /\ InConversation /\ ExchangeInProcess /\ ReceivedOwn
    BY DEF SizesAreLowerBounds, InConversation, ExchangeInProcess, ReceivedOwn
  <1>3. SendIsTracked
    BY DEF SendIsTracked
  <1> QED BY <1>1, <1>2, <1>3 DEF TcpInv

LEMMA TcpInvariant == Spec => []TcpInv
  <1>1. Init => TcpInv
    BY TcpInitInv
  <1>2. TcpInv /\ [Next]_vars => TcpInv'
    <2> SUFFICES ASSUME TcpInv, [Next]_vars PROVE TcpInv'
      OBVIOUS
    <2> QED BY TypeInv, SizesInv, ConversationInv, SendInv, ExchangeInv, OwnInv DEF TcpInv
  <1> QED BY <1>1, <1>2, PTL DEF Spec

\* The variables of the server and of the chip keep their types.
THEOREM TcpTypeCorrect == Spec => []ServerTypeOK
  <1>1. TcpInv => ServerTypeOK
    BY DEF TcpInv
  <1> QED BY <1>1, TcpInvariant, PTL

\* Whatever clients and network do, a socket never has more than one answer
\* on its way: the loop of Eth_f_send that waits for room does not spin.
THEOREM TcpOneUnacked == Spec => []AtMostOneUnacked
  <1>1. TcpInv => AtMostOneUnacked
    BY DEF TcpInv, SendIsTracked, AtMostOneUnacked
  <1> QED BY <1>1, TcpInvariant, PTL

\* recv never waits for a client, and Eth_f_recv disconnects one that is
\* connected only if it sent more in between, or more than the buffer holds.
THEOREM TcpOnlyNewDataDisturbs == Spec => OnlyNewDataDisturbs
  <1>1. TcpInv /\ [Next]_vars =>
            [/\ pc = "recvSr" /\ pc' \in {"recv", "recvFsr"} =>
                    Len(rx[cur]) > local.size /\ Len(rx[cur]) >= Radix
             /\ pc \in {"recvSr", "recvFsr"} /\ pc' = "discon" /\ Connected(cur) =>
                    Len(rx[cur]) > local.size \/ local.size > BufLen]_vars
    <2> SUFFICES ASSUME TcpInv, Next
                 PROVE  /\ pc = "recvSr" /\ pc' \in {"recv", "recvFsr"} =>
                               Len(rx[cur]) > local.size /\ Len(rx[cur]) >= Radix
                        /\ pc \in {"recvSr", "recvFsr"} /\ pc' = "discon" /\ Connected(cur) =>
                               Len(rx[cur]) > local.size \/ local.size > BufLen
      OBVIOUS
    <2>0. /\ local \in Locals /\ Len(rx[cur]) \in Nat /\ Radix \in Nat /\ BufLen \in Nat
          /\ SizesAreLowerBounds
      BY W5500Assumption DEF TcpInv, ServerTypeOK, ChipTypeOK
    <2>1. ASSUME pc \in {"recvSr", "recvFsr"}, ~Network
          PROVE  NoDataYet \/ NoDataAnymore \/ AnswerOnItsWay \/ NothingOnItsWay
                     \/ TakeData \/ RecvFails
      BY <2>1
      DEF Next, taskNetEntry, OpenSocket, StartListen, ListenOk, ListenFails, PollEstablished,
          NothingToDo, PollCloseWait, ReadSizeHi, ReadSize, ReadRecvSizeHi, ReadRecvSize,
          ParseRefused, ParseOk, WaitForRoom, SendChecksStatus, SendokSeen, SendTimedOut,
          SendBusy, SendChecksAgain, Transmit, Disconnect, Disconnected, NotYetClosed,
          NoTimeoutYet, DisconnectTimedOut
    <2>2. CASE Network
      <3>1. pc' = pc
        BY <2>2 DEF Network, Connect, Progress, Choice, taskVars
      <3> QED BY <3>1
    <2>3. CASE NoDataYet \/ NoDataAnymore
      <3>1. local.recvsize = 0 /\ pc = "recvSr" /\ pc' # "discon"
        BY <2>3 DEF NoDataYet, NoDataAnymore, Continue, GoTo
      <3> QED BY <2>0, <3>1 DEF SizesAreLowerBounds, Locals
    <2>4. CASE AnswerOnItsWay \/ NothingOnItsWay
      <3>1. pc = "recvFsr"
        BY <2>4 DEF AnswerOnItsWay, NothingOnItsWay
      <3> QED BY <2>0, <3>1 DEF SizesAreLowerBounds
    <2>5. CASE TakeData
      <3> DEFINE n == IF local.recvsize < BufLen THEN local.recvsize ELSE BufLen
      <3>1. pc = "recvSr" /\ local.recvsize > 0 /\ pc' \in {"pending", "discon"}
            /\ (pc' = "discon" => n # local.size)
        BY <2>5 DEF TakeData, Continue, FailFrom, GoTo
      <3>2. local.size <= local.recvsize /\ local.recvsize <= Len(rx[cur])
        BY <2>0, <3>1 DEF SizesAreLowerBounds, Locals
      <3> QED BY <2>0, <3>1, <3>2 DEF Locals
    <2>6. CASE RecvFails
      BY <2>6 DEF RecvFails, FailFrom, GoTo
    <2> QED BY <2>1, <2>2, <2>3, <2>4, <2>5, <2>6
  <1> QED BY <1>1, TcpInvariant, PTL DEF Spec, OnlyNewDataDisturbs

\* Between the turns of a socket its exchange is idle unless one has failed.
THEOREM TcpStuckOnlyAfterFailure == Spec => []StuckOnlyAfterFailure
  <1>1. TcpInv => StuckOnlyAfterFailure
    <2> SUFFICES ASSUME TcpInv, NEW s \in Soc, exchange[s] = "res_inProc"
                 PROVE  failed[s] = 1 \/ (cur = s /\ pc # "poll")
      BY DEF StuckOnlyAfterFailure
    <2>1. failed[s] \in {0, 1}
      BY DEF TcpInv, ServerTypeOK
    <2> QED BY <2>1 DEF TcpInv, ExchangeInProcess
  <1> QED BY <1>1, TcpInvariant, PTL

\* What was received for an answer is from the connection the answer goes to,
\* wherever the segments of requests end, for any number of sockets that share
\* the buffer, with aborted connections and disconnects that time out.
THEOREM TcpReceivedIsOwn == Spec => []ReceivedIsOwn
  <1>1. TcpInv => ReceivedIsOwn
    BY DEF TcpInv, ReceivedOwn, ReceivedIsOwn
  <1> QED BY <1>1, TcpInvariant, PTL

-----------------------------------------------------------------------------
(* Requests that come in one segment.                                      *)

\* Numbers of bytes that are whole requests.
LEMMA WholeSums ==
    /\ Whole(0)
    /\ \A a \in Nat : Whole(a) => Whole(a + ReqLen)
    /\ \A a, b \in Nat : Whole(a) /\ Whole(b) /\ b <= a => Whole(a - b)
    /\ \A a \in Nat : Whole(a) /\ a > 0 => ReqLen <= a
  <1>0. ReqLen \in Nat \ {0}
    BY W5500Assumption
  <1>1. \A k \in Nat : k > 0 => k * ReqLen >= ReqLen
    BY <1>0
  <1>2. Whole(0)
    <2>1. 0 = 0 * ReqLen
      BY <1>0
    <2> QED BY <2>1 DEF Whole
  <1>3. ASSUME NEW a \in Nat, Whole(a) PROVE Whole(a + ReqLen)
    <2>1. PICK k \in Nat : a = k * ReqLen
      BY <1>3 DEF Whole
    <2>2. a + ReqLen = (k + 1) * ReqLen
      BY <1>0, <2>1
    <2> QED BY <2>2 DEF Whole
  <1>4. ASSUME NEW a \in Nat, NEW b \in Nat, Whole(a), Whole(b), b <= a PROVE Whole(a - b)
    <2>1. PICK k \in Nat : a = k * ReqLen
      BY <1>4 DEF Whole
    <2>2. PICK m \in Nat : b = m * ReqLen
      BY <1>4 DEF Whole
    <2>3. a - b = (k - m) * ReqLen /\ b - a = (m - k) * ReqLen
      BY <1>0, <2>1, <2>2
    <2>4. CASE k < m
      <3>1. m - k \in Nat /\ m - k > 0
        BY <2>4
      <3>2. (m - k) * ReqLen >= ReqLen
        BY <1>1, <3>1
      <3> QED BY <1>0, <1>4, <2>3, <3>2
    <2>5. CASE m <= k
      <3>1. k - m \in Nat
        BY <2>5
      <3> QED BY <2>3, <3>1 DEF Whole
    <2> QED BY <2>4, <2>5
  <1>5. ASSUME NEW a \in Nat, Whole(a), a > 0 PROVE ReqLen <= a
    <2>1. PICK k \in Nat : a = k * ReqLen
      BY <1>5 DEF Whole
    <2>2. k > 0
      BY <1>0, <1>5, <2>1
    <2> QED BY <1>0, <1>1, <2>1, <2>2
  <1> QED BY <1>2, <1>3, <1>4, <1>5

LEMMA WholeStep ==
    ASSUME "fragment" \notin Events, ServerTypeOK, SizesAreLowerBounds, InConversation,
           WholeRequests, [Next]_vars
    PROVE  WholeRequests'
  <1> USE DEF WholeRequests
  <1>0. /\ sr \in [Soc -> {"CLOSED", "INIT", "LISTEN", "SYNRECV", "ESTABLISHED",
                           "CLOSE_WAIT", "CLOSING"}]
        /\ local \in Locals
        /\ cur \in Soc /\ rx \in [Soc -> Seq(Byte)]
        /\ \A s \in Soc : Len(rx[s]) \in Nat
    BY DEF ServerTypeOK, ChipTypeOK
  <1>a. NextSocket => Whole(local'.size)
    BY WholeSums DEF NextSocket, NoLocals
  <1>1. CASE OpenSocket
    <2>1. /\ rx'[cur] = <<>> /\ pc = "poll" /\ pc' = "poll"
          /\ \A s \in Soc \ {cur} : sr'[s] = sr[s] /\ rx'[s] = rx[s]
      BY <1>0, <1>1 DEF OpenSocket, CloseAndOpen, NextSocket
    <2>2. Whole(Len(<<>>))
      BY WholeSums
    <2>3. \A s \in Soc : sr'[s] \notin {"CLOSING", "CLOSED"} => Whole(Len(rx'[s]))
      BY <2>1, <2>2
    <2> QED BY <1>1, <1>a, <2>1, <2>3 DEF OpenSocket
  <1>2. CASE StartListen
    BY <1>0, <1>2 DEF StartListen, Listen, Continue, GoTo
  <1>3. CASE ListenFails \/ NothingOnItsWay \/ RecvFails \/ SendTimedOut \/ DisconnectTimedOut
    <2>1. Close(cur) /\ pc # "discon" /\ pc' \notin {"rsr", "rsrLo"}
          /\ (local'.size = local.size \/ NextSocket)
      BY <1>0, <1>3
      DEF ListenFails, NothingOnItsWay, RecvFails, SendTimedOut, DisconnectTimedOut,
          NextSocket, Continue, FailFrom, GoTo, Locals
    <2>2. rx' = rx /\ sr'[cur] = "CLOSED" /\ \A s \in Soc \ {cur} : sr'[s] = sr[s]
      BY <1>0, <2>1 DEF Close
    <2> QED BY <1>a, <2>1, <2>2
  <1>4. CASE ListenOk \/ NothingToDo \/ PollCloseWait \/ ParseRefused \/ ParseOk
             \/ WaitForRoom \/ SendChecksStatus \/ SendBusy \/ Disconnected \/ NotYetClosed
             \/ NoTimeoutYet \/ PollEstablished
    <2>1. /\ UNCHANGED <<sr, rx>> /\ pc # "discon" /\ pc' # "rsrLo"
          /\ (local'.size = local.size \/ NextSocket)
          /\ pc' = "rsr" => sr[cur] = "ESTABLISHED" /\ cur' = cur
      BY <1>0, <1>4
      DEF ListenOk, NothingToDo, PollCloseWait, ParseRefused, ParseOk, WaitForRoom,
          SendChecksStatus, SendBusy, Disconnected, NotYetClosed, NoTimeoutYet,
          PollEstablished, chipVars, NextSocket, Continue, FailFrom, GoTo, Locals
    <2> QED BY <1>0, <1>a, <2>1
  <1>5. CASE Looks
    <2>1. UNCHANGED <<sr, rx, cur>> /\ local'.size = local.size /\ pc # "discon"
          /\ (pc' = "rsrLo" => pc = "rsr") /\ pc' # "rsr"
      BY <1>5, LooksOnly
    <2> QED BY <2>1
  <1>6. CASE ReadSize
    <2>1. UNCHANGED <<sr, rx>> /\ pc = "rsrLo" /\ pc' \in {"poll", "recv"}
          /\ (NextSocket \/ local'.size = Len(rx[cur]))
      BY <1>0, <1>6, SizeTaken DEF NextSocket, Locals
    <2> QED BY <1>a, <2>1
  <1>11. CASE TakeData
    <2> DEFINE n == IF local.recvsize < BufLen THEN local.recvsize ELSE BufLen
    <2>1. n \in Nat /\ n <= Len(rx[cur]) /\ pc # "discon"
      BY <1>0, <1>11, W5500Assumption DEF TakeData, SizesAreLowerBounds, Locals
    <2>2. Len(SubSeq(rx[cur], n + 1, Len(rx[cur]))) = Len(rx[cur]) - n
      BY <1>0, <2>1, SubSeqProperties
    <2>3. UNCHANGED <<sr, cur>> /\ pc' \in {"pending", "discon"} /\ local'.size = local.size
          /\ (pc' = "pending" => n = local.size)
          /\ \A s \in Soc : Len(rx'[s]) = IF s = cur THEN Len(rx[s]) - n ELSE Len(rx[s])
      BY <1>0, <1>11, <2>2 DEF TakeData, Recv, Continue, FailFrom, GoTo, Locals
    <2>4. Connected(cur) /\ Whole(local.size) /\ Whole(Len(rx[cur])) /\ Len(rx[cur]) \in Nat
      BY <1>0, <1>11 DEF TakeData, Connected
    <2>5. pc' = "pending" => Whole(Len(rx[cur]) - n)
      BY <1>0, <2>1, <2>3, <2>4, WholeSums
    <2> QED BY <2>1, <2>3, <2>4, <2>5
  <1>7. CASE SendokSeen \/ SendChecksAgain \/ Transmit
    <2>1. /\ rx' = rx /\ pc \notin {"rsr", "discon"} /\ pc' \notin {"rsr", "rsrLo"}
          /\ \A s \in Soc : sr'[s] \in {sr[s], "CLOSED"}
          /\ (local'.size = local.size \/ NextSocket)
      BY <1>0, <1>7
      DEF SendokSeen, SendChecksAgain, Transmit, ClearSendok, Close, Send, chipVars,
          NextSocket, Continue, FailFrom, GoTo, Locals
    <2> QED BY <1>a, <2>1
  <1>8. CASE Disconnect
    BY <1>0, <1>8 DEF Disconnect, Discon, Connected, InConversation, Continue, GoTo
  <1>9. CASE Network
    <2>1. PICK s \in Soc : Connect(s) \/ Progress(s) \/ Choice(s)
      BY <1>9 DEF Network
    <2>2. UNCHANGED <<pc, cur, local>>
      BY <2>1 DEF Connect, Progress, Choice, taskVars
    <2>3. CASE Data(s)
      <3>1. sr' = sr /\ sr[s] = "ESTABLISHED"
        BY <2>3, DataArrives DEF ServerTypeOK
      <3>2. PICK q \in Seq(Byte) : rx' = [rx EXCEPT ![s] = q] /\ Len(q) = Len(rx[s]) + ReqLen
        BY <2>3, DataArrives DEF ServerTypeOK
      <3>3. Whole(Len(rx[s])) => Whole(Len(q))
        BY <1>0, <3>2, WholeSums
      <3> QED BY <1>0, <2>2, <3>1, <3>2, <3>3
    <2>4. CASE ~Data(s)
      <3>1. /\ UNCHANGED rx
            /\ \A r \in Soc : sr'[r] = sr[r] \/ sr'[r] \in {"CLOSING", "CLOSED"}
                                 \/ sr[r] \notin {"CLOSING", "CLOSED"}
        BY <1>0, <2>1, <2>4
        DEF Connect, Syn, Progress, Established, Ack, Closed, Choice, Fin, Reset, Timeout
      <3> QED BY <2>2, <3>1
    <2> QED BY <2>3, <2>4
  <1>10. CASE UNCHANGED vars
    BY <1>10 DEF vars, chipVars, taskVars
  <1> QED
    BY <1>1, <1>2, <1>3, <1>4, <1>5, <1>6, <1>7, <1>8, <1>9, <1>10, <1>11
    DEF Next, taskNetEntry, Looks

LEMMA WholeInvariant ==
    ASSUME "fragment" \notin Events
    PROVE  Spec => []WholeInv
  <1>1. Init => WholeInv
    <2> SUFFICES ASSUME Init PROVE WholeInv
      OBVIOUS
    <2>1. TcpInv
      BY TcpInitInv
    <2>2. Whole(Len(<<>>)) /\ Whole(0)
      BY WholeSums
    <2>3. WholeRequests
      BY <2>2 DEF Init, ChipInit, NoLocals, WholeRequests
    <2> QED BY <2>1, <2>3 DEF WholeInv
  <1>2. TcpInv /\ TcpInv' /\ WholeInv /\ [Next]_vars => WholeInv'
    <2> SUFFICES ASSUME TcpInv, TcpInv', WholeInv, [Next]_vars PROVE WholeInv'
      OBVIOUS
    <2> QED BY WholeStep DEF TcpInv, WholeInv
  <1> QED BY <1>1, <1>2, TcpInvariant, PTL DEF Spec

\* When requests come in one segment, an answer is made of nothing but what
\* its own connection has sent, also under aborts, timeouts and clients that
\* do not wait for their answers.
THEOREM TcpAnswerIsOwn ==
    ASSUME "fragment" \notin Events
    PROVE  Spec => []AnswerIsOwn
  <1>1. WholeInv => AnswerIsOwn
    <2> SUFFICES ASSUME WholeInv, pc = "transmit", NEW i \in 1 .. ReqLen PROVE buf[i].who = cur
      BY DEF AnswerIsOwn
    <2>1. local.size \in Nat /\ ReqLen \in Nat
      BY W5500Assumption DEF WholeInv, TcpInv, ServerTypeOK, Locals
    <2>2. local.size > 0 /\ Whole(local.size)
      BY DEF WholeInv, WholeRequests, TcpInv, ReceivedOwn
    <2>3. i <= local.size
      BY <2>1, <2>2, WholeSums
    <2> QED BY <2>3 DEF WholeInv, TcpInv, ReceivedOwn
  <1> QED BY <1>1, WholeInvariant, PTL

-----------------------------------------------------------------------------
(* The server implements RequestServer.                                    *)

\* A socket that is read was idle; nothing is received before a connection.
ServeFacts ==
    /\ \A s \in Soc : sr[s] \in {"INIT", "LISTEN", "SYNRECV"} => rx[s] = <<>>
    /\ pc \in {"rsr", "rsrLo", "recv", "recvLo", "recvSr", "recvFsr", "pending"} =>
           exchange[cur] = "idle"
    /\ pc \in {"discon", "disSr", "disIr"} /\ local.from = "recv" => exchange[cur] = "idle"

LEMMA ServeStep ==
    ASSUME WholeInv, ServeFacts, [Next]_vars
    PROVE  ServeFacts'
  <1> USE DEF ServeFacts
  <1>0. /\ sr \in [Soc -> {"CLOSED", "INIT", "LISTEN", "SYNRECV", "ESTABLISHED",
                           "CLOSE_WAIT", "CLOSING"}]
        /\ local \in Locals
        /\ cur \in Soc /\ rx \in [Soc -> Seq(Byte)]
        /\ exchange \in [Soc -> {"idle", "res_inProc"}]
    BY DEF WholeInv, TcpInv, ServerTypeOK, ChipTypeOK
  <1>1. CASE OpenSocket
    BY <1>0, <1>1 DEF OpenSocket, CloseAndOpen, NextSocket
  <1>2. CASE StartListen
    BY <1>0, <1>2 DEF StartListen, Listen, Continue, GoTo
  <1>3. CASE ListenFails \/ SendTimedOut
    BY <1>0, <1>3 DEF ListenFails, SendTimedOut, Close, Continue, FailFrom, GoTo, Locals
  <1>4. CASE NothingOnItsWay \/ RecvFails \/ DisconnectTimedOut
    BY <1>0, <1>4
    DEF NothingOnItsWay, RecvFails, DisconnectTimedOut, Close, NextSocket, Continue, FailFrom,
        GoTo, Locals
  <1>5. CASE ListenOk \/ NothingToDo \/ Disconnected \/ ParseRefused
    BY <1>0, <1>5
    DEF ListenOk, NothingToDo, Disconnected, ParseRefused, chipVars, NextSocket
  <1>6. CASE PollEstablished \/ PollCloseWait
    BY <1>0, <1>6 DEF PollEstablished, PollCloseWait, chipVars, Continue, GoTo, Locals
  <1>7. CASE ParseOk \/ WaitForRoom \/ SendChecksStatus \/ SendBusy \/ NotYetClosed
             \/ NoTimeoutYet
    BY <1>0, <1>7
    DEF ParseOk, WaitForRoom, SendChecksStatus, SendBusy, NotYetClosed, NoTimeoutYet,
        chipVars, Continue, FailFrom, GoTo, Locals
  <1>8. CASE TakeData
    <2>1. exchange[cur] = "idle" /\ Connected(cur)
      BY <1>8 DEF TakeData
    <2>2. UNCHANGED <<sr, cur, exchange>> /\ \A s \in Soc \ {cur} : rx'[s] = rx[s]
      BY <1>0, <1>8 DEF TakeData, Recv, Continue, FailFrom, GoTo
    <2>3. pc' \in {"pending", "discon"}
      BY <1>8 DEF TakeData, Continue, FailFrom, GoTo
    <2> QED BY <1>0, <2>1, <2>2, <2>3 DEF Connected
  <1>9. CASE SendokSeen \/ Disconnect
    BY <1>0, <1>9 DEF SendokSeen, Disconnect, ClearSendok, Discon, Connected, Continue, GoTo
  <1>10. CASE SendChecksAgain
    BY <1>0, <1>10 DEF SendChecksAgain, Close, chipVars, Continue, FailFrom, GoTo, Locals
  <1>11. CASE Transmit
    BY <1>0, <1>11 DEF Transmit, Send, NextSocket
  <1>12. CASE Network
    <2>1. PICK s \in Soc : Connect(s) \/ Progress(s) \/ Choice(s)
      BY <1>12 DEF Network
    <2>2. UNCHANGED <<pc, cur, local, exchange>>
      BY <2>1 DEF Connect, Progress, Choice, taskVars
    <2>3. CASE Data(s)
      <3>1. UNCHANGED sr /\ sr[s] = "ESTABLISHED" /\ \A r \in Soc \ {s} : rx'[r] = rx[r]
        BY <1>0, <2>3, DataArrives DEF WholeInv, TcpInv, ServerTypeOK
      <3> QED BY <2>2, <3>1
    <2>4. CASE ~Data(s)
      <3>1. /\ UNCHANGED rx
            /\ \A r \in Soc : sr'[r] \in {"INIT", "LISTEN", "SYNRECV"} =>
                                  sr[r] \in {"INIT", "LISTEN", "SYNRECV"}
            /\ sr[cur] = "CLOSED" => sr'[cur] = "CLOSED"
        BY <1>0, <2>1, <2>4
        DEF Connect, Syn, Progress, Established, Ack, Closed, Choice, Fin, Reset, Timeout,
            Connected
      <3> QED BY <2>2, <3>1
    <2> QED BY <2>3, <2>4
  <1>13. CASE UNCHANGED vars
    BY <1>13 DEF vars, chipVars, taskVars
  <1>14. CASE Looks \/ ReadSize
    <2>1. UNCHANGED <<sr, rx, exchange>>
          /\ pc \in {"rsr", "rsrLo", "recv", "recvLo", "recvSr", "recvFsr"}
          /\ \/ pc' = "poll"
             \/ cur' = cur /\ pc' \in {"rsrLo", "recv", "recvLo", "recvSr", "recvFsr"}
      BY <1>14, LooksOnly, SizeTaken DEF NextSocket, WholeInv, TcpInv
    <2> QED BY <2>1
  <1> QED
    BY <1>1, <1>2, <1>3, <1>4, <1>5, <1>6, <1>7, <1>8, <1>9, <1>10, <1>11, <1>12, <1>13, <1>14
    DEF Next, taskNetEntry, Looks

\* The variables of RequestServer for one socket.
Waiting(s)  == IF Alive(s) THEN WaitingBytes(s) \div ReqLen ELSE 0
OnTheWay(s) == IF Alive(s) THEN unacked[s] ELSE 0
Mute(s)     == exchange[s] = "res_inProc" /\ ~InHand(s)

SameFor(s) == Alive(s)' = Alive(s) /\ Waiting(s)' = Waiting(s)
              /\ OnTheWay(s)' = OnTheWay(s) /\ Mute(s)' = Mute(s)

\* How the variables of one socket may move.
GivesUp(s) == ~Alive(s)' /\ (Mute(s) => Mute(s)')

Answers(s) ==
    /\ Alive(s) /\ Alive(s)' /\ ~Mute(s) /\ ~Mute(s)' /\ OnTheWay(s) = 0 /\ OnTheWay(s)' = 1
    /\ \E n \in 1 .. Waiting(s) : Waiting(s)' = Waiting(s) - n

Refuses(s) ==
    /\ Alive(s) /\ Alive(s)' /\ ~Mute(s) /\ Mute(s)' /\ OnTheWay(s)' = OnTheWay(s)
    /\ \E n \in 1 .. Waiting(s) : Waiting(s)' = Waiting(s) - n

Asks(s) ==
    /\ Alive(s) /\ Alive(s)' /\ Mute(s)' = Mute(s) /\ OnTheWay(s)' = OnTheWay(s)
    /\ Waiting(s)' = Waiting(s) + 1

Connects(s) ==
    /\ ~Alive(s) /\ Alive(s)' /\ Mute(s)' = Mute(s) /\ OnTheWay(s)' = 0 /\ Waiting(s)' = 0

Acknowledges(s) ==
    /\ Alive(s) /\ Alive(s)' /\ Mute(s)' = Mute(s) /\ Waiting(s)' = Waiting(s)
    /\ OnTheWay(s) = 1 /\ OnTheWay(s)' = 0

LEMMA OneMoves ==
    ASSUME NEW s \in Soc, \A r \in Soc \ {s} : SameFor(r),
           \/ SameFor(s) \/ GivesUp(s) \/ Answers(s) \/ Refuses(s) \/ Asks(s) \/ Connects(s)
           \/ Acknowledges(s)
    PROVE  [Promise!ServerNext]_(Promise!serverVars)
  <1> DEFINE A == [r \in Soc |-> Alive(r)]
             W == [r \in Soc |-> Waiting(r)]
             O == [r \in Soc |-> OnTheWay(r)]
             M == [r \in Soc |-> Mute(r)]
  <1>0. /\ \A r \in Soc : Alive(r) \in BOOLEAN /\ Alive(r)' \in BOOLEAN
        /\ \A r \in Soc : Mute(r) \in BOOLEAN /\ Mute(r)' \in BOOLEAN
    BY DEF Alive, Mute
  <1>1. /\ A' = [A EXCEPT ![s] = Alive(s)'] /\ W' = [W EXCEPT ![s] = Waiting(s)']
        /\ O' = [O EXCEPT ![s] = OnTheWay(s)'] /\ M' = [M EXCEPT ![s] = Mute(s)']
    BY DEF SameFor
  <1>2. /\ A[s] = Alive(s) /\ W[s] = Waiting(s) /\ O[s] = OnTheWay(s) /\ M[s] = Mute(s)
        /\ A = [A EXCEPT ![s] = A[s]] /\ W = [W EXCEPT ![s] = W[s]]
        /\ O = [O EXCEPT ![s] = O[s]] /\ M = [M EXCEPT ![s] = M[s]]
    OBVIOUS
  <1>3. CASE SameFor(s)
    <2>1. UNCHANGED <<A, W, O, M>>
      BY <1>1, <1>2, <1>3 DEF SameFor
    <2> QED BY <2>1 DEF Promise!serverVars, Waiting, OnTheWay, Mute
  <1>4. CASE GivesUp(s)
    <2>1. Alive(s)' = FALSE /\ Waiting(s)' = 0 /\ OnTheWay(s)' = 0
      BY <1>4, <1>0 DEF GivesUp, Waiting, OnTheWay
    <2>2. Mute(s)' = Mute(s) \/ Mute(s)' = TRUE
      BY <1>0, <1>4 DEF GivesUp
    <2>3. M' = M \/ M' = [M EXCEPT ![s] = TRUE]
      BY <1>1, <1>2, <2>2
    <2>4. Promise!GiveUp(s)
      BY <1>1, <2>1, <2>3 DEF Promise!GiveUp, Waiting, OnTheWay, Mute
    <2> QED BY <2>4 DEF Promise!ServerNext
  <1>5. CASE Answers(s)
    <2>1. PICK n \in 1 .. Waiting(s) : Waiting(s)' = Waiting(s) - n
      BY <1>5 DEF Answers
    <2>2. /\ A[s] = TRUE /\ Alive(s)' = TRUE /\ M[s] = FALSE /\ Mute(s)' = FALSE
          /\ O[s] = 0 /\ OnTheWay(s)' = 1 /\ W[s] = Waiting(s)
      BY <1>0, <1>2, <1>5 DEF Answers
    <2> HIDE DEF A, M, O, W
    <2>3. A' = A /\ M' = M
      BY <1>1, <1>2, <2>2
    <2>4. O' = [O EXCEPT ![s] = 1] /\ W' = [W EXCEPT ![s] = W[s] - n]
      BY <1>1, <2>1, <2>2
    <2> USE DEF A, M, O, W
    <2>5. Promise!Answer(s)
      BY <2>1, <2>2, <2>3, <2>4 DEF Promise!Answer, Waiting, OnTheWay, Mute
    <2> QED BY <2>5 DEF Promise!ServerNext
  <1>6. CASE Refuses(s)
    <2>1. PICK n \in 1 .. Waiting(s) : Waiting(s)' = Waiting(s) - n
      BY <1>6 DEF Refuses
    <2>2. /\ A[s] = TRUE /\ Alive(s)' = TRUE /\ M[s] = FALSE /\ Mute(s)' = TRUE
          /\ OnTheWay(s)' = O[s] /\ W[s] = Waiting(s)
      BY <1>0, <1>2, <1>6 DEF Refuses
    <2>3. A' = A /\ M' = [M EXCEPT ![s] = TRUE] /\ O' = O /\ W' = [W EXCEPT ![s] = W[s] - n]
      BY <1>1, <1>2, <2>1, <2>2
    <2>4. Promise!Refuse(s)
      BY <2>1, <2>2, <2>3 DEF Promise!Refuse, Waiting, OnTheWay, Mute
    <2> QED BY <2>4 DEF Promise!ServerNext
  <1>7. CASE Asks(s)
    <2>1. /\ A[s] = TRUE /\ Alive(s)' = TRUE /\ Mute(s)' = M[s] /\ OnTheWay(s)' = O[s]
          /\ Waiting(s)' = W[s] + 1
      BY <1>0, <1>2, <1>7 DEF Asks
    <2>2. A' = A /\ M' = M /\ O' = O /\ W' = [W EXCEPT ![s] = W[s] + 1]
      BY <1>1, <1>2, <2>1
    <2>3. Promise!Ask(s)
      BY <2>1, <2>2 DEF Promise!Ask, Waiting, OnTheWay, Mute
    <2> QED BY <2>3 DEF Promise!ServerNext
  <1>8. CASE Connects(s)
    <2>1. /\ A[s] = FALSE /\ W[s] = 0 /\ O[s] = 0
          /\ Alive(s)' = TRUE /\ Mute(s)' = M[s] /\ OnTheWay(s)' = 0 /\ Waiting(s)' = 0
      BY <1>0, <1>2, <1>8 DEF Connects, Waiting, OnTheWay
    <2>2. A' = [A EXCEPT ![s] = TRUE] /\ M' = M /\ O' = O /\ W' = W
      BY <1>1, <1>2, <2>1
    <2>3. Promise!Connect(s)
      BY <2>1, <2>2 DEF Promise!Connect, Waiting, OnTheWay, Mute
    <2> QED BY <2>3 DEF Promise!ServerNext
  <1>9. CASE Acknowledges(s)
    <2>1. /\ A[s] = TRUE /\ Alive(s)' = TRUE /\ Mute(s)' = M[s] /\ Waiting(s)' = W[s]
          /\ O[s] = 1 /\ OnTheWay(s)' = 0
      BY <1>0, <1>2, <1>9 DEF Acknowledges
    <2>2. A' = A /\ M' = M /\ W' = W /\ O' = [O EXCEPT ![s] = 0]
      BY <1>1, <1>2, <2>1
    <2>3. Promise!Acknowledge(s)
      BY <2>1, <2>2 DEF Promise!Acknowledge, Waiting, OnTheWay, Mute
    <2> QED BY <2>3 DEF Promise!ServerNext
  <1> QED BY <1>3, <1>4, <1>5, <1>6, <1>7, <1>8, <1>9

\* The sockets whose turn it is not.
LEMMA OthersStay ==
    ASSUME ServerTypeOK, taskNetEntry, NEW r \in Soc \ {cur}
    PROVE  SameFor(r)
  <1>0. cur \in Soc /\ sr \in [Soc -> {"CLOSED", "INIT", "LISTEN", "SYNRECV", "ESTABLISHED",
                                       "CLOSE_WAIT", "CLOSING"}]
        /\ rx \in [Soc -> Seq(Byte)] /\ unacked \in [Soc -> Nat]
        /\ exchange \in [Soc -> {"idle", "res_inProc"}]
    BY DEF ServerTypeOK, ChipTypeOK
  <1>a. CASE Looks \/ ReadSize
    <2>1. UNCHANGED <<sr, rx, unacked, exchange>> /\ (cur' = cur \/ pc' = "poll")
      BY <1>a, LooksOnly, SizeTaken DEF NextSocket
    <2>2. ~InHand(r) /\ ~InHand(r)' /\ Alive(r)' = Alive(r)
      BY <2>1 DEF InHand, Alive, Connected
    <2> QED BY <2>1, <2>2 DEF SameFor, Waiting, WaitingBytes, OnTheWay, Mute
  <1> SUFFICES ASSUME ~(Looks \/ ReadSize) PROVE SameFor(r)
    BY <1>a
  <1> USE DEF Looks
  <1>1. cur' = cur \/ pc' = "poll"
    BY DEF taskNetEntry, OpenSocket, StartListen, ListenOk, ListenFails, PollEstablished,
           NothingToDo, PollCloseWait, NothingOnItsWay, TakeData, RecvFails,
           ParseRefused, ParseOk, WaitForRoom, SendChecksStatus, SendokSeen, SendTimedOut,
           SendBusy, SendChecksAgain, Transmit, Disconnect, Disconnected, NotYetClosed,
           NoTimeoutYet, DisconnectTimedOut, NextSocket, Continue, GoTo, FailFrom
  <1>2. sr'[r] = sr[r]
    BY <1>0
       DEF taskNetEntry, OpenSocket, StartListen, ListenOk, ListenFails, PollEstablished,
           NothingToDo, PollCloseWait, NothingOnItsWay, TakeData, RecvFails,
           ParseRefused, ParseOk, WaitForRoom, SendChecksStatus, SendokSeen, SendTimedOut,
           SendBusy, SendChecksAgain, Transmit, Disconnect, Disconnected, NotYetClosed,
           NoTimeoutYet, DisconnectTimedOut, chipVars, Close, CloseAndOpen, Listen, Discon,
           Recv, Send, ClearSendok
  <1>3. rx'[r] = rx[r] /\ unacked'[r] = unacked[r]
    BY <1>0
       DEF taskNetEntry, OpenSocket, StartListen, ListenOk, ListenFails, PollEstablished,
           NothingToDo, PollCloseWait, NothingOnItsWay, TakeData, RecvFails,
           ParseRefused, ParseOk, WaitForRoom, SendChecksStatus, SendokSeen, SendTimedOut,
           SendBusy, SendChecksAgain, Transmit, Disconnect, Disconnected, NotYetClosed,
           NoTimeoutYet, DisconnectTimedOut, chipVars, Close, CloseAndOpen, Listen, Discon,
           Recv, Send, ClearSendok
  <1>4. exchange'[r] = exchange[r]
    BY <1>0
       DEF taskNetEntry, OpenSocket, StartListen, ListenOk, ListenFails, PollEstablished,
           NothingToDo, PollCloseWait, NothingOnItsWay, TakeData, RecvFails,
           ParseRefused, ParseOk, WaitForRoom, SendChecksStatus, SendokSeen, SendTimedOut,
           SendBusy, SendChecksAgain, Transmit, Disconnect, Disconnected, NotYetClosed,
           NoTimeoutYet, DisconnectTimedOut
  <1>5. ~InHand(r) /\ ~InHand(r)'
    BY <1>1 DEF InHand
  <1>6. Alive(r)' = Alive(r)
    BY <1>1, <1>2 DEF Alive, Connected
  <1> QED BY <1>3, <1>4, <1>5, <1>6 DEF SameFor, Waiting, WaitingBytes, OnTheWay, Mute

\* Bytes counted as requests.
LEMMA CountRequests ==
    ASSUME NEW a \in Nat, NEW b \in Nat, Whole(a), Whole(b), b > 0
    PROVE  \E n \in 1 .. (a + b) \div ReqLen : a \div ReqLen = ((a + b) \div ReqLen) - n
  <1>0. ReqLen \in Nat \ {0}
    BY W5500Assumption
  <1>1. PICK k \in Nat : a = k * ReqLen
    BY DEF Whole
  <1>2. PICK m \in Nat : b = m * ReqLen
    BY DEF Whole
  <1>3. \A n \in Nat : (n * ReqLen) \div ReqLen = n
    BY <1>0
  <1>4. a + b = (k + m) * ReqLen
    BY <1>0, <1>1, <1>2
  <1>5. m # 0
    BY <1>0, <1>2
  <1>6. a \div ReqLen = k /\ (a + b) \div ReqLen = k + m
    BY <1>1, <1>3, <1>4
  <1> QED BY <1>5, <1>6

\* One more request.
LEMMA CountOneMore ==
    ASSUME NEW a \in Nat
    PROVE  (a + ReqLen) \div ReqLen = (a \div ReqLen) + 1
  BY W5500Assumption

\* What the turn does to the socket whose turn it is.
LEMMA TurnMoves ==
    ASSUME WholeInv, ServeFacts, taskNetEntry, NEW c \in Soc, c = cur
    PROVE  SameFor(c) \/ GivesUp(c) \/ Answers(c) \/ Refuses(c)
  <1>0. /\ sr \in [Soc -> {"CLOSED", "INIT", "LISTEN", "SYNRECV", "ESTABLISHED",
                           "CLOSE_WAIT", "CLOSING"}]
        /\ local \in Locals
        /\ cur \in Soc /\ rx \in [Soc -> Seq(Byte)] /\ unacked \in [Soc -> Nat]
        /\ exchange \in [Soc -> {"idle", "res_inProc"}]
    BY DEF WholeInv, TcpInv, ServerTypeOK, ChipTypeOK
  <1> USE DEF InHand, Alive, Connected
  <1>1. CASE OpenSocket \/ StartListen
    <2>1. ~Alive(c) /\ ~Alive(c)' /\ Mute(c)' = Mute(c)
      BY <1>0, <1>1
      DEF OpenSocket, StartListen, CloseAndOpen, Listen, NextSocket, Continue, GoTo, Mute
    <2> QED BY <2>1 DEF GivesUp
  <1>2. CASE ListenFails \/ NothingOnItsWay \/ RecvFails \/ SendTimedOut
    <2>1. ~Alive(c)' /\ (Mute(c) => Mute(c)')
      BY <1>0, <1>2
      DEF ListenFails, NothingOnItsWay, RecvFails, SendTimedOut, Close, Continue,
          FailFrom, GoTo, Mute
    <2> QED BY <2>1 DEF GivesUp
  <1>3. CASE DisconnectTimedOut
    <2>1. ~Alive(c)' /\ (Mute(c) => Mute(c)')
      BY <1>0, <1>3
      DEF DisconnectTimedOut, Close, NextSocket, Continue, GoTo, Mute, ServeFacts
    <2> QED BY <2>1 DEF GivesUp
  <1>4. CASE ListenOk \/ NothingToDo \/ PollEstablished \/ Looks \/ ReadSize \/ Disconnected
             \/ NotYetClosed \/ NoTimeoutYet
    <2>1. UNCHANGED <<sr, rx, unacked, exchange>>
          /\ pc \notin {"discon", "pending", "fsr", "send", "sendIr", "sendFsr", "transmit"}
          /\ pc' \notin {"discon", "pending", "fsr", "send", "sendIr", "sendFsr", "transmit"}
      <3>1. CASE Looks \/ ReadSize
        BY <3>1, LooksOnly, SizeTaken DEF NextSocket, WholeInv, TcpInv
      <3>2. CASE ~(Looks \/ ReadSize)
        BY <1>4, <3>2
        DEF ListenOk, NothingToDo, PollEstablished, Disconnected, NotYetClosed, NoTimeoutYet,
            chipVars, NextSocket, Continue, GoTo
      <3> QED BY <3>1, <3>2
    <2>2. ~InHand(c) /\ ~(InHand(c)') /\ Alive(c)' = Alive(c)
      BY <2>1
    <2> QED BY <2>1, <2>2 DEF SameFor, Waiting, WaitingBytes, OnTheWay, Mute
  <1>5. CASE ParseOk \/ WaitForRoom \/ SendokSeen
             \/ (SendChecksStatus /\ pc' # "discon") \/ (SendChecksAgain /\ pc' # "discon")
    <2>1. /\ UNCHANGED <<sr, rx, unacked, local, cur>>
          /\ pc' \in {"fsr", "send", "sendIr", "sendFsr", "transmit"}
      BY <1>5
      DEF ParseOk, WaitForRoom, SendokSeen, SendChecksStatus, SendChecksAgain, chipVars,
          ClearSendok, Continue, FailFrom, GoTo
    <2>2. pc \in {"pending", "fsr", "send", "sendIr", "sendFsr"}
      BY <1>5 DEF ParseOk, WaitForRoom, SendokSeen, SendChecksStatus, SendChecksAgain
    <2>3. InHand(c) /\ InHand(c)' /\ Alive(c)' = Alive(c)
      BY <2>1, <2>2
    <2> QED BY <2>1, <2>3 DEF SameFor, Waiting, WaitingBytes, OnTheWay, Mute
  <1>6. CASE PollCloseWait \/ SendBusy \/ (SendChecksStatus /\ pc' = "discon")
             \/ (SendChecksAgain /\ pc' = "discon") \/ (TakeData /\ pc' = "discon")
    <2>1. pc' = "discon" /\ cur' = cur /\ exchange' = exchange
      BY <1>6
      DEF PollCloseWait, SendBusy, SendChecksStatus, SendChecksAgain, TakeData, FailFrom, GoTo,
          Continue
    <2> QED BY <2>1 DEF GivesUp, Mute
  <1>7. CASE Disconnect
    <2>1. ~Alive(c)' /\ Mute(c)' = Mute(c)
      BY <1>0, <1>7 DEF Disconnect, Discon, Continue, GoTo, Mute
    <2> QED BY <2>1 DEF GivesUp
  <1>8. CASE TakeData /\ pc' # "discon"
    <2> DEFINE n == IF local.recvsize < BufLen THEN local.recvsize ELSE BufLen
    <2>1. n \in Nat /\ n <= Len(rx[cur]) /\ n = local.size
      BY <1>0, <1>8, W5500Assumption
      DEF TakeData, WholeInv, TcpInv, SizesAreLowerBounds, FailFrom, GoTo, Locals
    <2>2. Len(SubSeq(rx[cur], n + 1, Len(rx[cur]))) = Len(rx[cur]) - n
      BY <1>0, <2>1, TakenFromBuffer, SubSeqProperties
    <2>3. /\ pc = "recvSr" /\ pc' = "pending" /\ UNCHANGED <<sr, cur, local, unacked, exchange>>
          /\ Len(rx'[cur]) = Len(rx[cur]) - local.size
      BY <1>0, <1>8, <2>1, <2>2 DEF TakeData, Recv, Continue, FailFrom, GoTo
    <2>4. exchange[cur] = "idle" /\ Alive(c)' = Alive(c)
      BY <2>3 DEF ServeFacts
    <2>5. WaitingBytes(c)' = WaitingBytes(c)
      <3>1. WaitingBytes(c) = Len(rx[c])
        BY <1>0, <2>3 DEF WaitingBytes
      <3>2. WaitingBytes(c)' = Len(rx'[c]) + local.size
        BY <2>3 DEF WaitingBytes
      <3>3. Len(rx[c]) \in Nat /\ local.size \in Nat
        BY <1>0 DEF Locals
      <3> QED BY <2>3, <3>1, <3>2, <3>3
    <2> QED BY <2>3, <2>4, <2>5 DEF SameFor, Waiting, OnTheWay, Mute
  <1>9. ASSUME Alive(c), pc \in {"pending", "transmit"}, pc' = "poll", cur' \in Soc,
               sr' = sr, rx' = rx
        PROVE  Alive(c)' /\ \E n \in 1 .. Waiting(c) : Waiting(c)' = Waiting(c) - n
    <2>1. /\ local.size > 0 /\ local.size \in Nat /\ Whole(local.size)
          /\ Len(rx[cur]) \in Nat /\ Whole(Len(rx[cur]))
      <3>1. local.size > 0
        BY <1>9 DEF WholeInv, TcpInv, ReceivedOwn
      <3>2. local.size \in Nat /\ Len(rx[cur]) \in Nat
        BY <1>0 DEF Locals
      <3>3. Whole(local.size) /\ Whole(Len(rx[cur]))
        BY <1>9 DEF WholeInv, WholeRequests
      <3> QED BY <3>1, <3>2, <3>3
    <2>2. Waiting(c) = (Len(rx[cur]) + local.size) \div ReqLen
      BY <1>9 DEF Waiting, WaitingBytes
    <2>3. Alive(c)' /\ Waiting(c)' = Len(rx[cur]) \div ReqLen
      BY <1>0, <1>9, <2>1 DEF Waiting, WaitingBytes
    <2> QED BY <2>1, <2>2, <2>3, CountRequests
  <1>10. CASE ParseRefused
    <2>1. pc = "pending" /\ pc' = "poll" /\ UNCHANGED <<sr, rx, unacked>>
          /\ exchange'[cur] = "res_inProc"
      BY <1>0, <1>10 DEF ParseRefused, chipVars, NextSocket
    <2>2. ~Mute(c) /\ Mute(c)' /\ cur' \in Soc
      BY <1>0, <1>10, <2>1, W5500Assumption DEF Mute, ParseRefused, NextSocket, Soc
    <2>3. CASE Alive(c)
      BY <1>9, <2>1, <2>2, <2>3 DEF Refuses, OnTheWay
    <2>4. CASE ~Alive(c)
      BY <2>1, <2>2, <2>4 DEF GivesUp
    <2> QED BY <2>3, <2>4
  <1>11. CASE Transmit
    <2>1. pc = "transmit" /\ pc' = "poll" /\ UNCHANGED <<sr, rx>> /\ exchange'[cur] = "idle"
          /\ cur' \in Soc
      BY <1>0, <1>11, W5500Assumption DEF Transmit, Send, NextSocket, Soc
    <2>2. ~Mute(c) /\ ~Mute(c)'
      BY <2>1 DEF Mute
    <2>3. CASE Alive(c)
      <3>1. unacked[cur] = 0
        BY <1>0, <2>1, <2>3 DEF WholeInv, TcpInv, SendIsTracked
      <3>2. unacked'[cur] = 1
        BY <1>0, <1>11, <2>3, <3>1 DEF Transmit, Send
      <3> QED BY <1>9, <2>1, <2>2, <2>3, <3>1, <3>2 DEF Answers, OnTheWay
    <2>4. CASE ~Alive(c)
      BY <2>1, <2>2, <2>4 DEF GivesUp
    <2> QED BY <2>3, <2>4
  <1> QED
    BY <1>1, <1>2, <1>3, <1>4, <1>5, <1>6, <1>7, <1>8, <1>10, <1>11 DEF taskNetEntry, Looks

LEMMA NetworkMoves ==
    ASSUME "fragment" \notin Events, WholeInv, ServeFacts, NEW s \in Soc,
           Connect(s) \/ Progress(s) \/ Choice(s)
    PROVE  /\ \A r \in Soc \ {s} : SameFor(r)
           /\ SameFor(s) \/ GivesUp(s) \/ Asks(s) \/ Connects(s) \/ Acknowledges(s)
  <1>0. /\ sr \in [Soc -> {"CLOSED", "INIT", "LISTEN", "SYNRECV", "ESTABLISHED",
                           "CLOSE_WAIT", "CLOSING"}]
        /\ local \in Locals
        /\ cur \in Soc /\ rx \in [Soc -> Seq(Byte)] /\ unacked \in [Soc -> Nat]
    BY DEF WholeInv, TcpInv, ServerTypeOK, ChipTypeOK
  <1>1. UNCHANGED <<pc, cur, local, exchange>>
    BY DEF Connect, Progress, Choice, taskVars
  <1>2. \A r \in Soc : InHand(r)' = InHand(r) /\ Mute(r)' = Mute(r)
    BY <1>1 DEF InHand, Mute
  <1>3. \A r \in Soc \ {s} : sr'[r] = sr[r] /\ rx'[r] = rx[r] /\ unacked'[r] = unacked[r]
    BY <1>0
    DEF Connect, Syn, Progress, Established, Ack, Closed, Choice, Data, Arrive, Fin, Reset,
        Timeout
  <1>4. \A r \in Soc \ {s} : SameFor(r)
    BY <1>1, <1>2, <1>3
    DEF SameFor, Alive, Connected, Waiting, WaitingBytes, OnTheWay
  <1>5. CASE Data(s)
    <2>0. ChipTypeOK
      BY DEF WholeInv, TcpInv, ServerTypeOK
    <2>1. sr' = sr /\ sr[s] = "ESTABLISHED" /\ unacked' = unacked
      BY <1>5, <2>0, DataArrives
    <2>2. PICK q \in Seq(Byte) : rx' = [rx EXCEPT ![s] = q] /\ Len(q) = Len(rx[s]) + ReqLen
      BY <1>5, <2>0, DataArrives
    <2>3. Len(rx'[s]) = Len(rx[s]) + ReqLen
      BY <1>0, <2>2
    <2>4. Alive(s)' = Alive(s)
      BY <1>1, <2>1 DEF Alive, Connected
    <2>5. CASE Alive(s)
      <3>1. WaitingBytes(s)' = WaitingBytes(s) + ReqLen /\ WaitingBytes(s) \in Nat
        <4>1. Len(rx[s]) \in Nat /\ local.size \in Nat /\ ReqLen \in Nat
          BY <1>0, W5500Assumption DEF Locals
        <4> QED BY <1>1, <1>2, <2>3, <4>1 DEF WaitingBytes
      <3>2. Waiting(s)' = Waiting(s) + 1
        BY <2>4, <2>5, <3>1, CountOneMore DEF Waiting
      <3> QED BY <1>2, <1>4, <2>1, <2>4, <2>5, <3>2 DEF Asks, OnTheWay
    <2>6. CASE ~Alive(s)
      BY <1>2, <1>4, <2>4, <2>6 DEF SameFor, Waiting, OnTheWay
    <2> QED BY <2>5, <2>6
  <1>6. CASE Established(s)
    <2>1. sr[s] = "SYNRECV" /\ sr'[s] = "ESTABLISHED" /\ UNCHANGED <<rx, unacked>>
      BY <1>0, <1>6 DEF Established
    <2>2. rx[s] = <<>> /\ unacked[s] = 0
      BY <2>1 DEF ServeFacts, WholeInv, TcpInv, SendIsTracked
    <2>3. ~Alive(s)
      BY <2>1 DEF Alive, Connected
    <2>4. ~(s = cur /\ pc \notin {"poll", "listen"})
      BY <2>1 DEF WholeInv, TcpInv, InConversation
    <2>5. Alive(s)' /\ ~InHand(s)'
      BY <1>1, <2>1, <2>4 DEF Alive, Connected, InHand
    <2>6. Waiting(s)' = 0 /\ OnTheWay(s)' = 0
      <3>1. (Len(<<>>) + 0) \div ReqLen = 0
        BY W5500Assumption
      <3> QED BY <2>1, <2>2, <2>5, <3>1 DEF Waiting, WaitingBytes, OnTheWay
    <2> QED BY <1>2, <1>4, <2>3, <2>5, <2>6 DEF Connects
  <1>7. CASE Ack(s)
    <2>1. sr' = sr /\ rx' = rx /\ unacked[s] > 0 /\ unacked'[s] = 0
      BY <1>0, <1>7 DEF Ack
    <2>2. unacked[s] = 1
      BY <1>0, <2>1 DEF WholeInv, TcpInv, SendIsTracked
    <2>3. Alive(s)' = Alive(s) /\ Waiting(s)' = Waiting(s)
      BY <1>1, <1>2, <2>1 DEF Alive, Connected, Waiting, WaitingBytes
    <2>4. CASE Alive(s)
      BY <1>2, <1>4, <2>1, <2>2, <2>3, <2>4 DEF Acknowledges, OnTheWay
    <2>5. CASE ~Alive(s)
      BY <1>2, <1>4, <2>3, <2>5 DEF SameFor, OnTheWay
    <2> QED BY <2>4, <2>5
  <1>8. CASE Fin(s)
    <2>1. UNCHANGED <<rx, unacked>> /\ sr[s] = "ESTABLISHED" /\ sr'[s] = "CLOSE_WAIT"
      BY <1>0, <1>8 DEF Fin
    <2>2. Alive(s)' = Alive(s)
      BY <1>1, <2>1 DEF Alive, Connected
    <2> QED BY <1>1, <1>2, <1>4, <2>1, <2>2 DEF SameFor, Waiting, WaitingBytes, OnTheWay
  <1>9. CASE Syn(s) \/ Closed(s) \/ Reset(s) \/ Timeout(s)
    <2>1. sr'[s] \in {"SYNRECV", "CLOSED"}
      BY <1>0, <1>9 DEF Syn, Closed, Reset, Timeout
    <2>2. ~Alive(s)'
      BY <2>1 DEF Alive, Connected
    <2> QED BY <1>2, <1>4, <2>2 DEF GivesUp
  <1> QED BY <1>5, <1>6, <1>7, <1>8, <1>9 DEF Connect, Progress, Choice

\* No request is answered twice, none without being asked on the same
\* connection, and none on a socket where an answer has failed: the server
\* implements RequestServer, when requests come in one segment
\* (Eth.c:191-329, modbusTCP.c:48-75).
THEOREM TcpImplementsRequestServer ==
    ASSUME "fragment" \notin Events
    PROVE  Spec => ImplementsRequestServer
  <1>1. Init => ServeFacts
    BY DEF Init, ChipInit, ServeFacts
  <1>2. WholeInv /\ ServeFacts /\ [Next]_vars => ServeFacts'
    BY ServeStep
  <1>3. Init => Promise!ServerInit
    BY DEF Init, ChipInit, Promise!ServerInit, Alive, Connected, InHand
  <1>4. WholeInv /\ ServeFacts /\ [Next]_vars => [Promise!ServerNext]_(Promise!serverVars)
    <2> SUFFICES ASSUME WholeInv, ServeFacts, [Next]_vars
                 PROVE  [Promise!ServerNext]_(Promise!serverVars)
      OBVIOUS
    <2>1. CASE taskNetEntry
      <3>1. PICK c \in Soc : c = cur
        BY DEF WholeInv, TcpInv, ServerTypeOK
      <3>2. \A r \in Soc \ {c} : SameFor(r)
        BY <2>1, <3>1, OthersStay DEF WholeInv, TcpInv
      <3>3. SameFor(c) \/ GivesUp(c) \/ Answers(c) \/ Refuses(c)
        BY <2>1, <3>1, TurnMoves
      <3> QED BY <3>2, <3>3, OneMoves
    <2>2. CASE Network
      <3>1. PICK s \in Soc : Connect(s) \/ Progress(s) \/ Choice(s)
        BY <2>2 DEF Network
      <3> QED BY <3>1, NetworkMoves, OneMoves
    <2>3. CASE UNCHANGED vars
      <3>1. \A r \in Soc : SameFor(r)
        BY <2>3
        DEF vars, chipVars, taskVars, SameFor, Alive, Connected, InHand, Waiting, WaitingBytes,
            OnTheWay, Mute
      <3>2. PICK c \in Soc : c = cur
        BY DEF WholeInv, TcpInv, ServerTypeOK
      <3> QED BY <3>1, <3>2, OneMoves
    <2> QED BY <2>1, <2>2, <2>3 DEF Next
  <1> QED
    BY <1>1, <1>2, <1>3, <1>4, WholeInvariant, PTL
    DEF Spec, ImplementsRequestServer, Promise!ServerSpec

-----------------------------------------------------------------------------
(* Error_Handler.                                                          *)

\* Only the driver opens a socket: what listen() finds is never SOCK_INIT.
Listened == pc = "listen" => sr[cur] # "INIT"

LEMMA ListenedStep ==
    ASSUME TcpInv, Listened, [Next]_vars
    PROVE  Listened'
  <1>0. cur \in Soc /\ sr \in [Soc -> {"CLOSED", "INIT", "LISTEN", "SYNRECV", "ESTABLISHED",
                                       "CLOSE_WAIT", "CLOSING"}]
    BY DEF TcpInv, ServerTypeOK, ChipTypeOK
  <1>1. CASE StartListen
    BY <1>0, <1>1 DEF StartListen, Listen, Continue, GoTo, Listened
  <1>2. CASE taskNetEntry /\ ~StartListen
    <2>1. pc' # "listen"
      BY <1>2
      DEF taskNetEntry, OpenSocket, ListenOk, ListenFails, PollEstablished, NothingToDo,
          PollCloseWait, ReadSizeHi, ReadSize, ReadRecvSizeHi, ReadRecvSize, ReadHi,
          NoDataYet, NoDataAnymore, AnswerOnItsWay, NothingOnItsWay, TakeData, RecvFails,
          ParseRefused, ParseOk, WaitForRoom, SendChecksStatus, SendokSeen, SendTimedOut,
          SendBusy, SendChecksAgain, Transmit, Disconnect, Disconnected, NotYetClosed,
          NoTimeoutYet, DisconnectTimedOut, NextSocket, Continue, GoTo, FailFrom
    <2> QED BY <2>1 DEF Listened
  <1>3. CASE Network
    <2>1. PICK s \in Soc : Connect(s) \/ Progress(s) \/ Choice(s)
      BY <1>3 DEF Network
    <2>2. UNCHANGED <<pc, cur>> /\ (sr'[cur] = "INIT" => sr[cur] = "INIT")
      BY <1>0, <2>1
      DEF Connect, Syn, Progress, Established, Ack, Closed, Choice, Data, Arrive, Fin, Reset,
          Timeout, taskVars
    <2> QED BY <2>2 DEF Listened
  <1>4. CASE UNCHANGED vars
    BY <1>4 DEF vars, chipVars, taskVars, Listened
  <1> QED BY <1>1, <1>2, <1>3, <1>4 DEF Next

\* The program only stops for a peer that vanished while it disconnected, or
\* for one that connected before listen() looked (freertos.c:245-252,
\* socket.c:241-254).
THEOREM TcpHaltsOnlyForAPeer == Spec => HaltsOnlyForAPeer
  <1>1. Init => Listened
    BY DEF Init, Listened
  <1>2. TcpInv /\ Listened /\ [Next]_vars => Listened'
    BY ListenedStep
  <1>3. Listened /\ [Next]_vars =>
            [pc # "halt" /\ pc' = "halt" =>
                tmo[cur] = 1 \/ (pc = "listen" /\ sr[cur] \notin {"INIT", "LISTEN"})]_vars
    <2> SUFFICES ASSUME Listened, Next, pc # "halt", pc' = "halt"
                 PROVE  tmo[cur] = 1 \/ (pc = "listen" /\ sr[cur] \notin {"INIT", "LISTEN"})
      OBVIOUS
    <2>1. CASE Network
      BY <2>1 DEF Network, Connect, Progress, Choice, taskVars
    <2>2. CASE taskNetEntry
      <3>1. ListenFails \/ DisconnectTimedOut
        BY <2>2
        DEF taskNetEntry, OpenSocket, StartListen, ListenOk, PollEstablished, NothingToDo,
            PollCloseWait, ReadSizeHi, ReadSize, ReadRecvSizeHi, ReadRecvSize, ReadHi,
            NoDataYet, NoDataAnymore, AnswerOnItsWay, NothingOnItsWay, TakeData,
            RecvFails, ParseRefused, ParseOk, WaitForRoom, SendChecksStatus, SendokSeen,
            SendTimedOut, SendBusy, SendChecksAgain, Transmit, Disconnect, Disconnected,
            NotYetClosed, NoTimeoutYet, NextSocket, Continue, GoTo, FailFrom
      <3> QED BY <3>1 DEF ListenFails, DisconnectTimedOut, Listened
    <2> QED BY <2>1, <2>2 DEF Next
  <1> QED BY <1>1, <1>2, <1>3, TcpInvariant, PTL DEF Spec, HaltsOnlyForAPeer
=============================================================================
