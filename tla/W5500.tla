-------------------------------- MODULE W5500 --------------------------------
(***************************************************************************)
(* The W5500 as socket.c uses it: for each hardware socket the status      *)
(* register, the two interrupt bits the driver reads, the receive buffer   *)
(* and the data that is sent and not acknowledged.  The commands and       *)
(* register writes of the driver and the events of the network change      *)
(* them; a command is finished when Sn_CR reads 0, so it is one step.      *)
(*                                                                         *)
(* The receive buffer is a sequence of bytes.  All that matters of a byte  *)
(* is what the parser makes of it where it looks for unit and function: it *)
(* accepts "F", refuses "X", and may do either with data, "D".  Bytes of a *)
(* connection that is gone stay until OPEN.                                *)
(***************************************************************************)
EXTENDS Naturals, Sequences

CONSTANTS
    SocCnt,   \* MODBUS_TCP_SERVER_SOC_CNT, 4
    ReqLen,   \* bytes of a request, 12 for the functions that are served
    UnitFunc, \* its bytes that the parser looks at: unit, 7, and function, 8
    BufLen,   \* MODBUS_SS_BUF_CNT, 260
    TxMax,    \* answers that fit into the transmit buffer of 2 KB
    MaxRx,    \* bytes that fit into a receive buffer, 2 KB
    Radix,    \* of the two bytes in which Sn_RX_RSR is read, 256
    Events    \* what clients and the network do besides the ordinary

ASSUME W5500Assumption ==
    /\ SocCnt \in Nat \ {0}
    /\ ReqLen \in Nat \ {0} /\ UnitFunc \subseteq 1 .. ReqLen
    /\ BufLen \in Nat /\ BufLen >= ReqLen
    /\ Radix \in Nat \ {0}
    /\ TxMax \in Nat \ {0}
    /\ MaxRx \in Nat
    /\ Events \subseteq {"earlySyn", "abort", "timeout", "pipeline", "fragment", "bad"}

Soc == 0 .. SocCnt - 1

VARIABLES
    sr,       \* Sn_SR; CLOSING stands for FIN_WAIT, LAST_ACK and TIME_WAIT
    sendok,   \* Sn_IR: SENDOK
    tmo,      \* Sn_IR: TIMEOUT
    rx,       \* the receive buffer; Sn_RX_RSR is its length
    unacked,  \* answers that are sent and not acknowledged (TxMAX - Sn_TX_FSR)
    client    \* the bytes that the client has sent of the request it is at

chipVars == <<sr, sendok, tmo, rx, unacked, client>>

Byte == {"F", "X", "D"}

Request(h) == [i \in 1 .. ReqLen |-> IF i \in UnitFunc THEN h ELSE "D"]

ChipTypeOK ==
    /\ sr \in [Soc -> {"CLOSED", "INIT", "LISTEN", "SYNRECV", "ESTABLISHED",
                       "CLOSE_WAIT", "CLOSING"}]
    /\ sendok \in [Soc -> {0, 1}]
    /\ tmo \in [Soc -> {0, 1}]
    /\ rx \in [Soc -> Seq(Byte)]
    /\ unacked \in [Soc -> Nat]
    /\ client \in [Soc -> 0 .. ReqLen]

ChipInit ==
    /\ sr = [s \in Soc |-> "CLOSED"]
    /\ sendok = [s \in Soc |-> 0]
    /\ tmo = [s \in Soc |-> 0]
    /\ rx = [s \in Soc |-> <<>>]
    /\ unacked = [s \in Soc |-> 0]
    /\ client = [s \in Soc |-> 0]

\* The states in which send() may transmit.
Connected(s) == sr[s] \in {"ESTABLISHED", "CLOSE_WAIT"}

-----------------------------------------------------------------------------
(* Commands of the driver.                                                 *)

\* close(): CLOSE, and all interrupt bits are cleared.
Close(s) ==
    /\ sr' = [sr EXCEPT ![s] = "CLOSED"]
    /\ sendok' = [sendok EXCEPT ![s] = 0]
    /\ tmo' = [tmo EXCEPT ![s] = 0]
    /\ UNCHANGED <<rx, unacked, client>>

\* socket(): close(), then OPEN, which empties both buffers.
CloseAndOpen(s) ==
    /\ sr' = [sr EXCEPT ![s] = "INIT"]
    /\ sendok' = [sendok EXCEPT ![s] = 0]
    /\ tmo' = [tmo EXCEPT ![s] = 0]
    /\ rx' = [rx EXCEPT ![s] = <<>>]
    /\ unacked' = [unacked EXCEPT ![s] = 0]
    /\ UNCHANGED client

Listen(s) ==
    /\ sr' = [sr EXCEPT ![s] = "LISTEN"]
    /\ UNCHANGED <<sendok, tmo, rx, unacked, client>>

Discon(s) ==
    /\ sr' = IF Connected(s) THEN [sr EXCEPT ![s] = "CLOSING"] ELSE sr
    /\ UNCHANGED <<sendok, tmo, rx, unacked, client>>

Recv(s, n) ==
    /\ rx' = [rx EXCEPT ![s] = SubSeq(rx[s], n + 1, Len(rx[s]))]
    /\ UNCHANGED <<sr, sendok, tmo, unacked, client>>

Send(s) ==
    /\ unacked' = IF Connected(s) THEN [unacked EXCEPT ![s] = @ + 1] ELSE unacked
    /\ UNCHANGED <<sr, sendok, tmo, rx, client>>

ClearSendok(s) ==
    /\ sendok' = [sendok EXCEPT ![s] = 0]
    /\ UNCHANGED <<sr, tmo, rx, unacked, client>>

-----------------------------------------------------------------------------
(* Events of the network.                                                  *)

Syn(s) ==
    /\ sr[s] = "LISTEN"
    /\ sr' = [sr EXCEPT ![s] = "SYNRECV"]
    /\ client' = [client EXCEPT ![s] = 0]
    /\ UNCHANGED <<sendok, tmo, rx, unacked>>

Established(s) ==
    /\ sr[s] = "SYNRECV"
    /\ sr' = [sr EXCEPT ![s] = "ESTABLISHED"]
    /\ UNCHANGED <<sendok, tmo, rx, unacked, client>>

Arrive(s, data) ==
    /\ sr[s] = "ESTABLISHED"
    /\ Len(rx[s]) + Len(data) <= MaxRx
    /\ rx' = [rx EXCEPT ![s] = rx[s] \o data]
    /\ UNCHANGED <<sr, sendok, tmo, unacked>>

\* It has an answer to everything it asked, or nothing to ask yet.
Idle(s) == client[s] = 0

\* The client sends a request in one segment, when it has the answer to the
\* one before.  It may also send without waiting, send a request the parser
\* refuses, or send a request in segments that end anywhere.
Data(s) ==
    \E h \in {"F", "X"}, from \in 0 .. ReqLen - 1, to \in 1 .. ReqLen :
        /\ from < to
        /\ client[s] = from \/ ("pipeline" \in Events /\ client[s] = ReqLen /\ from = 0)
        /\ "bad" \in Events \/ h = "F"
        /\ "fragment" \in Events \/ (from = 0 /\ to = ReqLen)
        /\ Arrive(s, SubSeq(Request(h), from + 1, to))
        /\ client' = [client EXCEPT ![s] = to]

\* The client has the answer and acknowledges it.
Ack(s) ==
    /\ unacked[s] > 0
    /\ Connected(s) \/ sr[s] = "CLOSING"
    /\ unacked' = [unacked EXCEPT ![s] = 0]
    /\ sendok' = [sendok EXCEPT ![s] = 1]
    /\ client' = [client EXCEPT ![s] = IF @ = ReqLen THEN 0 ELSE @]
    /\ UNCHANGED <<sr, tmo, rx>>

\* The client closes its side, in the ordinary case between two requests.
Fin(s) ==
    /\ sr[s] = "ESTABLISHED"
    /\ "abort" \in Events \/ Idle(s)
    /\ sr' = [sr EXCEPT ![s] = "CLOSE_WAIT"]
    /\ UNCHANGED <<sendok, tmo, rx, unacked, client>>

\* The client answers our FIN with its own.
Closed(s) ==
    /\ sr[s] = "CLOSING"
    /\ sr' = [sr EXCEPT ![s] = "CLOSED"]
    /\ UNCHANGED <<sendok, tmo, rx, unacked, client>>

Reset(s) ==
    /\ "abort" \in Events
    /\ Connected(s)
    /\ sr' = [sr EXCEPT ![s] = "CLOSED"]
    /\ UNCHANGED <<sendok, tmo, rx, unacked, client>>

\* The retransmissions (RCR) of a SYN/ACK, of data or of a FIN are used up.
Timeout(s) ==
    /\ "timeout" \in Events
    /\ sr[s] \in {"SYNRECV", "CLOSING"} \/ (Connected(s) /\ unacked[s] > 0)
    /\ sr' = [sr EXCEPT ![s] = "CLOSED"]
    /\ tmo' = [tmo EXCEPT ![s] = 1]
    /\ UNCHANGED <<sendok, rx, unacked, client>>
=============================================================================
