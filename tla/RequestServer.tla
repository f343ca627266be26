---------------------------- MODULE RequestServer ----------------------------
(***************************************************************************)
(* What the TCP server promises to its clients, without registers, buffers *)
(* and functions that wait: on each socket, requests of the connection are *)
(* counted until they are answered.  An answer is only sent for a request  *)
(* that waits, one at a time, and no request is answered twice.  Requests  *)
(* that are read together get one answer.  Requests are given up with      *)
(* their connection, or when the parser refuses one: then the socket is    *)
(* mute, for this connection and all that follow.                          *)
(***************************************************************************)
EXTENDS Naturals

CONSTANTS Soc  \* the sockets

VARIABLES
    up,        \* the socket has a connection that the server has not given up
    waiting,   \* whole requests of that connection that are not answered
    onTheWay,  \* answers that are not acknowledged
    mute       \* the socket answers no more

serverVars == <<up, waiting, onTheWay, mute>>

ServerInit ==
    /\ up = [s \in Soc |-> FALSE]
    /\ waiting = [s \in Soc |-> 0]
    /\ onTheWay = [s \in Soc |-> 0]
    /\ mute = [s \in Soc |-> FALSE]

Connect(s) ==
    /\ ~up[s]
    /\ up' = [up EXCEPT ![s] = TRUE]
    /\ UNCHANGED <<waiting, onTheWay, mute>>

Ask(s) ==
    /\ up[s]
    /\ waiting' = [waiting EXCEPT ![s] = @ + 1]
    /\ UNCHANGED <<up, onTheWay, mute>>

Answer(s) ==
    /\ up[s] /\ ~mute[s] /\ onTheWay[s] = 0
    /\ \E n \in 1 .. waiting[s] : waiting' = [waiting EXCEPT ![s] = @ - n]
    /\ onTheWay' = [onTheWay EXCEPT ![s] = 1]
    /\ UNCHANGED <<up, mute>>

Acknowledge(s) ==
    /\ up[s] /\ onTheWay[s] = 1
    /\ onTheWay' = [onTheWay EXCEPT ![s] = 0]
    /\ UNCHANGED <<up, waiting, mute>>

Refuse(s) ==
    /\ up[s] /\ ~mute[s]
    /\ \E n \in 1 .. waiting[s] : waiting' = [waiting EXCEPT ![s] = @ - n]
    /\ mute' = [mute EXCEPT ![s] = TRUE]
    /\ UNCHANGED <<up, onTheWay>>

\* The connection ends, or the server ends it; an answer that fails, also on a
\* connection that is gone, leaves the socket mute.
GiveUp(s) ==
    /\ up' = [up EXCEPT ![s] = FALSE]
    /\ waiting' = [waiting EXCEPT ![s] = 0]
    /\ onTheWay' = [onTheWay EXCEPT ![s] = 0]
    /\ mute' \in {mute, [mute EXCEPT ![s] = TRUE]}

ServerNext ==
    \E s \in Soc :
        Connect(s) \/ Ask(s) \/ Answer(s) \/ Acknowledge(s) \/ Refuse(s) \/ GiveUp(s)

ServerSpec == ServerInit /\ [][ServerNext]_serverVars
=============================================================================
