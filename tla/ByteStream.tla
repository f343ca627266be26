------------------------------ MODULE ByteStream ------------------------------
(***************************************************************************)
(* What one direction of a socket promises, without pointers, rings and    *)
(* registers: a queue of bytes.  Receiving, the peer appends, and the      *)
(* program reads the oldest bytes and then releases exactly those.         *)
(* Sending, the program appends whole messages where there is room, and    *)
(* the peer takes the oldest byte.  Opening the socket anew empties it.    *)
(***************************************************************************)
EXTENDS Naturals, Sequences

CONSTANTS
    Size,    \* the bytes there is room for
    Value,   \* bytes
    Message  \* what the program sends

VARIABLES
    dir,     \* "rx" or "tx"
    queue,
    data     \* rx: read and not released; tx: the message to be sent

streamVars == <<dir, queue, data>>

Idle == IF dir = "rx" THEN {<<>>} ELSE Message

StreamInit ==
    /\ dir \in {"rx", "tx"}
    /\ queue = <<>>
    /\ data \in Idle

PeerPuts ==
    /\ dir = "rx" /\ Len(queue) < Size
    /\ \E v \in Value : queue' = Append(queue, v)
    /\ UNCHANGED <<dir, data>>

PeerGets ==
    /\ dir = "tx" /\ queue # <<>>
    /\ queue' = Tail(queue)
    /\ UNCHANGED <<dir, data>>

ReadOldest ==
    /\ dir = "rx" /\ data = <<>>
    /\ \E n \in 1 .. Len(queue) : data' = SubSeq(queue, 1, n)
    /\ UNCHANGED <<dir, queue>>

Release ==
    /\ dir = "rx" /\ data # <<>>
    /\ queue' = SubSeq(queue, Len(data) + 1, Len(queue))
    /\ data' = <<>>
    /\ UNCHANGED dir

Write ==
    /\ dir = "tx" /\ Len(queue) + Len(data) <= Size
    /\ queue' = queue \o data
    /\ data' \in Message
    /\ UNCHANGED dir

Reset ==
    /\ queue' = <<>>
    /\ data' \in Idle
    /\ UNCHANGED dir

StreamNext == PeerPuts \/ PeerGets \/ ReadOldest \/ Release \/ Write \/ Reset

StreamSpec == StreamInit /\ [][StreamNext]_streamVars
=============================================================================
