------------------------------ MODULE MCGateway ------------------------------
(***************************************************************************)
(* A frame of one byte, so that every byte ends a poll; two of the five    *)
(* registers; and a client that writes a word no register can have.        *)
(***************************************************************************)
EXTENDS GatewaySystem

MCByte        == {"v1", "noise"}
MCValue       == {"v1"}
MCFrame       == [v \in MCValue |-> <<v>>]
MCGarbled     == {<<"noise">>}
MCFaults      == {"garbled", "late"}
MCQueries     == {<<1, 3>>, <<2, 3>>}
MCClientWords == {9}
=============================================================================
