-------------------------------- MODULE MCTcp --------------------------------
(***************************************************************************)
(* The TCP server with one or two of its four sockets.  A request has      *)
(* three bytes, of which the parser looks at the one in the middle.  The   *)
(* receive buffer holds two requests; the program's buffer may be smaller, *)
(* and with two requests the size is one whose high byte is not 0.         *)
(***************************************************************************)
EXTENDS TcpServer

AllEvents == {"earlySyn", "abort", "timeout", "pipeline", "fragment", "bad"}
=============================================================================
