------------------------------ MODULE MCModbus ------------------------------
(***************************************************************************)
(* The Modbus slave with two registers whose numbers lie on both sides of  *)
(* a byte boundary, and requests around every limit it checks.             *)
(***************************************************************************)
EXTENDS ModbusSS

MCRegNo == 255
MCWord  == {258, 65280}

MCAsked ==
    [slave : {1}, func : {3, 6}, reg : {254, 255, 256, 257, 65535}, value : {0, 1, 2, 3, 129}]
        \cup [slave : {1}, func : {1, 16, 43}, reg : {255}, value : {1}]
        \cup [slave : {2}, func : {3, 6}, reg : {255}, value : {1}]
=============================================================================
