-------------------------------- MODULE MCRtu --------------------------------
(***************************************************************************)
(* The RTU master with two register values.  A frame is three bytes, the   *)
(* address, one data byte and one byte that stands for the CRC, so that a  *)
(* frame shifted by one byte never has a right CRC.                        *)
(***************************************************************************)
EXTENDS RtuMaster, SequencesExt

MCRxSize == 3
MCByte   == {"adr", "v1", "v2", "crc1", "crc2", "noise"}
MCValue  == {"v1", "v2"}
MCFrame  == [v1 |-> <<"adr", "v1", "crc1">>, v2 |-> <<"adr", "v2", "crc2">>]
MCFaults == {"garbled", "late", "txtimeout"}

\* What becomes of the frame of one value (the values are alike): nothing
\* arrives, a byte is wrong, a byte is missing (an exception answer is short,
\* too), a byte is inserted.
Lost      == { <<>> }
Corrupted == { [MCFrame["v1"] EXCEPT ![i] = "noise"] : i \in 1 .. MCRxSize }
Shortened == { RemoveAt(MCFrame["v1"], i) : i \in 1 .. MCRxSize }
Inserted  == { InsertAt(MCFrame["v1"], i, "noise") : i \in 1 .. MCRxSize + 1 }

MCGarbled == Lost \cup Corrupted \cup Shortened \cup Inserted
=============================================================================
