-------------------------------- MODULE MCSpi --------------------------------
(* Three cells of memory and bursts of up to two bytes, which may wrap.     *)
EXTENDS SpiBus
=============================================================================
