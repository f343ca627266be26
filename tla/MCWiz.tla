-------------------------------- MODULE MCWiz --------------------------------
(***************************************************************************)
(* A ring of four bytes whose fill level needs two digits of three values, *)
(* and pointers that wrap after two rounds.                                *)
(***************************************************************************)
EXTENDS WizBuffer
=============================================================================
