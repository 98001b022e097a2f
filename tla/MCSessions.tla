------------------------------ MODULE MCSessions ------------------------------
(***************************************************************************)
(* Sessions on a small instance: three spycs, two files at most, three     *)
(* conversations, one failed save.                                         *)
(***************************************************************************)
EXTENDS Sessions
=============================================================================
