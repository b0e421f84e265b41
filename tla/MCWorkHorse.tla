---------------------------- MODULE MCWorkHorse ----------------------------
(***************************************************************************)
(* Instances of WorkHorse for TLC.                                         *)
(***************************************************************************)
EXTENDS WorkHorse
=============================================================================
