----------------------------- MODULE MCMbufData -----------------------------
(***************************************************************************)
(* An instance of MbufData for TLC.                                        *)
(***************************************************************************)
EXTENDS MbufData
=============================================================================
