----------------------------- MODULE MCStanding -----------------------------
(***************************************************************************)
(* Instances of Standing for TLC.                                          *)
(***************************************************************************)
EXTENDS Standing
=============================================================================
