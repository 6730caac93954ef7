------------------------------ MODULE MCCtapHid ------------------------------
(***************************************************************************)
(* Constants of CtapHid for TLC: two channels, a queue shorter than the       *)
(* longest message.                                                          *)
(***************************************************************************)
EXTENDS CtapHid, TLC

CONSTANTS c1, c2

MCMessages == c1 :> 2 @@ c2 :> 1
=============================================================================
