----------------------------- MODULE MCCallData -----------------------------
(* CallData for TLC; its constants are given in the configurations. *)
EXTENDS CallData
=============================================================================
