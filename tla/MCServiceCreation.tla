-------------------------- MODULE MCServiceCreation --------------------------
(* Constants of ServiceCreation for TLC.                                   *)
EXTENDS ServiceCreation, TLC
=============================================================================
