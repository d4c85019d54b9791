---------------------------- MODULE MCSupervisor ----------------------------
(* Constants of Supervisor for TLC.                                        *)
EXTENDS Supervisor, TLC
=============================================================================
