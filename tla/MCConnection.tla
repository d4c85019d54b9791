---------------------------- MODULE MCConnection ----------------------------
(* Constants of Connection for TLC.                                        *)
EXTENDS Connection, TLC
=============================================================================
