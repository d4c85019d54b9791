--------------------------- MODULE MCAgentServices ---------------------------
(* Constants of AgentServices for TLC.                                     *)
EXTENDS AgentServices, TLC
=============================================================================
