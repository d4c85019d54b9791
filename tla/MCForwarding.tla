---------------------------- MODULE MCForwarding ----------------------------
(* Constants of Forwarding for TLC.  Requests are alike, and gateways too.  *)
EXTENDS Forwarding, TLC

Symmetry == Permutations(Requests) \cup Permutations(Gateways)
=============================================================================
