---------------------------- MODULE MCApiGateway ----------------------------
(* Constants of ApiGateway for TLC.  The response channel is shorter than   *)
(* the code's eight, and the stream with it, so that StreamLen + 1 is still  *)
(* exactly RespCap + 3.                                                      *)
EXTENDS ApiGateway, TLC
=============================================================================
