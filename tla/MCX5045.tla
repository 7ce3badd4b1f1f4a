------------------------------ MODULE MCX5045 ------------------------------
(* Constants for checking X5045: two tasks, an address on either side of    *)
(* bit 8, a page of two bytes, all of them different.                       *)
EXTENDS X5045

MCPrios == {1, 2}
MCAddrs == {1, 256}
MCPageData == <<70, 71>>
MCTimes == {7}
=============================================================================
