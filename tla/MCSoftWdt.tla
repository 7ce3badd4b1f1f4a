------------------------------ MODULE MCSoftWdt ------------------------------
(* Small instances of SoftWdt for TLC.                                     *)
EXTENDS SoftWdt

(* One more than the timer can hold.                                       *)
LongRequests == {TickMod + 1}
=============================================================================
