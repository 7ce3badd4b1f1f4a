---------------------------- MODULE MCAtTCPSend ----------------------------
(* Small instances of AtTCPSend for TLC.                                   *)
EXTENDS AtTCPSend

(* Two commands that differ in every word: run (ccw, 900 Hz), and stop.    *)
Run2Stop == {<<1, 3, 0>>, <<2, 0, 2>>}

(* One of each, for the runs that are about the order of the steps.        *)
RunOnly == {<<1, 3, 0>>}
=============================================================================
