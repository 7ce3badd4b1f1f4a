------------------------------ MODULE MCSendTest ------------------------------
(* SendTest as it is: its constants are given in MCSendTest.cfg.            *)
EXTENDS SendTest
=============================================================================
