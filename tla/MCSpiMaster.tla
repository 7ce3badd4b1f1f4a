----------------------------- MODULE MCSpiMaster -----------------------------
(* SpiMaster with the parameters and the table of spi_interface.v.         *)
EXTENDS SpiMaster

(* AA 55 A4 00 02, AA 55 A5 01 02, AA 55 A6 01 02 03 04 05                 *)
SourceTable ==
  <<170, 85, 164, 0, 2, 170, 85, 165, 1, 2, 170, 85, 166, 1, 2, 3, 4, 5>>
=============================================================================
