-------------------------------- MODULE RTAddr --------------------------------
(***************************************************************************)
(* RTAddr_Config of apps/at_task.c: a table typed by hand that drives the  *)
(* five address pins of the 1553 terminal, RTAD0 to RTAD4, and its parity  *)
(* pin RTADP.  The pins are modelled as the set of those that are high.    *)
(***************************************************************************)
EXTENDS Integers, FiniteSets

AddressPins == {"AD0", "AD1", "AD2", "AD3", "AD4"}
Pins == AddressPins \union {"ADP"}

(* The pins each case sets; it clears the others.                          *)
Cases01To0F ==
  << {"AD0"},
     {"AD1"},
     {"AD0", "AD1", "ADP"},
     {"AD2"},
     {"AD0", "AD2", "ADP"},
     {"AD1", "AD2", "ADP"},
     {"AD0", "AD1", "AD2"},
     {"AD3"},
     {"AD0", "AD3", "ADP"},
     {"AD1", "AD3", "ADP"},
     {"AD0", "AD1", "AD3"},
     {"AD2", "AD3", "ADP"},
     {"AD0", "AD2", "AD3"},
     {"AD1", "AD2", "AD3"},
     {"AD0", "AD1", "AD2", "AD3", "ADP"} >>

Cases10To1F ==
  << {"AD4"},
     {"AD0", "AD4", "ADP"},
     {"AD1", "AD4", "ADP"},
     {"AD0", "AD1", "AD4"},
     {"AD2", "AD4", "ADP"},
     {"AD0", "AD2", "AD4"},
     {"AD1", "AD2", "AD4"},
     {"AD0", "AD1", "AD2", "AD4", "ADP"},
     {"AD3", "AD4", "ADP"},
     {"AD0", "AD3", "AD4"},
     {"AD1", "AD3", "AD4"},
     {"AD0", "AD1", "AD3", "AD4", "ADP"},
     {"AD2", "AD3", "AD4"},
     {"AD0", "AD2", "AD3", "AD4", "ADP"},
     {"AD1", "AD2", "AD3", "AD4", "ADP"},
     {"AD0", "AD1", "AD2", "AD3", "AD4"} >>

(* Mutant: the second half of the table starts one byte too late.          *)
RTAddr_Config_OffByOne(pins, data) ==
  IF data \in 1 .. 15 THEN Cases01To0F[data]
  ELSE IF data \in 17 .. 31 THEN Cases10To1F[data - 16]
  ELSE pins

(* The switch has no case for 0, which is a terminal address, and none for *)
(* a byte above 31: they leave the pins alone.                             *)
RTAddr_Config(pins, data) ==
  IF data \in 1 .. 15 THEN Cases01To0F[data]
  ELSE IF data \in 16 .. 31 THEN Cases10To1F[data - 15]
  ELSE pins

(* What a terminal reads from its pins.                                    *)
Bit(pins, p) == IF p \in pins THEN 1 ELSE 0
Address(pins) ==
  Bit(pins, "AD0") + 2 * Bit(pins, "AD1") + 4 * Bit(pins, "AD2")
    + 8 * Bit(pins, "AD3") + 16 * Bit(pins, "AD4")
OddParity(pins) == Cardinality(pins) % 2 = 1
=============================================================================
