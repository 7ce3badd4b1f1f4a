------------------------------- MODULE BU61580 -------------------------------
(***************************************************************************)
(* The BU-61580 remote terminal as the application programs it: an         *)
(* external device, modelled from RTInit, RT_Handler and bu61580.h.        *)
(*                                                                         *)
(* At the end of a message the device writes a descriptor into its command *)
(* stack (a ring of HwSlots descriptors), raises the end-of-message bit of *)
(* its interrupt status and pulses the interrupt line, which the AIC       *)
(* latches as an edge.  Receive data of subaddress 1 is double buffered:   *)
(* successive receive messages alternate between two blocks.  Transmit     *)
(* messages use a third block, which the application clears and never      *)
(* writes.                                                                 *)
(***************************************************************************)
EXTENDS Naturals

CONSTANTS
  HwSlots,   \* descriptors in the command stack: RTComStackA[256] / 4 words
  Cmds       \* the motor commands (three data words) the bus controller sends

ASSUME HwSlotsAssumption == HwSlots \in Nat \ {0}
ASSUME CmdsAssumption == Cmds \subseteq [1..3 -> Nat]

VARIABLES
  stack,     \* the data block pointer word of every descriptor
  stackPtr,  \* the device's command stack pointer, in descriptors
  block,     \* the data words of every data block
  rxBlock,   \* the block the next receive message will use
  intStat,   \* bit 0 (end of message) of the interrupt status register
  irq        \* the IRQ1 edge latched by the AIC

bu61580Vars == <<stack, stackPtr, block, rxBlock, intStat, irq>>

RxBlocks == {"rxA", "rxB"}
Blocks == RxBlocks \union {"tx"}
Pointers == Blocks \union {"none"}
NoData == [i \in 1..3 |-> 0]

OtherRx(b) == IF b = "rxA" THEN "rxB" ELSE "rxA"

(* The processor may restart without the device losing power: its stack    *)
(* pointer and receive buffer are where the last run left them.            *)
DeviceInit ==
  /\ stack = [s \in 0..HwSlots - 1 |-> "none"]
  /\ stackPtr \in 0..HwSlots - 1
  /\ block = [b \in Blocks |-> NoData]
  /\ rxBlock \in RxBlocks
  /\ intStat = FALSE
  /\ irq = FALSE

(* RTInit: soft reset, 256 stack words cleared, stack pointer and receive  *)
(* lookup entry programmed, transmit block cleared.                        *)
(* Mutant: the stack pointer is not programmed.                            *)
DeviceReset_KeepsStackPtr ==
  /\ stack' = [s \in 0..HwSlots - 1 |-> "none"]
  /\ block' = [block EXCEPT !["tx"] = NoData]
  /\ rxBlock' = "rxA"
  /\ intStat' = FALSE
  /\ UNCHANGED <<irq, stackPtr>>

DeviceReset ==
  /\ stack' = [s \in 0..HwSlots - 1 |-> "none"]
  /\ stackPtr' = 0
  /\ block' = [block EXCEPT !["tx"] = NoData]
  /\ rxBlock' = "rxA"
  /\ intStat' = FALSE
  /\ UNCHANGED irq

(* What every end of message does.  The pointer b is what the task reads.  *)
EndOfMessage(b) ==
  /\ stack' = [stack EXCEPT ![stackPtr] = b]
  /\ stackPtr' = (stackPtr + 1) % HwSlots
  /\ intStat' = TRUE
  /\ irq' = TRUE

RxMessage(cmd) ==
  /\ EndOfMessage(rxBlock)
  /\ block' = [block EXCEPT ![rxBlock] = cmd]
  /\ rxBlock' = OtherRx(rxBlock)

TxMessage ==
  /\ EndOfMessage("tx")
  /\ UNCHANGED <<block, rxBlock>>

(* The AIC clears a latched edge when the core reads the vector.           *)
AcknowledgeIrq ==
  /\ irq
  /\ irq' = FALSE

(* CFG2 bit 4: reading the interrupt status clears it.                     *)
(* Mutant: CFG2 without automatic clear of the interrupt status.           *)
ReadIntStat_Sticky == UNCHANGED intStat

ReadIntStat == intStat' = FALSE
=============================================================================
