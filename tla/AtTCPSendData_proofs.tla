------------------------- MODULE AtTCPSendData_proofs -------------------------
(***************************************************************************)
(* Proofs about the words the motor command channel decodes: whose they    *)
(* are, although the device writes while the task reads and no lock stands *)
(* between the two.  The device alternates between two blocks, so all the  *)
(* arguments are about parity: message m is stored in BlockOf(m), and      *)
(* nothing overwrites it before message m + 2.                             *)
(*                                                                         *)
(* The hypothesis EvenRings is what the source has: 64 descriptors in the  *)
(* command stack of the device, a wrap of Stkptr after 32.  Were either    *)
(* odd, a descriptor would name the two blocks in turn.                    *)
(***************************************************************************)
EXTENDS AtTCPSend_proofs, SequenceTheorems

EvenRings == HwSlots % 2 = 0 /\ SwSlots % 2 = 0

(* The block of the m-th message, counted from RTInit.                     *)
BlockOf(m) == IF m % 2 = 1 THEN "rxA" ELSE "rxB"

StkptrParity == Stkptr % 2 = nDone % 2

(* The two blocks hold the last two messages.                              *)
DoubleBuffer ==
  /\ Online => stackPtr % 2 = nMsg % 2 /\ rxBlock = BlockOf(nMsg + 1)
  /\ stamp[BlockOf(nMsg)] = nMsg
  /\ stamp[BlockOf(nMsg + 1)] = IF nMsg = 0 THEN 0 ELSE nMsg - 1
  /\ \A s \in 0..HwSlots - 1 : stack[s] \in {"none", BlockOf(s + 1)}

(* The message the words in RTData are read for: the one in hand, or the   *)
(* last one consumed.                                                      *)
Turn == IF pc \in {"ReadData", "Decode", "Flush"} THEN nDone + 1 ELSE nDone

(* A word read is that of its turn or of a message at least two later, and *)
(* one that was not overwritten since is still what the block holds.       *)
Words ==
  \A i \in 1..Len(readStamp) :
    /\ readStamp[i] = Turn \/ readStamp[i] >= Turn + 2
    /\ readStamp[i] <= stamp[pDataBlock]
    /\ readStamp[i] = stamp[pDataBlock] => RTData[i] = block[pDataBlock][i]

WordsOfTurn ==
  Turn > 0 =>
    /\ pDataBlock = BlockOf(Turn)
    /\ pc # "ReadData" => Len(readStamp) = 3
    /\ Words

DInv == StkptrParity /\ (~txSeen => DoubleBuffer /\ WordsOfTurn)

-----------------------------------------------------------------------------
(* Stepping round a ring of even size changes the parity.                  *)
LEMMA ParityOfNext ==
  ASSUME NEW p \in Nat, NEW n \in Nat \ {0}, n % 2 = 0, p < n
  PROVE  ((p + 1) % n) % 2 = (p + 1) % 2
<1>1. CASE p + 1 < n
  BY <1>1, ModOfSmall
<1>2. CASE p + 1 = n
  <2>1. n % n = 0
    OBVIOUS
  <2>. QED
    BY <1>2, <2>1
<1>. QED
  BY <1>1, <1>2

LEMMA ParityStep ==
  ASSUME NEW a \in Nat, NEW b \in Nat, a % 2 = b % 2
  PROVE  (a + 1) % 2 = (b + 1) % 2
OBVIOUS

LEMMA BlocksAlternate ==
  ASSUME NEW m \in Nat
  PROVE  /\ BlockOf(m) \in RxBlocks
         /\ BlockOf(m + 2) = BlockOf(m)
         /\ BlockOf(m + 1) = OtherRx(BlockOf(m))
         /\ BlockOf(m + 1) # BlockOf(m)
BY DEF BlockOf, RxBlocks, OtherRx

LEMMA SameParitySameBlock ==
  ASSUME NEW a \in Nat, NEW b \in Nat, a % 2 = b % 2
  PROVE  BlockOf(a) = BlockOf(b)
BY DEF BlockOf

(* What the block of a delivered message holds: that message, or one that  *)
(* came at least two later.                                                *)
LEMMA StampOfMessage ==
  ASSUME IInv, DoubleBuffer, NEW m \in Nat, 0 < m, m <= nMsg
  PROVE  /\ stamp[BlockOf(m)] \in Nat
         /\ stamp[BlockOf(m)] = m \/ stamp[BlockOf(m)] >= m + 2
         /\ stamp[BlockOf(m)] <= nMsg
<1>. nMsg \in Nat
  BY MaxMsgAssumption DEF IInv, TypeOK, HistoryTypeOK
<1>1. CASE m % 2 = nMsg % 2
  <2>1. BlockOf(m) = BlockOf(nMsg)
    BY <1>1, SameParitySameBlock
  <2>2. stamp[BlockOf(m)] = nMsg
    BY <2>1 DEF DoubleBuffer
  <2>3. m # nMsg - 1
    BY <1>1
  <2>. QED
    BY <2>2, <2>3
<1>2. CASE m % 2 # nMsg % 2
  <2>1. m % 2 = (nMsg + 1) % 2
    BY <1>2
  <2>2. BlockOf(m) = BlockOf(nMsg + 1)
    BY <2>1, SameParitySameBlock
  <2>3. stamp[BlockOf(m)] = nMsg - 1
    BY <2>2 DEF DoubleBuffer
  <2>4. m # nMsg /\ m # nMsg - 2
    BY <1>2
  <2>. QED
    BY <2>3, <2>4
<1>. QED
  BY <1>1, <1>2

(* A message whose words are being read has been delivered.                *)
LEMMA TurnDelivered ==
  ASSUME IInv
  PROVE  /\ Turn \in Nat /\ nMsg \in Nat /\ nDone \in Nat /\ Turn <= nMsg
         /\ pc = "ReadDesc" => nDone + 1 <= nMsg
BY MaxMsgAssumption, SemMaxAssumption
   DEF IInv, TypeOK, HistoryTypeOK, KernelTypeOK, Accounting, BoolToNat, TokenTaken,
       Working, LostInAll, Turn

-----------------------------------------------------------------------------
LEMMA InitDInv == Init => DInv
<1>. SUFFICES ASSUME Init PROVE DInv
  OBVIOUS
<1>1. Stkptr = 0 /\ nDone = 0 /\ nMsg = 0 /\ pc = "RTInit"
  BY DEF Init
<1>2. BlockOf(0) \in Blocks /\ BlockOf(0 + 1) \in Blocks
  BY DEF BlockOf, Blocks, RxBlocks
<1>3. DoubleBuffer
  BY <1>1, <1>2 DEF Init, DeviceInit, DoubleBuffer, Online
<1>4. ~(Turn > 0)
  BY <1>1 DEF Turn
<1>. QED
  BY <1>1, <1>3, <1>4 DEF DInv, StkptrParity, WordsOfTurn

LEMMA ParityKept ==
  ASSUME EvenRings, IInv, StkptrParity, [Next]_vars
  PROVE  StkptrParity'
<1>. /\ Stkptr \in Nat /\ Stkptr < SwSlots /\ nDone \in Nat
     /\ SwSlots \in Nat \ {0} /\ SwSlots % 2 = 0 /\ Stkptr % 2 = nDone % 2
  BY SwSlotsAssumption
     DEF EvenRings, IInv, TypeOK, TaskTypeOK, HistoryTypeOK, StkptrParity
<1>1. CASE AdvanceStkptr
  <2>1. Stkptr' = (Stkptr + 1) % SwSlots /\ nDone' = nDone + 1
    BY <1>1 DEF AdvanceStkptr
  <2>2. ((Stkptr + 1) % SwSlots) % 2 = (Stkptr + 1) % 2
    BY ParityOfNext
  <2>3. (Stkptr + 1) % 2 = (nDone + 1) % 2
    BY ParityStep
  <2>. QED
    BY <2>1, <2>2, <2>3 DEF StkptrParity
<1>2. CASE UNCHANGED <<Stkptr, nDone>>
  BY <1>2 DEF StkptrParity
<1>. QED
  BY <1>1, <1>2
     DEF Next, vars, bufVars, Bus, Isr, Task, TcpConnect, BusReceive, BusTransmit,
         Delivered, IsrEnter, RT_Handler, RTInit, EnableIT, Pend, Readied, Run,
         ReadDesc, ReadData, Decode, Flush, OpenSucceeds, OpenFails, ConnSucceeds,
         ConnFails, ConnGivenUp, TcpPackageSend, CloseAndReconnect,
         ConnectionLost, OutsideTcp

-----------------------------------------------------------------------------
(* A receive message goes to the older block and makes it the newer one.   *)
LEMMA ReceiveAlternates ==
  ASSUME EvenRings, IInv, DoubleBuffer, NEW cmd \in Cmds, BusReceive(cmd)
  PROVE  DoubleBuffer'
<1>. /\ nMsg \in Nat /\ stackPtr \in Nat /\ stackPtr < HwSlots
     /\ HwSlots \in Nat \ {0} /\ HwSlots % 2 = 0
     /\ stamp \in [Blocks -> Nat] /\ stack \in [0..HwSlots - 1 -> Pointers]
  BY HwSlotsAssumption, MaxMsgAssumption
     DEF EvenRings, IInv, TypeOK, HistoryTypeOK, DeviceTypeOK
<1>1. /\ nMsg' = nMsg + 1 /\ pc' = pc
      /\ stack' = [stack EXCEPT ![stackPtr] = rxBlock]
      /\ stackPtr' = (stackPtr + 1) % HwSlots
      /\ rxBlock' = OtherRx(rxBlock)
      /\ stamp' = [stamp EXCEPT ![rxBlock] = nMsg + 1]
  BY DEF BusReceive, Delivered, RxMessage, EndOfMessage
<1>2. stackPtr % 2 = nMsg % 2 /\ rxBlock = BlockOf(nMsg + 1)
  BY DEF DoubleBuffer, BusReceive, Delivered
<1>3. BlockOf(nMsg + 1) \in Blocks /\ BlockOf(nMsg) \in Blocks
  BY DEF BlockOf, Blocks, RxBlocks
<1>4. stackPtr' % 2 = nMsg' % 2
  <2>1. ((stackPtr + 1) % HwSlots) % 2 = (stackPtr + 1) % 2
    BY ParityOfNext
  <2>2. (stackPtr + 1) % 2 = (nMsg + 1) % 2
    BY <1>2, ParityStep
  <2>. QED
    BY <1>1, <2>1, <2>2
<1>5. rxBlock' = BlockOf(nMsg' + 1)
  <2>1. OtherRx(BlockOf(nMsg + 1)) = BlockOf((nMsg + 1) + 1)
    BY BlocksAlternate
  <2>. QED
    BY <1>1, <1>2, <2>1
<1>6. stamp'[BlockOf(nMsg')] = nMsg'
  BY <1>1, <1>2, <1>3
<1>7. stamp'[BlockOf(nMsg' + 1)] = nMsg' - 1
  <2>1. BlockOf(nMsg' + 1) = BlockOf(nMsg)
    <3>1. nMsg' + 1 = nMsg + 2
      BY <1>1
    <3>. QED
      BY <3>1, BlocksAlternate
  <2>2. BlockOf(nMsg) # rxBlock
    BY <1>2, BlocksAlternate
  <2>3. stamp'[BlockOf(nMsg)] = stamp[BlockOf(nMsg)]
    BY <1>1, <1>3, <2>2
  <2>4. stamp[BlockOf(nMsg)] = nMsg
    BY DEF DoubleBuffer
  <2>5. nMsg' - 1 = nMsg
    BY <1>1
  <2>. QED
    BY <2>1, <2>3, <2>4, <2>5
<1>8. ASSUME NEW s \in 0..HwSlots - 1
      PROVE  stack'[s] \in {"none", BlockOf(s + 1)}
  <2>1. CASE s = stackPtr
    <3>1. stack'[s] = BlockOf(nMsg + 1)
      BY <1>1, <1>2, <2>1
    <3>2. (s + 1) % 2 = (nMsg + 1) % 2
      BY <1>2, <2>1, ParityStep
    <3>3. BlockOf(s + 1) = BlockOf(nMsg + 1)
      BY <3>2, SameParitySameBlock
    <3>. QED
      BY <3>1, <3>3
  <2>2. CASE s # stackPtr
    <3>1. stack'[s] = stack[s]
      BY <1>1, <2>2
    <3>. QED
      BY <3>1 DEF DoubleBuffer
  <2>. QED
    BY <2>1, <2>2
<1>9. nMsg' # 0
  BY <1>1
<1>. QED
  BY <1>4, <1>5, <1>6, <1>7, <1>8, <1>9 DEF DoubleBuffer

LEMMA BufferStep ==
  ASSUME EvenRings, IInv, DoubleBuffer, [Next]_vars, ~txSeen'
  PROVE  DoubleBuffer'
<1>. BootQuiet /\ HwSlots \in Nat \ {0}
  BY HwSlotsAssumption DEF IInv
<1>1. ASSUME NEW cmd \in Cmds, BusReceive(cmd) PROVE DoubleBuffer'
  BY <1>1, ReceiveAlternates
<1>2. ~BusTransmit
  BY DEF BusTransmit
<1>3. CASE RTInit
  <2>1. /\ nMsg = 0 /\ nMsg' = 0 /\ stamp' = stamp
        /\ stackPtr' = 0 /\ rxBlock' = "rxA"
        /\ stack' = [s \in 0..HwSlots - 1 |-> "none"]
    BY <1>3 DEF RTInit, DeviceReset, TaskAt, BootQuiet, busVars
  <2>2. BlockOf(0 + 1) = "rxA"
    BY DEF BlockOf
  <2>. QED
    BY <2>1, <2>2 DEF DoubleBuffer
<1>4. CASE /\ UNCHANGED <<stack, stackPtr, rxBlock, stamp, nMsg>>
           /\ pc = "RTInit" => pc' = "RTInit"
  BY <1>4 DEF DoubleBuffer, Online
<1>. QED
  BY <1>1, <1>2, <1>3, <1>4
     DEF Next, vars, bu61580Vars, busVars, Bus, Isr, Task, TcpConnect, TaskAt,
         IsrEnter, RT_Handler, EnableIT, Pend, Readied, Run, ReadDesc, ReadData,
         Decode, Flush, OpenSucceeds, OpenFails, ConnSucceeds, ConnFails,
         ConnGivenUp, TcpPackageSend, CloseAndReconnect, ConnectionLost, OutsideTcp

-----------------------------------------------------------------------------
(* The device writes while the task reads: what it overwrites was older.   *)
LEMMA ReceiveKeepsWords ==
  ASSUME IInv, DoubleBuffer, WordsOfTurn, NEW cmd \in Cmds, BusReceive(cmd)
  PROVE  WordsOfTurn'
<1>. SUFFICES ASSUME Turn > 0 PROVE Words' /\ WordsOfTurn'
  BY DEF WordsOfTurn, Turn, BusReceive, Delivered
<1>1. /\ UNCHANGED <<pc, nDone, pDataBlock, RTData, readStamp>>
      /\ stamp' = [stamp EXCEPT ![rxBlock] = nMsg + 1]
      /\ block' = [block EXCEPT ![rxBlock] = cmd]
  BY DEF BusReceive, Delivered, RxMessage, bufVars
<1>2. Turn' = Turn
  BY <1>1 DEF Turn
<1>3. pDataBlock = BlockOf(Turn) /\ Words /\ (pc # "ReadData" => Len(readStamp) = 3)
  BY DEF WordsOfTurn
<1>4. /\ pDataBlock \in Blocks /\ nMsg \in Nat /\ stamp[pDataBlock] \in Nat
      /\ stamp[pDataBlock] <= nMsg
  BY <1>3, TurnDelivered, StampOfMessage, BlocksAlternate DEF Blocks
<1>5. /\ stamp \in [Blocks -> Nat] /\ block \in [Blocks -> [1..3 -> Nat]]
      /\ readStamp \in Seq(Nat)
  BY DEF IInv, TypeOK, HistoryTypeOK, DeviceTypeOK, DataTypeOK
<1>6. ASSUME NEW i \in 1..Len(readStamp)
      PROVE  /\ readStamp[i] = Turn \/ readStamp[i] >= Turn + 2
             /\ readStamp[i] <= stamp'[pDataBlock]
             /\ readStamp[i] = stamp'[pDataBlock] => RTData[i] = block'[pDataBlock][i]
  <2>1. /\ readStamp[i] = Turn \/ readStamp[i] >= Turn + 2
        /\ readStamp[i] <= stamp[pDataBlock]
        /\ readStamp[i] = stamp[pDataBlock] => RTData[i] = block[pDataBlock][i]
    BY <1>3 DEF Words
  <2>2. readStamp[i] \in Nat
    BY <1>5
  <2>3. CASE pDataBlock = rxBlock
    <3>1. stamp'[pDataBlock] = nMsg + 1
      BY <1>1, <1>4, <1>5, <2>3
    <3>2. readStamp[i] < nMsg + 1
      BY <1>4, <2>1, <2>2
    <3>. QED
      BY <1>4, <2>1, <2>2, <3>1, <3>2
  <2>4. CASE pDataBlock # rxBlock
    <3>1. stamp'[pDataBlock] = stamp[pDataBlock] /\ block'[pDataBlock] = block[pDataBlock]
      BY <1>1, <1>4, <1>5, <2>4
    <3>. QED
      BY <2>1, <3>1
  <2>. QED
    BY <2>3, <2>4
<1>7. Words'
  BY <1>1, <1>2, <1>6 DEF Words
<1>. QED
  BY <1>1, <1>2, <1>3, <1>7 DEF WordsOfTurn

(* The descriptor of the next message names the block it is stored in.     *)
LEMMA DescriptorNamesBlock ==
  ASSUME IInv, StkptrParity, DoubleBuffer, TaskAt("ReadDesc")
  PROVE  stack[Stkptr] = BlockOf(nDone + 1)
<1>. Stkptr \in 0..HwSlots - 1 /\ Stkptr \in Nat /\ nDone \in Nat
  BY SwSlotsAssumption, HwSlotsAssumption DEF IInv, TypeOK, TaskTypeOK, HistoryTypeOK
<1>1. stack[Stkptr] = BlockOf(Stkptr + 1)
  BY HeldMessageIsWritten DEF DoubleBuffer
<1>2. (Stkptr + 1) % 2 = (nDone + 1) % 2
  BY ParityStep DEF StkptrParity
<1>. QED
  BY <1>1, <1>2, SameParitySameBlock

LEMMA ReadKeepsWords ==
  ASSUME IInv, DoubleBuffer, WordsOfTurn, ReadData
  PROVE  WordsOfTurn'
<1>1. pc = "ReadData" /\ Turn = nDone + 1 /\ Len(RTData) \in 0..2
  BY DEF ReadData, TaskAt, Turn, IInv, TypeOK, DataTypeOK
<1>2. Turn \in Nat /\ Turn > 0 /\ Turn <= nMsg /\ nMsg \in Nat
  BY <1>1, TurnDelivered
<1>3. pDataBlock = BlockOf(Turn) /\ Words
  BY <1>2 DEF WordsOfTurn
<1>. DEFINE x == stamp[pDataBlock]
            w == block[pDataBlock][Len(RTData) + 1]
<1>4. x \in Nat /\ (x = Turn \/ x >= Turn + 2)
  BY <1>2, <1>3, StampOfMessage
<1>5. /\ RTData' = Append(RTData, w) /\ readStamp' = Append(readStamp, x)
      /\ UNCHANGED <<nDone, pDataBlock, stamp, block>>
      /\ pc' = IF Len(RTData) = 2 THEN "Decode" ELSE "ReadData"
  BY DEF ReadData, bufVars, busVars, bu61580Vars
<1>6. /\ readStamp \in Seq(Nat) /\ RTData \in Seq(Nat) /\ Len(readStamp) = Len(RTData)
  BY DEF IInv, TypeOK, DataTypeOK
<1>7. w \in Nat
  <2>1. pDataBlock \in Blocks
    BY <1>2, <1>3, BlocksAlternate DEF Blocks
  <2>2. \A j \in 0..2 : block[pDataBlock][j + 1] \in Nat
    BY <2>1 DEF IInv, TypeOK, DeviceTypeOK
  <2>. QED
    BY <1>1, <2>2
<1>8. Turn' = Turn
  BY <1>1, <1>5 DEF Turn
<1>9. pc' # "ReadData" => Len(readStamp') = 3
  <2>1. pc' # "ReadData" => Len(RTData) = 2
    BY <1>5
  <2>2. Len(readStamp') = Len(RTData) + 1
    BY <1>4, <1>5, <1>6, AppendNat
  <2>3. Len(RTData) = 2 => Len(readStamp') = 3
    BY <2>2
  <2>. QED
    BY <2>1, <2>3
<1>10. ASSUME NEW i \in 1..Len(readStamp')
       PROVE  /\ readStamp'[i] = Turn \/ readStamp'[i] >= Turn + 2
              /\ readStamp'[i] <= x
              /\ readStamp'[i] = x => RTData'[i] = block[pDataBlock][i]
  <2>1. Len(readStamp') = Len(readStamp) + 1
    BY <1>4, <1>5, <1>6
  <2>2. CASE i \in 1..Len(readStamp)
    <3>1. readStamp'[i] = readStamp[i] /\ RTData'[i] = RTData[i]
      BY <1>4, <1>5, <1>6, <1>7, <2>2
    <3>. QED
      BY <1>3, <2>2, <3>1 DEF Words
  <2>3. CASE i = Len(readStamp) + 1
    <3>1. readStamp'[i] = x /\ RTData'[i] = w
      BY <1>4, <1>5, <1>6, <1>7, <2>3
    <3>. QED
      BY <1>4, <1>6, <2>3, <3>1
  <2>. QED
    BY <1>6, <2>1, <2>2, <2>3
<1>11. Words'
  BY <1>5, <1>8, <1>10 DEF Words
<1>. QED
  BY <1>3, <1>5, <1>8, <1>9, <1>11 DEF WordsOfTurn

LEMMA WordsStep ==
  ASSUME IInv, StkptrParity, DoubleBuffer, WordsOfTurn, [Next]_vars, ~txSeen'
  PROVE  WordsOfTurn'
<1>1. ASSUME NEW cmd \in Cmds, BusReceive(cmd) PROVE WordsOfTurn'
  BY <1>1, ReceiveKeepsWords
<1>2. ~BusTransmit
  BY DEF BusTransmit
<1>3. CASE ReadDesc
  <2>1. /\ pDataBlock' = BlockOf(nDone + 1) /\ readStamp' = <<>>
        /\ pc' = "ReadData" /\ nDone' = nDone
    BY <1>3, DescriptorNamesBlock DEF ReadDesc
  <2>. QED
    BY <2>1 DEF WordsOfTurn, Words, Turn
<1>4. CASE ReadData
  BY <1>4, ReadKeepsWords
<1>5. CASE Decode \/ Flush
  <2>1. /\ Turn' = Turn /\ pc' # "ReadData" /\ pc # "ReadData"
        /\ UNCHANGED <<pDataBlock, RTData, readStamp, stamp, block>>
    BY <1>5 DEF Decode, Flush, TaskAt, AdvanceStkptr, Turn, busVars, bu61580Vars
  <2>. QED
    BY <2>1 DEF WordsOfTurn, Words
<1>6. CASE RTInit
  <2>1. Turn' = 0
    <3>1. nMsg = 0 /\ pc = "RTInit" /\ pc' = "EnableIT" /\ nDone' = nDone
      BY <1>6 DEF RTInit, TaskAt, IInv, BootQuiet
    <3>2. Turn' = Turn
      BY <3>1 DEF Turn
    <3>. QED
      BY <3>1, <3>2, TurnDelivered
  <2>. QED
    BY <2>1 DEF WordsOfTurn
<1>7. CASE /\ UNCHANGED <<pDataBlock, RTData, readStamp, nDone, stamp, block>>
           /\ pc' # "ReadData" => pc # "ReadData"
           /\ Turn' = Turn
  <2>1. Words => Words'
    BY <1>7 DEF Words
  <2>. QED
    BY <1>7, <2>1 DEF WordsOfTurn
<1>8. CASE Isr \/ ConnectionLost \/ UNCHANGED vars
  <2>1. UNCHANGED <<pc, pDataBlock, RTData, readStamp, nDone, stamp, block>>
    BY <1>8 DEF Isr, IsrEnter, RT_Handler, ConnectionLost, vars, OutsideTcp, bufVars,
                busVars, bu61580Vars
  <2>. QED
    BY <1>7, <2>1 DEF Turn
<1>9. CASE EnableIT \/ Pend \/ Readied \/ Run
  <2>1. UNCHANGED <<pDataBlock, RTData, readStamp, nDone, stamp, block>>
    BY <1>9 DEF EnableIT, Pend, Readied, Run, bufVars, busVars, bu61580Vars
  <2>2. {pc, pc'} \cap {"ReadData", "Decode", "Flush"} = {}
    BY <1>9 DEF EnableIT, Pend, Readied, Run, TaskAt
  <2>. QED
    BY <1>7, <2>1, <2>2 DEF Turn
<1>10. CASE TcpConnect \/ TcpPackageSend \/ CloseAndReconnect
  <2>1. UNCHANGED <<pDataBlock, RTData, readStamp, nDone, stamp, block>>
    BY <1>10 DEF TcpConnect, OpenSucceeds, OpenFails, ConnSucceeds, ConnFails,
                 ConnGivenUp, TcpPackageSend, CloseAndReconnect, OutsideTcp, bufVars,
                 busVars, bu61580Vars
  <2>2. ret \in {"Pend", "ReadDesc"}
    BY DEF IInv, TypeOK, ConnTypeOK
  <2>3. {pc, pc'} \cap {"ReadData", "Decode", "Flush"} = {}
    BY <1>10, <2>2
       DEF TcpConnect, OpenSucceeds, OpenFails, ConnSucceeds, ConnFails, ConnGivenUp,
           TcpPackageSend, CloseAndReconnect, TaskAt
  <2>. QED
    BY <1>7, <2>1, <2>3 DEF Turn
<1>. QED
  BY <1>1, <1>2, <1>3, <1>4, <1>5, <1>6, <1>8, <1>9, <1>10 DEF Next, Bus, Task

LEMMA TransmitRemembered ==
  ASSUME IInv, [Next]_vars
  PROVE  ~txSeen' => ~txSeen
<1>1. CASE BusTransmit
  BY <1>1 DEF BusTransmit
<1>2. CASE UNCHANGED txSeen
  BY <1>2
<1>. QED
  BY <1>1, <1>2
     DEF Next, vars, busVars, Bus, Isr, Task, TcpConnect, BusReceive, IsrEnter,
         RT_Handler, RTInit, EnableIT, Pend, Readied, Run, ReadDesc, ReadData, Decode,
         Flush, OpenSucceeds, OpenFails, ConnSucceeds, ConnFails, ConnGivenUp,
         TcpPackageSend, CloseAndReconnect, ConnectionLost, OutsideTcp

LEMMA DataInvariance ==
  ASSUME EvenRings
  PROVE  Spec => [](IInv /\ DInv)
<1>1. IInv /\ DInv /\ [Next]_vars => DInv'
  BY ParityKept, TransmitRemembered, BufferStep, WordsStep DEF DInv
<1>. QED
  BY <1>1, InitDInv, Invariance, PTL DEF Spec

-----------------------------------------------------------------------------
LEMMA ThreeWords ==
  ASSUME NEW q \in Seq(Nat), Len(q) = 3
  PROVE  /\ \A i \in 1..3 : i \in 1..Len(q) /\ q[i] \in Nat
         /\ q = [i \in 1..3 |-> q[i]]
<1>1. 1..Len(q) = 1..3
  BY Zenon
<1>2. q \in [1..Len(q) -> Nat]
  BY LenProperties
<1>3. q \in [1..3 -> Nat]
  BY <1>1, <1>2, Zenon
<1>. QED
  BY <1>1, <1>3, Zenon

(* Where the task decodes, the words are as WordsOfTurn says.              *)
LEMMA WordsDecoded ==
  ASSUME IInv, DInv, pc = "Decode", ~txSeen
  PROVE  /\ Turn = nDone + 1 /\ nDone \in Nat /\ nMsg \in Nat
         /\ readStamp \in Seq(Nat) /\ Len(readStamp) = 3
         /\ \A i \in 1..3 : /\ readStamp[i] = Turn \/ readStamp[i] >= Turn + 2
                            /\ readStamp[i] <= nMsg
<1>1. /\ Turn = nDone + 1 /\ nDone \in Nat /\ nMsg \in Nat /\ Turn <= nMsg
      /\ Turn \in Nat /\ Turn > 0
  BY TurnDelivered DEF Turn
<1>2. readStamp \in Seq(Nat) /\ Len(readStamp) = 3
  BY DEF IInv, TypeOK, DataTypeOK
<1>3. pDataBlock = BlockOf(Turn) /\ Words /\ DoubleBuffer
  BY <1>1 DEF DInv, WordsOfTurn
<1>4. stamp[pDataBlock] \in Nat /\ stamp[pDataBlock] <= nMsg
  BY <1>1, <1>3, StampOfMessage
<1>5. ASSUME NEW i \in 1..3
      PROVE  /\ readStamp[i] = Turn \/ readStamp[i] >= Turn + 2
             /\ readStamp[i] <= nMsg
  <2>1. /\ readStamp[i] = Turn \/ readStamp[i] >= Turn + 2
        /\ readStamp[i] <= stamp[pDataBlock] /\ readStamp[i] \in Nat
    <3>1. i \in 1..Len(readStamp) /\ readStamp[i] \in Nat
      BY <1>2, ThreeWords
    <3>. QED
      BY <1>3, <3>1 DEF Words
  <2>. QED
    BY <1>1, <1>4, <2>1
<1>. QED
  BY <1>1, <1>2, <1>5

(* A task at most one message behind decodes the words of one message, and *)
(* of the right one, however the device's writes fall between its reads.   *)
THEOREM KeepingUpIsExact ==
  ASSUME EvenRings
  PROVE  Spec => []ExactWhenKeepingUp
<1>1. IInv /\ DInv => ExactWhenKeepingUp
  <2>. SUFFICES ASSUME IInv, DInv, pc = "Decode", nMsg <= nDone + 2, ~txSeen
                PROVE  readStamp = [i \in 1..3 |-> nDone + 1]
    BY DEF ExactWhenKeepingUp
  <2>1. /\ Turn = nDone + 1 /\ nDone \in Nat /\ nMsg \in Nat
        /\ readStamp \in Seq(Nat) /\ Len(readStamp) = 3
    BY WordsDecoded
  <2>2. ASSUME NEW i \in 1..3 PROVE readStamp[i] = nDone + 1
    <3>1. /\ readStamp[i] = Turn \/ readStamp[i] >= Turn + 2
          /\ readStamp[i] <= nMsg
      BY WordsDecoded
    <3>2. readStamp[i] \in Nat
      BY <2>1, ThreeWords
    <3>. QED
      BY <2>1, <3>1, <3>2
  <2>3. readStamp = [i \in 1..3 |-> readStamp[i]]
    BY <2>1, ThreeWords
  <2>. QED
    BY <2>2, <2>3
<1>. QED
  BY <1>1, DataInvariance, PTL

(* However late the task is, no word it decodes is older than its message. *)
THEOREM WordsAreNeverOlder ==
  ASSUME EvenRings
  PROVE  Spec => []NeverOlder
<1>1. IInv /\ DInv => NeverOlder
  <2>. SUFFICES ASSUME IInv, DInv, pc = "Decode", ~txSeen, NEW i \in 1..3
                PROVE  readStamp[i] > nDone
    BY DEF NeverOlder
  <2>1. /\ Turn = nDone + 1 /\ nDone \in Nat
        /\ readStamp \in Seq(Nat) /\ Len(readStamp) = 3
        /\ readStamp[i] = Turn \/ readStamp[i] >= Turn + 2
    BY WordsDecoded
  <2>2. readStamp[i] \in Nat
    BY <2>1, ThreeWords
  <2>. QED
    BY <2>1, <2>2
<1>. QED
  BY <1>1, DataInvariance, PTL

(* Once everything is quiet and nothing was lost, the last command the bus *)
(* sent is the one the task passed on.                                     *)
THEOREM LastCommandIsPassedOn ==
  ASSUME EvenRings
  PROVE  Spec => []LatestCommandStands
<1>1. IInv /\ DInv => LatestCommandStands
  <2>. SUFFICES ASSUME IInv, DInv, Quiescent, ~txSeen, LostInAll = 0
                PROVE  RTData = LatestCommand
    BY DEF LatestCommandStands
  <2>. DoubleBuffer /\ WordsOfTurn /\ nMsg \in Nat /\ nDone \in Nat
    BY TurnDelivered DEF DInv
  <2>1. nMsg = nDone /\ pc = "Blocked" /\ nMsg > 0
    <3>1. pc = "Blocked" /\ Prio \in OSEventGrp /\ ~intStat /\ nMsg > 0 /\ ~TokenTaken
      BY DEF Quiescent, Waiting, TokenTaken, Working
    <3>2. OSEventCnt = 0
      BY <3>1 DEF IInv, NoSleepOnToken
    <3>. QED
      BY <3>1, <3>2 DEF IInv, Accounting, BoolToNat
  <2>2. Turn = nMsg /\ Turn > 0 /\ pDataBlock = BlockOf(nMsg)
    <3>1. Turn = nMsg
      BY <2>1 DEF Turn
    <3>. QED
      BY <2>1, <3>1 DEF WordsOfTurn
  <2>3. Words /\ Len(readStamp) = 3
    BY <2>1, <2>2 DEF WordsOfTurn
  <2>4. stamp[pDataBlock] = nMsg
    BY <2>2 DEF DoubleBuffer
  <2>5. /\ RTData \in Seq(Nat) /\ readStamp \in Seq(Nat) /\ Len(RTData) = 3
    BY <2>3 DEF IInv, TypeOK, DataTypeOK
  <2>6. ASSUME NEW i \in 1..3 PROVE RTData[i] = block[pDataBlock][i]
    <3>1. /\ readStamp[i] = nMsg \/ readStamp[i] >= nMsg + 2
          /\ readStamp[i] <= nMsg
          /\ readStamp[i] = nMsg => RTData[i] = block[pDataBlock][i]
      <4>1. i \in 1..Len(readStamp)
        BY <2>3, <2>5, ThreeWords
      <4>. QED
        BY <2>2, <2>3, <2>4, <4>1 DEF Words
    <3>2. readStamp[i] \in Nat
      BY <2>3, <2>5, ThreeWords
    <3>. QED
      BY <3>1, <3>2
  <2>7. pDataBlock = OtherRx(rxBlock)
    <3>1. rxBlock = BlockOf(nMsg + 1)
      BY <2>1 DEF DoubleBuffer, Online
    <3>2. OtherRx(BlockOf(nMsg + 1)) = BlockOf(nMsg)
      BY DEF OtherRx, BlockOf
    <3>. QED
      BY <2>2, <3>1, <3>2
  <2>8. block[pDataBlock] \in [1..3 -> Nat]
    <3>1. pDataBlock \in Blocks
      BY <2>2 DEF BlockOf, Blocks, RxBlocks
    <3>. QED
      BY <3>1 DEF IInv, TypeOK, DeviceTypeOK
  <2>9. RTData = block[pDataBlock]
    <3>1. RTData = [i \in 1..3 |-> RTData[i]]
      BY <2>5, ThreeWords
    <3>2. block[pDataBlock] = [i \in 1..3 |-> block[pDataBlock][i]]
      BY <2>8
    <3>. QED
      BY <2>6, <3>1, <3>2, Zenon
  <2>. QED
    BY <2>7, <2>9 DEF LatestCommand
<1>. QED
  BY <1>1, DataInvariance, PTL
=============================================================================
