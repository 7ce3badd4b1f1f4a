--------------------------- MODULE AtTCPSend_proofs ---------------------------
(***************************************************************************)
(* Proofs about AtTCPSend for every size of the stack, the semaphore and   *)
(* the socket pool and every number of messages.  The inductive invariant  *)
(* IInv relates three counts that the code never compares: the messages of *)
(* the bus, the tokens of the semaphore and the task's stack pointer.      *)
(***************************************************************************)
EXTENDS AtTCPSend, TLAPS

(* Before RTInit the terminal is silent; until EnableIT no handler runs.   *)
BootQuiet ==
  /\ pc = "RTInit" => nMsg = 0 /\ ~intStat
  /\ pc \in {"RTInit", "EnableIT"} => isr = "idle"

(* The device fills its stack from the bottom.                             *)
StackFilled ==
  Online =>
    /\ nMsg < HwSlots => stackPtr = nMsg
    /\ \A s \in 0..HwSlots - 1 : s < nMsg => stack[s] # "none"
    /\ nMsg <= HwSlots =>
         \A s \in 0..HwSlots - 1 : s < nMsg => slotStamp[s] = s + 1

(* Stkptr counts consumed descriptors until it wraps.                      *)
StkptrFollows ==
  /\ Stkptr <= nDone
  /\ nDone < SwSlots => Stkptr = nDone

IInv ==
  /\ TypeOK
  /\ BootQuiet
  /\ Accounting
  /\ InterruptPending
  /\ NoSleepOnToken
  /\ StackFilled
  /\ StkptrFollows

-----------------------------------------------------------------------------
LEMMA ModInRange ==
  ASSUME NEW a \in Nat, NEW n \in Nat \ {0}
  PROVE  a % n \in 0..n - 1
OBVIOUS

LEMMA ModOfSmall ==
  ASSUME NEW a \in Nat, NEW n \in Nat \ {0}, a < n
  PROVE  a % n = a
OBVIOUS

LEMMA AppendNat ==
  ASSUME NEW q \in Seq(Nat), NEW x \in Nat
  PROVE  Append(q, x) \in Seq(Nat) /\ Len(Append(q, x)) = Len(q) + 1
OBVIOUS

-----------------------------------------------------------------------------
LEMMA InitIInv == Init => IInv
<1>. SUFFICES ASSUME Init PROVE IInv
  OBVIOUS
<1>. USE SwSlotsAssumption, HwSlotsAssumption, SemMaxAssumption, MaxMsgAssumption
         DEF Init, DeviceInit, OSSemCreate, SockInit
<1>1. TypeOK
  BY DEF TypeOK, KernelTypeOK, DeviceTypeOK, ConnTypeOK, TaskTypeOK, DataTypeOK,
         HistoryTypeOK, Pointers, Blocks, RxBlocks, NoData, SockStates, TaskSteps,
         ConnRetries
<1>2. Accounting
  BY DEF Accounting, BoolToNat, TokenTaken, Working, Waiting, LostInAll
<1>3. StackFilled /\ StkptrFollows
  BY DEF StackFilled, StkptrFollows, Online
<1>4. BootQuiet /\ InterruptPending /\ NoSleepOnToken
  BY DEF BootQuiet, InterruptPending, NoSleepOnToken
<1>. QED
  BY <1>1, <1>2, <1>3, <1>4 DEF IInv

-----------------------------------------------------------------------------
(* Kernel: the count stays in range and only the task ever waits.          *)
LEMMA KernelType ==
  ASSUME IInv, [Next]_vars
  PROVE  KernelTypeOK'
<1>. KernelTypeOK
  BY DEF IInv, TypeOK
<1>. USE SemMaxAssumption DEF KernelTypeOK
<1>1. CASE RT_Handler
  BY <1>1 DEF RT_Handler, OSSemPost, PostOverflows, semVars
<1>2. CASE Pend
  BY <1>2 DEF Pend, OSSemPend
<1>3. CASE Flush
  BY <1>3 DEF Flush
<1>4. CASE UNCHANGED semVars
  BY <1>4 DEF semVars
<1>. QED
  BY <1>1, <1>2, <1>3, <1>4
     DEF Next, vars, Bus, Isr, Task, TcpConnect, BusReceive, BusTransmit, Delivered,
         IsrEnter, RTInit, EnableIT, Readied, Run, ReadDesc, ReadData, Decode,
         OpenSucceeds, OpenFails, ConnSucceeds, ConnFails, ConnGivenUp,
         TcpPackageSend, CloseAndReconnect, ConnectionLost, OutsideTcp

(* Device: the stack holds pointers, the blocks hold words.                *)
LEMMA DeviceType ==
  ASSUME IInv, [Next]_vars
  PROVE  DeviceTypeOK'
<1>. DeviceTypeOK
  BY DEF IInv, TypeOK
<1>. USE HwSlotsAssumption DEF DeviceTypeOK
<1>1. ASSUME NEW cmd \in Cmds, BusReceive(cmd) PROVE DeviceTypeOK'
  <2>1. (stackPtr + 1) % HwSlots \in 0..HwSlots - 1
    BY ModInRange
  <2>. QED
    BY <1>1, <2>1, CmdsAssumption
       DEF BusReceive, RxMessage, EndOfMessage, Pointers, Blocks, RxBlocks, OtherRx
<1>2. CASE BusTransmit
  <2>1. (stackPtr + 1) % HwSlots \in 0..HwSlots - 1
    BY ModInRange
  <2>. QED
    BY <1>2, <2>1
       DEF BusTransmit, TxMessage, EndOfMessage, Pointers, Blocks, RxBlocks
<1>3. CASE IsrEnter
  BY <1>3 DEF IsrEnter, AcknowledgeIrq
<1>4. CASE RT_Handler
  BY <1>4 DEF RT_Handler, ReadIntStat
<1>5. CASE RTInit
  <2>1. stack' \in [0..HwSlots - 1 -> Pointers] /\ stackPtr' \in 0..HwSlots - 1
    BY <1>5 DEF RTInit, DeviceReset, Pointers
  <2>2. block' \in [Blocks -> [1..3 -> Nat]]
    <3>1. NoData \in [1..3 -> Nat]
      BY DEF NoData
    <3>. QED
      BY <1>5, <3>1 DEF RTInit, DeviceReset
  <2>3. rxBlock' \in RxBlocks /\ intStat' \in BOOLEAN /\ irq' \in BOOLEAN
    BY <1>5 DEF RTInit, DeviceReset, RxBlocks
  <2>. QED
    BY <2>1, <2>2, <2>3
<1>6. CASE UNCHANGED bu61580Vars
  BY <1>6 DEF bu61580Vars
<1>. QED
  BY <1>1, <1>2, <1>3, <1>4, <1>5, <1>6
     DEF Next, vars, Bus, Isr, Task, TcpConnect, EnableIT, Pend, Readied, Run,
         ReadDesc, ReadData, Decode, Flush, OpenSucceeds, OpenFails, ConnSucceeds,
         ConnFails, ConnGivenUp, TcpPackageSend, CloseAndReconnect,
         ConnectionLost, OutsideTcp

(* Connection: the socket calls keep the pool, and no fourth try is made.  *)
LEMMA ConnType ==
  ASSUME IInv, [Next]_vars
  PROVE  ConnTypeOK'
<1>. ConnTypeOK
  BY DEF IInv, TypeOK
<1>. USE DEF ConnTypeOK, ConnRetries
<1>1. ASSUME NEW id \in SockIds, OpenSucceeds(id) PROVE ConnTypeOK'
  BY <1>1 DEF OpenSucceeds, NetSock_Open, SockStates
<1>2. CASE OpenFails
  BY <1>2 DEF OpenFails, TaskAt
<1>3. CASE ConnSucceeds
  <2>1. sockState' \in [SockIds -> SockStates]
    BY <1>3 DEF ConnSucceeds, NetSock_ConnSucceeds, SockStates
  <2>2. tries' \in 0..ConnRetries /\ pc' # "Conn"
    BY <1>3 DEF ConnSucceeds, TaskAt
  <2>. QED
    BY <1>3, <2>1, <2>2 DEF ConnSucceeds
<1>4. CASE ConnFails
  BY <1>4 DEF ConnFails, NetSock_ConnFails, SockStates, TaskAt
<1>5. CASE ConnGivenUp
  BY <1>5 DEF ConnGivenUp, NetSock_Close, SockStates
<1>6. CASE TcpPackageSend
  BY <1>6 DEF TcpPackageSend, NetSock_Close, SockStates
<1>7. CASE CloseAndReconnect
  BY <1>7 DEF CloseAndReconnect, NetSock_Close, SockStates
<1>8. CASE ConnectionLost
  BY <1>8 DEF ConnectionLost, NetSock_CloseFromConn, SockStates
<1>9. CASE Run
  BY <1>9 DEF Run
<1>10. CASE Decode \/ Flush
  BY <1>10 DEF Decode, Flush, AdvanceStkptr, connVars
<1>11. CASE RTInit \/ EnableIT \/ Pend \/ Readied \/ ReadDesc \/ ReadData
  BY <1>11 DEF RTInit, EnableIT, Pend, Readied, ReadDesc, ReadData, connVars
<1>12. CASE UNCHANGED <<pc, connVars>>
  BY <1>12 DEF connVars
<1>. QED
  BY <1>1, <1>2, <1>3, <1>4, <1>5, <1>6, <1>7, <1>8, <1>9, <1>10, <1>11, <1>12
     DEF Next, vars, Bus, Isr, Task, TcpConnect, BusReceive, BusTransmit, Delivered,
         IsrEnter, RT_Handler

(* History: the counts are natural numbers, and the bus stops at MaxMsg.   *)
LEMMA HistoryType ==
  ASSUME IInv, [Next]_vars
  PROVE  HistoryTypeOK'
<1>. HistoryTypeOK /\ DeviceTypeOK /\ KernelTypeOK
  BY DEF IInv, TypeOK
<1>. USE MaxMsgAssumption, SemMaxAssumption DEF HistoryTypeOK
<1>1. ASSUME NEW cmd \in Cmds, BusReceive(cmd) PROVE HistoryTypeOK'
  <2>0. nMsg + 1 \in 0..MaxMsg /\ nMsg + 1 \in Nat
    BY <1>1 DEF BusReceive, Delivered
  <2>1. nMsg' \in 0..MaxMsg /\ slotStamp' \in [0..HwSlots - 1 -> Nat]
    BY <1>1, <2>0 DEF BusReceive, Delivered
  <2>2. stamp' \in [Blocks -> Nat]
    BY <1>1, <2>0 DEF BusReceive
  <2>3. lost' \in [absorbed: Nat, flushed: Nat, overflowed: Nat]
    BY <1>1 DEF BusReceive, Delivered, Lose
  <2>. QED
    BY <1>1, <2>1, <2>2, <2>3 DEF BusReceive, Delivered
<1>2. CASE BusTransmit
  <2>0. nMsg + 1 \in 0..MaxMsg /\ nMsg + 1 \in Nat
    BY <1>2 DEF BusTransmit, Delivered
  <2>1. nMsg' \in 0..MaxMsg /\ slotStamp' \in [0..HwSlots - 1 -> Nat]
    BY <1>2, <2>0 DEF BusTransmit, Delivered
  <2>2. lost' \in [absorbed: Nat, flushed: Nat, overflowed: Nat]
    BY <1>2 DEF BusTransmit, Delivered, Lose
  <2>. QED
    BY <1>2, <2>1, <2>2 DEF BusTransmit, Delivered
<1>3. CASE RT_Handler
  BY <1>3 DEF RT_Handler, Lose, busVars
<1>4. CASE Decode
  BY <1>4 DEF Decode, AdvanceStkptr, busVars
<1>5. CASE Flush
  BY <1>5 DEF Flush, AdvanceStkptr, Lose, busVars, KernelTypeOK
<1>6. CASE UNCHANGED <<busVars, nDone, lost>>
  BY <1>6 DEF busVars
<1>. QED
  BY <1>1, <1>2, <1>3, <1>4, <1>5, <1>6
     DEF Next, vars, Bus, Isr, Task, TcpConnect, IsrEnter, RTInit, EnableIT, Pend,
         Readied, Run, ReadDesc, ReadData, OpenSucceeds, OpenFails, ConnSucceeds,
         ConnFails, ConnGivenUp, TcpPackageSend, CloseAndReconnect,
         ConnectionLost, OutsideTcp

(* Task: Stkptr stays inside its ring and no descriptor is read before the *)
(* device has written it.                                                  *)
LEMMA HeldMessageIsWritten ==
  ASSUME IInv, TaskAt("ReadDesc")
  PROVE  stack[Stkptr] # "none"
<1>1. nDone < nMsg /\ nMsg \in Nat /\ nDone \in Nat
  BY DEF IInv, TypeOK, HistoryTypeOK, KernelTypeOK, Accounting, BoolToNat, TokenTaken,
         Working, TaskAt, LostInAll
<1>2. Stkptr \in 0..HwSlots - 1 /\ Stkptr < nMsg
  BY <1>1, SwSlotsAssumption, HwSlotsAssumption
     DEF IInv, TypeOK, TaskTypeOK, StkptrFollows
<1>. QED
  BY <1>2 DEF IInv, StackFilled, Online, TaskAt

LEMMA TaskType ==
  ASSUME IInv, [Next]_vars
  PROVE  TaskTypeOK'
<1>. TaskTypeOK /\ DeviceTypeOK /\ ConnTypeOK
  BY DEF IInv, TypeOK
<1>. USE SwSlotsAssumption DEF TaskTypeOK, TaskSteps
<1>1. CASE IsrEnter \/ RT_Handler
  BY <1>1 DEF IsrEnter, RT_Handler, bufVars
<1>2. CASE RTInit \/ EnableIT \/ Pend \/ Readied \/ Run
  BY <1>2 DEF RTInit, EnableIT, Pend, Readied, Run, isrVars, bufVars
<1>3. CASE ReadDesc
  <2>1. stack[Stkptr] # "none"
    BY <1>3, HeldMessageIsWritten DEF ReadDesc
  <2>2. stack[Stkptr] \in Pointers
    BY HwSlotsAssumption DEF DeviceTypeOK
  <2>. QED
    BY <1>3, <2>1, <2>2 DEF ReadDesc, isrVars
<1>4. CASE ReadData
  BY <1>4 DEF ReadData, TaskAt, isrVars
<1>5. ASSUME AdvanceStkptr, UNCHANGED <<isr, pDataBlock>>,
             motor_cmd' \in [dir: {"cw", "ccw"}, freq: {"0", "400Hz", "900Hz"}]
      PROVE  TaskTypeOK'
  <2>1. (Stkptr + 1) % SwSlots \in 0..SwSlots - 1
    <3>1. Stkptr + 1 \in Nat
      OBVIOUS
    <3>. QED
      BY <3>1, ModInRange
  <2>. QED
    BY <1>5, <2>1 DEF AdvanceStkptr
<1>6. CASE Decode
  <2>1. motor_cmd' \in [dir: {"cw", "ccw"}, freq: {"0", "400Hz", "900Hz"}]
    BY <1>6 DEF Decode, MotorCommand, Direction, Frequency
  <2>. QED
    BY <1>5, <1>6, <2>1 DEF Decode, isrVars
<1>7. CASE Flush
  BY <1>5, <1>7 DEF Flush, isrVars
<1>8. CASE TcpConnect \/ TcpPackageSend \/ CloseAndReconnect \/ ConnectionLost
  BY <1>8 DEF TcpConnect, OpenSucceeds, OpenFails, ConnSucceeds, ConnFails,
              ConnGivenUp, TcpPackageSend, CloseAndReconnect, ConnectionLost,
              OutsideTcp, isrVars, bufVars, ConnTypeOK
<1>9. CASE UNCHANGED <<isrVars, pc, bufVars, motor_cmd>>
  BY <1>9 DEF isrVars, bufVars
<1>. QED
  BY <1>1, <1>2, <1>3, <1>4, <1>6, <1>7, <1>8, <1>9
     DEF Next, vars, Bus, Isr, Task, BusReceive, BusTransmit, Delivered

(* Data: three words are read, in order, before they are decoded.          *)
LEMMA DataType ==
  ASSUME IInv, [Next]_vars
  PROVE  DataTypeOK'
<1>. DataTypeOK /\ DeviceTypeOK /\ TaskTypeOK /\ HistoryTypeOK /\ ConnTypeOK
  BY DEF IInv, TypeOK
<1>. USE DEF DataTypeOK
<1>1. CASE ReadDesc
  BY <1>1 DEF ReadDesc
<1>2. CASE ReadData
  <2>0. pDataBlock \in Blocks
    BY <1>2 DEF ReadData, TaskAt, TaskTypeOK, Pointers
  <2>1. Len(RTData) \in 0..2
    BY <1>2 DEF ReadData, TaskAt
  <2>2. block[pDataBlock][Len(RTData) + 1] \in Nat /\ stamp[pDataBlock] \in Nat
    <3>1. \A i \in 0..2 : block[pDataBlock][i + 1] \in Nat
      BY <2>0 DEF DeviceTypeOK
    <3>2. stamp[pDataBlock] \in Nat
      BY <2>0 DEF HistoryTypeOK
    <3>. QED
      BY <2>1, <3>1, <3>2
  <2>3. /\ RTData' \in Seq(Nat) /\ Len(RTData') = Len(RTData) + 1
        /\ readStamp' \in Seq(Nat) /\ Len(readStamp') = Len(readStamp) + 1
    BY <1>2, <2>2, AppendNat DEF ReadData
  <2>4. pc' = IF Len(RTData) = 2 THEN "Decode" ELSE "ReadData"
    BY <1>2 DEF ReadData
  <2>5. Len(readStamp') = Len(RTData')
    BY <2>3
  <2>6. CASE Len(RTData) = 2
    BY <2>3, <2>4, <2>5, <2>6
  <2>7. CASE Len(RTData) # 2
    <3>1. pc' = "ReadData"
      BY <2>4, <2>7
    <3>2. Len(RTData) + 1 \in 0..2
      BY <2>1, <2>7
    <3>3. Len(RTData') \in 0..2
      BY <2>3, <3>2
    <3>. QED
      BY <2>3, <2>5, <3>1, <3>3
  <2>. QED
    BY <2>6, <2>7
<1>3. CASE Decode \/ Flush
  BY <1>3 DEF Decode, Flush, TaskAt, AdvanceStkptr
<1>4. CASE RTInit \/ EnableIT \/ Pend \/ Readied \/ Run
  BY <1>4 DEF RTInit, EnableIT, Pend, Readied, Run, bufVars
<1>5. CASE TcpConnect \/ TcpPackageSend \/ CloseAndReconnect
  BY <1>5 DEF TcpConnect, OpenSucceeds, OpenFails, ConnSucceeds, ConnFails,
              ConnGivenUp, TcpPackageSend, CloseAndReconnect, OutsideTcp, bufVars,
              ConnTypeOK
<1>6. CASE UNCHANGED <<pc, bufVars>>
  BY <1>6 DEF bufVars
<1>. QED
  BY <1>1, <1>2, <1>3, <1>4, <1>5, <1>6
     DEF Next, vars, Bus, Isr, Task, BusReceive, BusTransmit, Delivered, IsrEnter,
         RT_Handler, ConnectionLost, OutsideTcp

LEMMA TypeStep == IInv /\ [Next]_vars => TypeOK'
BY KernelType, DeviceType, ConnType, HistoryType, TaskType, DataType DEF TypeOK

-----------------------------------------------------------------------------
LEMMA BootStep == IInv /\ [Next]_vars => BootQuiet'
<1>. SUFFICES ASSUME IInv, [Next]_vars PROVE BootQuiet'
  OBVIOUS
<1>. BootQuiet /\ TaskTypeOK /\ ConnTypeOK
  BY DEF IInv, TypeOK
<1>. USE DEF BootQuiet
<1>1. CASE Bus
  BY <1>1 DEF Bus, BusReceive, BusTransmit, Delivered, Online, isrVars
<1>2. CASE Isr
  BY <1>2 DEF Isr, IsrEnter, RT_Handler, busVars
<1>3. CASE RTInit \/ EnableIT
  BY <1>3 DEF RTInit, EnableIT, TaskAt, isrVars, busVars
<1>4. CASE Pend \/ Readied \/ Run \/ ReadDesc \/ ReadData \/ Decode \/ Flush
  BY <1>4 DEF Pend, Readied, Run, ReadDesc, ReadData, Decode, Flush, AdvanceStkptr
<1>5. CASE TcpConnect \/ TcpPackageSend \/ CloseAndReconnect
  BY <1>5 DEF TcpConnect, OpenSucceeds, OpenFails, ConnSucceeds, ConnFails,
              ConnGivenUp, TcpPackageSend, CloseAndReconnect, ConnTypeOK
<1>6. CASE ConnectionLost \/ UNCHANGED vars
  BY <1>6 DEF ConnectionLost, vars, OutsideTcp, isrVars, busVars, bu61580Vars
<1>. QED
  BY <1>1, <1>2, <1>3, <1>4, <1>5, <1>6 DEF Next, Task

-----------------------------------------------------------------------------
(* Only the one task can be in the wait list, so a post readies it.        *)
LEMMA PostReadies ==
  ASSUME KernelTypeOK, OSEventGrp # {}
  PROVE  OSEventGrp \ {HighestPrio(OSEventGrp)} = {}
<1>1. OSEventGrp = {Prio}
  BY DEF KernelTypeOK
<1>2. HighestPrio({Prio}) = Prio
  BY PrioAssumption DEF HighestPrio
<1>. QED
  BY <1>1, <1>2

LEMMA SleepStep == IInv /\ [Next]_vars => NoSleepOnToken'
<1>. SUFFICES ASSUME IInv, [Next]_vars PROVE NoSleepOnToken'
  OBVIOUS
<1>. NoSleepOnToken /\ KernelTypeOK /\ TaskTypeOK
  BY DEF IInv, TypeOK
<1>. USE DEF NoSleepOnToken, Waiting
<1>1. CASE RT_Handler
  BY <1>1, PostReadies DEF RT_Handler, OSSemPost, semVars
<1>2. CASE Pend
  BY <1>2 DEF Pend, OSSemPend, KernelTypeOK
<1>3. CASE Readied
  BY <1>3 DEF Readied, semVars, KernelTypeOK
<1>4. CASE Flush
  BY <1>4 DEF Flush, TaskAt
<1>5. CASE RTInit \/ EnableIT \/ Run \/ ReadDesc \/ ReadData \/ Decode
  BY <1>5 DEF RTInit, EnableIT, Run, ReadDesc, ReadData, Decode, TaskAt, semVars
<1>6. CASE TcpConnect \/ TcpPackageSend \/ CloseAndReconnect
  BY <1>6 DEF TcpConnect, OpenSucceeds, OpenFails, ConnSucceeds, ConnFails,
              ConnGivenUp, TcpPackageSend, CloseAndReconnect, OutsideTcp, TaskAt,
              semVars
<1>7. CASE UNCHANGED <<semVars, pc>>
  BY <1>7 DEF semVars
<1>. QED
  BY <1>1, <1>2, <1>3, <1>4, <1>5, <1>6, <1>7
     DEF Next, vars, Bus, Isr, Task, BusReceive, BusTransmit, Delivered, IsrEnter,
         ConnectionLost, OutsideTcp

LEMMA PendingStep == IInv /\ [Next]_vars => InterruptPending'
<1>. SUFFICES ASSUME IInv, [Next]_vars PROVE InterruptPending'
  OBVIOUS
<1>. InterruptPending /\ BootQuiet /\ TaskTypeOK
  BY DEF IInv, TypeOK
<1>. USE DEF InterruptPending, Online
<1>1. CASE Bus
  BY <1>1 DEF Bus, BusReceive, BusTransmit, Delivered, RxMessage, TxMessage,
              EndOfMessage
<1>2. CASE IsrEnter
  BY <1>2 DEF IsrEnter
<1>3. CASE RT_Handler
  BY <1>3 DEF RT_Handler, ReadIntStat
<1>4. CASE RTInit
  BY <1>4 DEF RTInit, DeviceReset
<1>5. CASE UNCHANGED <<intStat, irq, isr>> /\ (pc = "RTInit" => pc' = "RTInit")
  BY <1>5 DEF BootQuiet
<1>. QED
  BY <1>1, <1>2, <1>3, <1>4, <1>5
     DEF Next, vars, bu61580Vars, isrVars, Isr, Task, TcpConnect, TaskAt, EnableIT,
         Pend, Readied, Run, ReadDesc, ReadData, Decode, Flush, OpenSucceeds,
         OpenFails, ConnSucceeds, ConnFails, ConnGivenUp, TcpPackageSend,
         CloseAndReconnect, ConnectionLost, OutsideTcp

(* The balance.  Each step moves a message from one account to another.    *)
LEMMA AccountingStep == IInv /\ [Next]_vars => Accounting'
<1>. SUFFICES ASSUME IInv, [Next]_vars PROVE Accounting'
  OBVIOUS
<1>. /\ Accounting /\ NoSleepOnToken /\ BootQuiet
     /\ KernelTypeOK /\ TaskTypeOK /\ ConnTypeOK
     /\ nMsg \in Nat /\ nDone \in Nat /\ OSEventCnt \in Nat
     /\ lost \in [absorbed: Nat, flushed: Nat, overflowed: Nat]
     /\ intStat \in BOOLEAN
  BY MaxMsgAssumption, SemMaxAssumption
     DEF IInv, TypeOK, HistoryTypeOK, KernelTypeOK, DeviceTypeOK
<1>. USE DEF Accounting, BoolToNat
<1>1. CASE Bus
  <2>1. /\ nMsg' = nMsg + 1 /\ intStat' = TRUE
        /\ LostInAll' = LostInAll + (IF intStat THEN 1 ELSE 0)
    BY <1>1 DEF Bus, BusReceive, BusTransmit, Delivered, RxMessage, TxMessage,
                EndOfMessage, Lose, LostInAll
  <2>2. OSEventCnt' = OSEventCnt /\ nDone' = nDone /\ TokenTaken' = TokenTaken
    BY <1>1 DEF Bus, BusReceive, BusTransmit, Delivered, semVars, connVars,
                TokenTaken, Working, Waiting
  <2>. QED
    BY <2>1, <2>2 DEF LostInAll
<1>2. CASE RT_Handler /\ ~intStat
  BY <1>2 DEF RT_Handler, ReadIntStat, semVars, connVars, busVars, TokenTaken,
              Working, Waiting, LostInAll
<1>3. CASE RT_Handler /\ intStat
  <2>1. /\ nMsg' = nMsg /\ nDone' = nDone /\ intStat' = FALSE
        /\ pc' = pc /\ ret' = ret
    BY <1>3 DEF RT_Handler, ReadIntStat, busVars, connVars
  <2>2. CASE OSEventGrp # {}
    <3>1. OSEventCnt' = OSEventCnt /\ OSEventGrp' = {} /\ LostInAll' = LostInAll
      BY <1>3, <2>2, PostReadies DEF RT_Handler, OSSemPost, PostOverflows, LostInAll
    <3>2. ~TokenTaken /\ TokenTaken'
      BY <2>1, <2>2, <3>1 DEF NoSleepOnToken, TokenTaken, Waiting, Working
    <3>. QED
      BY <1>3, <2>1, <3>1, <3>2 DEF LostInAll
  <2>3. CASE OSEventGrp = {} /\ OSEventCnt < SemMax
    <3>1. OSEventCnt' = OSEventCnt + 1 /\ OSEventGrp' = {} /\ LostInAll' = LostInAll
      BY <1>3, <2>3, SemMaxAssumption DEF RT_Handler, OSSemPost, PostOverflows,
                                          LostInAll
    <3>2. TokenTaken' = TokenTaken
      BY <2>1, <2>3, <3>1 DEF TokenTaken, Waiting, Working
    <3>. QED
      BY <1>3, <2>1, <3>1, <3>2 DEF LostInAll
  <2>4. CASE PostOverflows
    <3>1. /\ UNCHANGED <<OSEventCnt, OSEventGrp>>
          /\ LostInAll' = LostInAll + 1
      BY <1>3, <2>4, SemMaxAssumption DEF RT_Handler, OSSemPost, PostOverflows, Lose,
                                          LostInAll, semVars
    <3>2. TokenTaken' = TokenTaken
      BY <2>1, <3>1 DEF TokenTaken, Waiting, Working
    <3>. QED
      BY <1>3, <2>1, <3>1, <3>2 DEF LostInAll
  <2>. QED
    BY <2>2, <2>3, <2>4, SemMaxAssumption DEF PostOverflows, KernelTypeOK
<1>4. CASE RTInit
  <2>1. ~intStat /\ ~intStat'
    BY <1>4 DEF RTInit, DeviceReset, TaskAt, BootQuiet
  <2>. QED
    BY <1>4, <2>1 DEF RTInit, TaskAt, semVars, connVars, busVars, TokenTaken, Working,
                      Waiting, LostInAll
<1>5. CASE Pend
  <2>1. /\ UNCHANGED <<nMsg, nDone, intStat, lost>>
        /\ ~TokenTaken
    BY <1>5 DEF Pend, busVars, bu61580Vars, TaskAt, TokenTaken, Working
  <2>2. CASE OSEventCnt > 0
    <3>1. OSEventCnt' = OSEventCnt - 1 /\ TokenTaken'
      BY <1>5, <2>2 DEF Pend, OSSemPend, TokenTaken, Working
    <3>. QED
      BY <2>1, <2>2, <3>1 DEF LostInAll
  <2>3. CASE OSEventCnt = 0
    <3>1. OSEventCnt' = 0 /\ ~TokenTaken'
      BY <1>5, <2>3 DEF Pend, OSSemPend, TokenTaken, Working, Waiting
    <3>. QED
      BY <2>1, <2>3, <3>1 DEF LostInAll
  <2>. QED
    BY <2>2, <2>3
<1>6. CASE Readied \/ Run \/ ReadDesc \/ ReadData
  <2>1. TokenTaken /\ TokenTaken'
    BY <1>6 DEF Readied, Run, ReadDesc, ReadData, TaskAt, TokenTaken, Working, Waiting
  <2>2. UNCHANGED <<nMsg, nDone, OSEventCnt, intStat, lost>>
    BY <1>6 DEF Readied, Run, ReadDesc, ReadData, semVars, busVars, bu61580Vars
  <2>. QED
    BY <2>1, <2>2 DEF LostInAll
<1>7. CASE Decode
  <2>1. TokenTaken /\ UNCHANGED <<nMsg, OSEventCnt, intStat, lost>>
    BY <1>7 DEF Decode, TaskAt, TokenTaken, Working, semVars, busVars, bu61580Vars
  <2>2. \/ TokenTaken' /\ nDone' = nDone
        \/ ~TokenTaken' /\ nDone' = nDone + 1
    BY <1>7 DEF Decode, AdvanceStkptr, TokenTaken, Working
  <2>. QED
    BY <2>1, <2>2 DEF LostInAll
<1>8. CASE Flush
  <2>1. TokenTaken /\ ~TokenTaken' /\ nDone' = nDone + 1
    BY <1>8 DEF Flush, AdvanceStkptr, TaskAt, TokenTaken, Working
  <2>2. OSEventCnt' = 0 /\ LostInAll' = LostInAll + OSEventCnt
    BY <1>8 DEF Flush, Lose, LostInAll
  <2>3. UNCHANGED <<nMsg, intStat>>
    BY <1>8 DEF Flush, busVars, bu61580Vars
  <2>. QED
    BY <2>1, <2>2, <2>3 DEF LostInAll
<1>9. CASE TcpConnect \/ TcpPackageSend \/ CloseAndReconnect
  <2>1. TokenTaken' = TokenTaken
    BY <1>9 DEF TcpConnect, OpenSucceeds, OpenFails, ConnSucceeds, ConnFails,
                ConnGivenUp, TcpPackageSend, CloseAndReconnect, TaskAt, OutsideTcp,
                TokenTaken, Working, Waiting, ConnTypeOK, TxResults
  <2>2. UNCHANGED OutsideTcp
    BY <1>9 DEF TcpConnect, OpenSucceeds, OpenFails, ConnSucceeds, ConnFails,
                ConnGivenUp, TcpPackageSend, CloseAndReconnect, OutsideTcp
  <2>. QED
    BY <2>1, <2>2 DEF OutsideTcp, semVars, busVars, bu61580Vars, LostInAll
<1>10. CASE UNCHANGED <<nMsg, nDone, OSEventCnt, OSEventGrp, intStat, lost, pc, ret>>
  BY <1>10 DEF TokenTaken, Working, Waiting, LostInAll
<1>11. CASE EnableIT
  BY <1>11 DEF EnableIT, TaskAt, semVars, connVars, busVars, bu61580Vars, TokenTaken,
               Working, Waiting, LostInAll
<1>. QED
  BY <1>1, <1>2, <1>3, <1>4, <1>5, <1>6, <1>7, <1>8, <1>9, <1>10, <1>11
     DEF Next, vars, Isr, Task, IsrEnter, ConnectionLost, OutsideTcp, semVars,
         bu61580Vars, busVars, connVars

-----------------------------------------------------------------------------
(* The device's side: what the next end of message does to the stack.      *)
LEMMA MessageFills ==
  ASSUME IInv, Delivered, NEW b \in Blocks, EndOfMessage(b)
  PROVE  StackFilled'
<1>. /\ DeviceTypeOK /\ nMsg \in Nat /\ HwSlots \in Nat \ {0}
     /\ slotStamp \in [0..HwSlots - 1 -> Nat] /\ StackFilled
  BY HwSlotsAssumption, MaxMsgAssumption DEF IInv, TypeOK, HistoryTypeOK
<1>1. /\ Online /\ nMsg' = nMsg + 1 /\ pc' = pc
      /\ stack' = [stack EXCEPT ![stackPtr] = b]
      /\ stackPtr' = (stackPtr + 1) % HwSlots
      /\ slotStamp' = [slotStamp EXCEPT ![stackPtr] = nMsg + 1]
  BY DEF Delivered, EndOfMessage
<1>2. b # "none"
  BY DEF Blocks, RxBlocks
<1>3. nMsg' < HwSlots => stackPtr' = nMsg'
  BY <1>1, ModOfSmall DEF StackFilled
<1>4. \A s \in 0..HwSlots - 1 : s < nMsg' => stack'[s] # "none"
  BY <1>1, <1>2 DEF StackFilled, DeviceTypeOK
<1>5. nMsg' <= HwSlots => \A s \in 0..HwSlots - 1 : s < nMsg' => slotStamp'[s] = s + 1
  BY <1>1 DEF StackFilled, DeviceTypeOK
<1>. QED
  BY <1>1, <1>3, <1>4, <1>5 DEF StackFilled, Online

LEMMA StackStep == IInv /\ [Next]_vars => StackFilled'
<1>. SUFFICES ASSUME IInv, [Next]_vars PROVE StackFilled'
  OBVIOUS
<1>. StackFilled /\ BootQuiet /\ DeviceTypeOK
  BY DEF IInv, TypeOK
<1>1. ASSUME NEW cmd \in Cmds, BusReceive(cmd) PROVE StackFilled'
  <2>1. rxBlock \in Blocks
    BY DEF DeviceTypeOK, Blocks
  <2>. QED
    BY <1>1, <2>1, MessageFills DEF BusReceive, RxMessage
<1>2. CASE BusTransmit
  BY <1>2, MessageFills DEF BusTransmit, TxMessage, Blocks
<1>3. CASE RTInit
  <2>1. nMsg' = 0 /\ stackPtr' = 0
    BY <1>3 DEF RTInit, DeviceReset, TaskAt, BootQuiet, busVars
  <2>. QED
    BY <2>1 DEF StackFilled
<1>4. CASE /\ UNCHANGED <<stack, stackPtr, slotStamp, nMsg>>
           /\ pc = "RTInit" => pc' = "RTInit"
  BY <1>4 DEF StackFilled, Online
<1>. QED
  BY <1>1, <1>2, <1>3, <1>4
     DEF Next, vars, bu61580Vars, busVars, Bus, Isr, Task, TcpConnect, TaskAt,
         IsrEnter, RT_Handler, EnableIT, Pend, Readied, Run, ReadDesc, ReadData,
         Decode, Flush, OpenSucceeds, OpenFails, ConnSucceeds, ConnFails,
         ConnGivenUp, TcpPackageSend, CloseAndReconnect, ConnectionLost, OutsideTcp

LEMMA StkptrStep == IInv /\ [Next]_vars => StkptrFollows'
<1>. SUFFICES ASSUME IInv, [Next]_vars PROVE StkptrFollows'
  OBVIOUS
<1>. /\ StkptrFollows /\ Stkptr \in 0..SwSlots - 1 /\ nDone \in Nat
     /\ SwSlots \in Nat \ {0}
  BY SwSlotsAssumption DEF IInv, TypeOK, TaskTypeOK, HistoryTypeOK
<1>1. CASE AdvanceStkptr
  <2>1. Stkptr' = (Stkptr + 1) % SwSlots /\ nDone' = nDone + 1
    BY <1>1 DEF AdvanceStkptr
  <2>2. Stkptr + 1 < SwSlots => Stkptr' = Stkptr + 1
    BY <2>1, ModOfSmall
  <2>3. Stkptr + 1 = SwSlots => Stkptr' = 0
    BY <2>1
  <2>. QED
    BY <2>1, <2>2, <2>3 DEF StkptrFollows
<1>2. CASE UNCHANGED <<Stkptr, nDone>>
  BY <1>2 DEF StkptrFollows
<1>. QED
  BY <1>1, <1>2
     DEF Next, vars, bufVars, Bus, Isr, Task, TcpConnect, BusReceive, BusTransmit,
         Delivered, IsrEnter, RT_Handler, RTInit, EnableIT, Pend, Readied, Run,
         ReadDesc, ReadData, Decode, Flush, OpenSucceeds, OpenFails, ConnSucceeds,
         ConnFails, ConnGivenUp, TcpPackageSend, CloseAndReconnect,
         ConnectionLost, OutsideTcp

LEMMA Invariance == Spec => []IInv
<1>1. IInv /\ [Next]_vars => IInv'
  BY TypeStep, BootStep, AccountingStep, PendingStep, SleepStep, StackStep, StkptrStep
     DEF IInv
<1>. QED
  BY <1>1, InitIInv, PTL DEF Spec

-----------------------------------------------------------------------------
(* Every variable keeps its type, at every size of the instance; with it,  *)
(* the task never follows a data block pointer the device has not written. *)
THEOREM TypeCorrect == Spec => []TypeOK
BY Invariance, PTL DEF IInv

(* No end of message is lost but in the three ways the code has, and none  *)
(* is served twice.                                                        *)
THEOREM TokensBalance == Spec => []Accounting
BY Invariance, PTL DEF IInv

(* A pending status bit always has an edge or a running handler behind it. *)
THEOREM NoLostInterrupt == Spec => []InterruptPending
BY Invariance, PTL DEF IInv

(* The task is never left in the wait list while the semaphore counts.     *)
THEOREM NoLostWakeup == Spec => []NoSleepOnToken
BY Invariance, PTL DEF IInv

(* Until Stkptr first wraps, the task reads its own message's descriptor.  *)
THEOREM OwnDescriptorUntilWrap == Spec => []DescriptorOfItsMessage
<1>1. IInv => DescriptorOfItsMessage
  <2>. SUFFICES ASSUME IInv, pc = "ReadDesc", nDone < SwSlots, nMsg <= HwSlots
                PROVE  slotStamp[Stkptr] = nDone + 1
    BY DEF DescriptorOfItsMessage
  <2>1. nDone < nMsg /\ nMsg \in Nat /\ nDone \in Nat
    BY DEF IInv, TypeOK, HistoryTypeOK, KernelTypeOK, Accounting, BoolToNat,
           TokenTaken, Working, LostInAll
  <2>2. Stkptr = nDone /\ Stkptr \in 0..HwSlots - 1
    BY <2>1, SwSlotsAssumption, HwSlotsAssumption DEF IInv, StkptrFollows
  <2>. QED
    BY <2>1, <2>2 DEF IInv, StackFilled, Online
<1>. QED
  BY <1>1, Invariance, PTL

-----------------------------------------------------------------------------
(* What is outstanding in the abstract channel is what the semaphore and   *)
(* the status register hold together: the balance says so.                 *)
LEMMA OutstandingIs ==
  ASSUME IInv
  PROVE  /\ Channel!Outstanding = OSEventCnt + BoolToNat(intStat)
         /\ nMsg \in Nat /\ nDone \in Nat /\ OSEventCnt \in Nat /\ LostInAll \in Nat
         /\ TokenTaken \in BOOLEAN /\ intStat \in BOOLEAN
<1>1. /\ nMsg \in Nat /\ nDone \in Nat /\ OSEventCnt \in Nat /\ LostInAll \in Nat
      /\ intStat \in BOOLEAN
  BY MaxMsgAssumption, SemMaxAssumption
     DEF IInv, TypeOK, HistoryTypeOK, KernelTypeOK, DeviceTypeOK, LostInAll
<1>2. TokenTaken \in BOOLEAN
  BY DEF TokenTaken, Working, Waiting
<1>. QED
  BY <1>1, <1>2 DEF IInv, Accounting, BoolToNat, Channel!Outstanding

LEMMA StepRefines == IInv /\ [Next]_vars => [Channel!Next]_(Channel!vars)
<1>. SUFFICES ASSUME IInv, [Next]_vars PROVE [Channel!Next]_(Channel!vars)
  OBVIOUS
<1>. USE OutstandingIs
<1>. TokenTaken' \in BOOLEAN
  BY DEF TokenTaken, Working, Waiting
<1>. /\ NoSleepOnToken /\ KernelTypeOK /\ ConnTypeOK /\ BootQuiet
     /\ lost \in [absorbed: Nat, flushed: Nat, overflowed: Nat]
  BY DEF IInv, TypeOK, HistoryTypeOK
<1>1. CASE Bus
  <2>1. nMsg' = nMsg + 1 /\ LostInAll' \in {LostInAll, LostInAll + 1}
    BY <1>1 DEF Bus, BusReceive, BusTransmit, Delivered, Lose, LostInAll
  <2>2. nDone' = nDone /\ TokenTaken' = TokenTaken
    BY <1>1 DEF Bus, BusReceive, BusTransmit, Delivered, semVars, connVars,
                TokenTaken, Working, Waiting
  <2>. QED
    BY <2>1, <2>2 DEF Channel!Next, Channel!Receive
<1>2. CASE RT_Handler /\ ~intStat
  BY <1>2 DEF RT_Handler, semVars, connVars, busVars, TokenTaken, Working, Waiting,
              LostInAll, Channel!vars
<1>3. CASE RT_Handler /\ intStat
  <2>1. nMsg' = nMsg /\ nDone' = nDone /\ pc' = pc /\ ret' = ret
    BY <1>3 DEF RT_Handler, busVars, connVars
  <2>2. Channel!Outstanding > 0
    BY <1>3 DEF BoolToNat
  <2>3. CASE OSEventGrp # {}
    <3>1. OSEventGrp' = {} /\ LostInAll' = LostInAll
      BY <1>3, <2>3, PostReadies DEF RT_Handler, OSSemPost, PostOverflows, LostInAll
    <3>2. ~TokenTaken /\ TokenTaken'
      BY <2>1, <2>3, <3>1 DEF NoSleepOnToken, TokenTaken, Waiting, Working
    <3>. QED
      BY <2>1, <2>2, <3>1, <3>2 DEF Channel!Next, Channel!Start
  <2>4. CASE OSEventGrp = {} /\ OSEventCnt < SemMax
    <3>1. OSEventGrp' = OSEventGrp /\ LostInAll' = LostInAll
      BY <1>3, <2>4, SemMaxAssumption DEF RT_Handler, OSSemPost, PostOverflows,
                                          LostInAll
    <3>2. TokenTaken' = TokenTaken
      BY <2>1, <3>1 DEF TokenTaken, Waiting, Working
    <3>. QED
      BY <2>1, <3>1, <3>2 DEF Channel!vars
  <2>5. CASE PostOverflows
    <3>1. UNCHANGED OSEventGrp /\ Lose("overflowed", 1)
      <4>1. OSSemPost /\ Lose("overflowed", 1)
        BY <1>3, <2>5 DEF RT_Handler
      <4>. QED
        BY <4>1, <2>5, SemMaxAssumption DEF OSSemPost, PostOverflows, semVars
    <3>3. LostInAll' = LostInAll + 1
      BY <3>1 DEF Lose, LostInAll
    <3>2. TokenTaken' = TokenTaken
      BY <2>1, <3>1 DEF TokenTaken, Waiting, Working
    <3>. QED
      BY <2>1, <2>2, <3>2, <3>3 DEF Channel!Next, Channel!Drop
  <2>. QED
    BY <2>3, <2>4, <2>5, SemMaxAssumption DEF PostOverflows, KernelTypeOK
<1>4. CASE RTInit \/ EnableIT
  <2>1. ~TokenTaken /\ ~TokenTaken'
    BY <1>4 DEF RTInit, EnableIT, TaskAt, semVars, connVars, TokenTaken, Working,
                Waiting
  <2>. QED
    BY <1>4, <2>1 DEF RTInit, EnableIT, busVars, LostInAll, Channel!vars
<1>5. CASE Pend
  <2>1. UNCHANGED <<nMsg, nDone, lost>> /\ ~TokenTaken
    BY <1>5 DEF Pend, busVars, TaskAt, TokenTaken, Working
  <2>2. CASE OSEventCnt > 0
    <3>1. TokenTaken' /\ Channel!Outstanding > 0
      BY <1>5, <2>2 DEF Pend, OSSemPend, TokenTaken, Working, BoolToNat
    <3>. QED
      BY <2>1, <3>1 DEF LostInAll, Channel!Next, Channel!Start
  <2>3. CASE OSEventCnt = 0
    <3>1. ~TokenTaken'
      BY <1>5, <2>3 DEF Pend, OSSemPend, TokenTaken, Working, Waiting
    <3>. QED
      BY <2>1, <3>1 DEF LostInAll, Channel!vars
  <2>. QED
    BY <2>2, <2>3
<1>6. CASE Readied \/ Run \/ ReadDesc \/ ReadData
  <2>1. TokenTaken /\ TokenTaken'
    BY <1>6 DEF Readied, Run, ReadDesc, ReadData, TaskAt, TokenTaken, Working, Waiting
  <2>2. UNCHANGED <<nMsg, nDone, lost>>
    BY <1>6 DEF Readied, Run, ReadDesc, ReadData, busVars
  <2>. QED
    BY <2>1, <2>2 DEF LostInAll, Channel!vars
<1>7. CASE Decode
  <2>1. TokenTaken /\ UNCHANGED <<nMsg, lost>>
    BY <1>7 DEF Decode, TaskAt, TokenTaken, Working, busVars
  <2>2. \/ TokenTaken' /\ nDone' = nDone
        \/ ~TokenTaken' /\ nDone' = nDone + 1
    BY <1>7 DEF Decode, AdvanceStkptr, TokenTaken, Working
  <2>3. LostInAll' = LostInAll /\ LostInAll \in LostInAll..LostInAll + Channel!Outstanding
    BY <2>1 DEF LostInAll, BoolToNat
  <2>. QED
    BY <2>1, <2>2, <2>3 DEF Channel!vars, Channel!Next, Channel!Finish
<1>8. CASE Flush
  <2>1. TokenTaken /\ ~TokenTaken' /\ nDone' = nDone + 1 /\ nMsg' = nMsg
    BY <1>8 DEF Flush, AdvanceStkptr, TaskAt, TokenTaken, Working, busVars
  <2>2. LostInAll' = LostInAll + OSEventCnt
    BY <1>8 DEF Flush, Lose, LostInAll
  <2>3. LostInAll' \in LostInAll..LostInAll + Channel!Outstanding
    BY <2>2 DEF BoolToNat
  <2>. QED
    BY <2>1, <2>3 DEF Channel!Next, Channel!Finish
<1>9. CASE TcpConnect \/ TcpPackageSend \/ CloseAndReconnect
  <2>1. TokenTaken' = TokenTaken
    BY <1>9 DEF TcpConnect, OpenSucceeds, OpenFails, ConnSucceeds, ConnFails,
                ConnGivenUp, TcpPackageSend, CloseAndReconnect, TaskAt, OutsideTcp,
                TokenTaken, Working, Waiting, ConnTypeOK, TxResults
  <2>2. UNCHANGED <<nMsg, nDone, lost>>
    BY <1>9 DEF TcpConnect, OpenSucceeds, OpenFails, ConnSucceeds, ConnFails,
                ConnGivenUp, TcpPackageSend, CloseAndReconnect, OutsideTcp, busVars
  <2>. QED
    BY <2>1, <2>2 DEF LostInAll, Channel!vars
<1>10. CASE UNCHANGED <<nMsg, nDone, OSEventGrp, lost, pc, ret>>
  BY <1>10 DEF TokenTaken, Working, Waiting, LostInAll, Channel!vars
<1>. QED
  BY <1>1, <1>2, <1>3, <1>4, <1>5, <1>6, <1>7, <1>8, <1>9, <1>10
     DEF Next, vars, Isr, Task, IsrEnter, ConnectionLost, OutsideTcp, semVars,
         busVars, connVars

(* The interrupt, the semaphore and the task implement the abstract        *)
(* channel: nothing is served that was not received, one at a time, and    *)
(* what is dropped is never the message in hand.                           *)
THEOREM Refinement == Spec => ImplementsSignal
<1>1. Init => Channel!Init
  BY DEF Init, OSSemCreate, Channel!Init, LostInAll, TokenTaken, Working, Waiting
<1>. QED
  BY <1>1, StepRefines, Invariance, PTL DEF Spec, ImplementsSignal, Channel!Spec

-----------------------------------------------------------------------------
(* A task in the send loop on a socket that is not connected stays there:  *)
(* no step of the code, the kernel or the network gets it out.             *)
THEOREM DeadSocketHoldsTheTask == Spec => StuckForEver
<1>1. IInv /\ [Next]_vars => (Stuck => Stuck')
  <2>. SUFFICES ASSUME IInv, [Next]_vars, Stuck PROVE Stuck'
    OBVIOUS
  <2>. pc = "Tx" /\ ~Connected(socket_id) /\ ConnTypeOK
    BY DEF Stuck, IInv, TypeOK
  <2>. USE DEF Stuck, Connected
  <2>1. CASE TcpPackageSend
    BY <2>1 DEF TcpPackageSend, TxResults
  <2>2. CASE ConnectionLost
    BY <2>2 DEF ConnectionLost, NetSock_CloseFromConn, OutsideTcp, ConnTypeOK
  <2>3. CASE UNCHANGED <<pc, socket_id, sockState>>
    BY <2>3
  <2>. QED
    BY <2>1, <2>2, <2>3
       DEF Next, vars, connVars, Bus, Isr, Task, TcpConnect, TaskAt, BusReceive,
           BusTransmit, Delivered, IsrEnter, RT_Handler, RTInit, EnableIT, Pend,
           Readied, Run, ReadDesc, ReadData, Decode, Flush, OpenSucceeds, OpenFails,
           ConnSucceeds, ConnFails, ConnGivenUp, CloseAndReconnect
<1>2. IInv /\ [Next]_vars => [Stuck => Stuck']_vars
  BY <1>1
<1>. QED
  BY <1>2, Invariance, PTL DEF Spec, StuckForEver

-----------------------------------------------------------------------------
(* Before its first connection the task has no socket.                     *)
NoSocketYet ==
  net_connect =>
    /\ pc \in {"RTInit", "EnableIT", "Pend", "Blocked", "Run"}
    /\ \A id \in SockIds : sockState[id] = "FREE"

(* No sequence of failures leaves a socket of the pool allocated behind    *)
(* the task's back.                                                        *)
THEOREM SocketsReturned == Spec => []NoSocketLeak
<1>. DEFINE SInv == TypeOK /\ NoSocketYet /\ NoSocketLeak
<1>1. Init => NoSocketYet /\ NoSocketLeak
  BY DEF Init, SockInit, NoSocketYet, NoSocketLeak
<1>2. SInv /\ [Next]_vars => (NoSocketYet /\ NoSocketLeak)'
  <2>. SUFFICES ASSUME SInv, [Next]_vars PROVE (NoSocketYet /\ NoSocketLeak)'
    OBVIOUS
  <2>. ConnTypeOK
    BY DEF TypeOK
  <2>. USE DEF ConnTypeOK, NoSocketYet, NoSocketLeak
  <2>1. ASSUME NEW id \in SockIds, OpenSucceeds(id)
        PROVE  (NoSocketYet /\ NoSocketLeak)'
    BY <2>1 DEF OpenSucceeds, NetSock_Open, TaskAt
  <2>2. CASE OpenFails
    BY <2>2 DEF OpenFails, TaskAt
  <2>3. CASE ConnSucceeds
    BY <2>3 DEF ConnSucceeds, NetSock_ConnSucceeds, TaskAt
  <2>4. CASE ConnFails
    BY <2>4 DEF ConnFails, NetSock_ConnFails, TaskAt
  <2>5. CASE ConnGivenUp
    BY <2>5 DEF ConnGivenUp, NetSock_Close, TaskAt
  <2>6. CASE TcpPackageSend
    BY <2>6 DEF TcpPackageSend, NetSock_Close, TaskAt
  <2>7. CASE CloseAndReconnect
    BY <2>7 DEF CloseAndReconnect, NetSock_Close, TaskAt
  <2>8. CASE ConnectionLost
    BY <2>8 DEF ConnectionLost, NetSock_CloseFromConn
  <2>9. CASE Run
    BY <2>9 DEF Run, TaskAt
  <2>10. CASE Decode \/ Flush \/ ReadDesc \/ ReadData
    BY <2>10 DEF Decode, Flush, ReadDesc, ReadData, AdvanceStkptr, TaskAt, connVars
  <2>11. CASE RTInit \/ EnableIT \/ Pend \/ Readied
    BY <2>11 DEF RTInit, EnableIT, Pend, Readied, TaskAt, connVars
  <2>12. CASE UNCHANGED <<pc, connVars>>
    BY <2>12 DEF connVars
  <2>. QED
    BY <2>1, <2>2, <2>3, <2>4, <2>5, <2>6, <2>7, <2>8, <2>9, <2>10, <2>11, <2>12
       DEF Next, vars, Bus, Isr, Task, TcpConnect, BusReceive, BusTransmit, Delivered,
           IsrEnter, RT_Handler
<1>. QED
  BY <1>1, <1>2, TypeCorrect, PTL DEF Spec
=============================================================================
