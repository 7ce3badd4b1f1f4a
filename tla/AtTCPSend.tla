------------------------------ MODULE AtTCPSend ------------------------------
(***************************************************************************)
(* The motor command channel (apps/at_task.c, HARDWARE/Irq.c): a message   *)
(* on the 1553 bus ends, the BU-61580 stores it and interrupts; RT_Handler *)
(* posts AtTask_TCPSend_SignalPtr; AtTCPSendTask takes the token, reads    *)
(* the next descriptor of the command stack and the three data words it    *)
(* points to, turns them into a motor command and sends it over TCP.       *)
(*                                                                         *)
(* The steps of the task are those between which an interrupt may fall:    *)
(* kernel and socket calls, every read of the device and the assignment to *)
(* the semaphore's count.  The handler runs to completion before the task  *)
(* goes on, but the device does not wait for it.                           *)
(***************************************************************************)
EXTENDS Sequences, OSSem, BU61580, NetSock

CONSTANTS
  SwSlots,   \* descriptors after which Stkptr wraps: 256 bytes / 8
  Prio,      \* AT_TCPSend_TASK_PRIO
  MaxMsg     \* bound: messages on the bus

ASSUME SwSlotsAssumption == SwSlots \in Nat \ {0} /\ SwSlots <= HwSlots
ASSUME PrioAssumption == Prio \in Nat
ASSUME MaxMsgAssumption == MaxMsg \in Nat

VARIABLES
  isr,          \* where RT_Handler is
  pc,           \* where AtTCPSendTask is
  ret,          \* where TCPConnect returns to
  net_connect,  \* no connection was tried yet
  Stkptr,       \* the task's place in the command stack, in descriptors
  pDataBlock,   \* Packet->pDataBlock
  RTData,       \* the words of Packet->RTData read so far
  motor_cmd,    \* motor_cmd[2] and motor_cmd[8]
  socket_id,    \* m_tcp.socket_id
  tries,        \* conn_retry_times
  \* History, never read by an action's guard except for the bound MaxMsg:
  nMsg,         \* messages the bus has delivered
  stamp,        \* per block, the number of the message stored in it
  slotStamp,    \* per descriptor, the number of the message it describes
  readStamp,    \* stamp of every word in RTData
  nDone,        \* descriptors the task has consumed
  lost,         \* tokens that never reached the task, by reason
  txSeen        \* a transmit message was among them

isrVars == <<isr>>
bufVars == <<Stkptr, pDataBlock, RTData, readStamp>>
connVars == <<ret, net_connect, socket_id, tries, sockState>>
busVars == <<nMsg, stamp, slotStamp, txSeen>>
vars == <<semVars, bu61580Vars, isrVars, pc, bufVars, connVars, motor_cmd,
          busVars, nDone, lost>>

TaskSteps == {"RTInit", "EnableIT", "Pend", "Blocked", "Run", "Open", "Conn",
              "ConnFailed", "ReadDesc", "ReadData", "Decode", "Flush", "Tx",
              "Close"}
ConnRetries == 3
Stop == 2

Init ==
  /\ DeviceInit
  /\ OSSemCreate(0)
  /\ SockInit
  /\ isr = "idle"
  /\ pc = "RTInit"
  /\ ret = "Pend"
  /\ net_connect = TRUE
  /\ Stkptr = 0
  /\ pDataBlock = "none"
  /\ RTData = <<>>
  /\ motor_cmd = [dir |-> "cw", freq |-> "0"]
  /\ socket_id = NoSock
  /\ tries = 0
  /\ nMsg = 0
  /\ stamp = [b \in Blocks |-> 0]
  /\ slotStamp = [s \in 0..HwSlots - 1 |-> 0]
  /\ readStamp = <<>>
  /\ nDone = 0
  /\ lost = [absorbed |-> 0, flushed |-> 0, overflowed |-> 0]
  /\ txSeen = FALSE

Lose(why, n) == lost' = [lost EXCEPT ![why] = @ + n]
LostInAll == lost.absorbed + lost.flushed + lost.overflowed

(* Where the task works on a token it has taken and not yet used up.       *)
Working ==
  \/ pc \in {"Run", "ReadDesc", "ReadData", "Decode", "Flush"}
  \/ pc \in {"Open", "Conn", "ConnFailed"} /\ ret = "ReadDesc"
Waiting == pc = "Blocked" /\ Prio \in OSEventGrp

-----------------------------------------------------------------------------
(* The bus controller: the terminal answers once RTInit has configured it. *)

Online == pc # "RTInit"

(* An end of message that finds the status bit still set is absorbed.      *)
Delivered ==
  /\ Online
  /\ nMsg < MaxMsg
  /\ nMsg' = nMsg + 1
  /\ slotStamp' = [slotStamp EXCEPT ![stackPtr] = nMsg + 1]
  /\ IF intStat THEN Lose("absorbed", 1) ELSE UNCHANGED lost
  /\ UNCHANGED <<semVars, isrVars, pc, bufVars, connVars, motor_cmd, nDone>>

BusReceive(cmd) ==
  /\ Delivered
  /\ RxMessage(cmd)
  /\ stamp' = [stamp EXCEPT ![rxBlock] = nMsg + 1]
  /\ UNCHANGED txSeen

BusTransmit ==
  /\ Delivered
  /\ TxMessage
  /\ txSeen' = TRUE
  /\ UNCHANGED stamp

-----------------------------------------------------------------------------
(* RT_Handler: entered through the AIC, which drops the edge, then reads   *)
(* the status register.  An end of message in between sets the edge again  *)
(* but is served by this very read.                                        *)

IsrEnter ==
  /\ pc \notin {"RTInit", "EnableIT"}
  /\ isr = "idle"
  /\ AcknowledgeIrq
  /\ isr' = "status"
  /\ UNCHANGED <<semVars, stack, stackPtr, block, rxBlock, intStat, pc,
                 bufVars, connVars, motor_cmd, busVars, nDone, lost>>

RT_Handler ==
  /\ isr = "status"
  /\ isr' = "idle"
  /\ ReadIntStat
  /\ IF intStat
     THEN /\ OSSemPost
          /\ IF PostOverflows THEN Lose("overflowed", 1) ELSE UNCHANGED lost
     ELSE UNCHANGED <<semVars, lost>>
  /\ UNCHANGED <<stack, stackPtr, block, rxBlock, irq, pc, bufVars, connVars,
                 motor_cmd, busVars, nDone>>

-----------------------------------------------------------------------------
(* AtTCPSendTask *)

TaskAt(step) == pc = step /\ isr = "idle"

RTInit ==
  /\ TaskAt("RTInit")
  /\ DeviceReset
  /\ pc' = "EnableIT"
  /\ UNCHANGED <<semVars, isrVars, bufVars, connVars, motor_cmd, busVars,
                 nDone, lost>>

EnableIT ==
  /\ TaskAt("EnableIT")
  /\ pc' = "Pend"
  /\ UNCHANGED <<semVars, bu61580Vars, isrVars, bufVars, connVars, motor_cmd,
                 busVars, nDone, lost>>

Pend ==
  /\ TaskAt("Pend")
  /\ OSSemPend(Prio)
  /\ pc' = IF OSEventCnt > 0 THEN "Run" ELSE "Blocked"
  /\ UNCHANGED <<bu61580Vars, isrVars, bufVars, connVars, motor_cmd, busVars,
                 nDone, lost>>

Readied ==
  /\ TaskAt("Blocked")
  /\ Prio \notin OSEventGrp
  /\ pc' = "Run"
  /\ UNCHANGED <<semVars, bu61580Vars, isrVars, bufVars, connVars, motor_cmd,
                 busVars, nDone, lost>>

(* The first token also makes the first connection.                        *)
Run ==
  /\ TaskAt("Run")
  /\ net_connect' = FALSE
  /\ pc' = IF net_connect THEN "Open" ELSE "ReadDesc"
  /\ ret' = "ReadDesc"
  /\ UNCHANGED <<semVars, bu61580Vars, isrVars, bufVars, socket_id, tries,
                 sockState, motor_cmd, busVars, nDone, lost>>

(* Mutants: the newest descriptor is read, not the next one; the data block *)
(* pointer is read once and kept.                                          *)
ReadDesc_Newest ==
  /\ TaskAt("ReadDesc")
  /\ pDataBlock' = stack[(stackPtr + HwSlots - 1) % HwSlots]
  /\ RTData' = <<>>
  /\ readStamp' = <<>>
  /\ pc' = "ReadData"
  /\ UNCHANGED <<semVars, bu61580Vars, isrVars, Stkptr, connVars, motor_cmd,
                 busVars, nDone, lost>>
ReadDesc_Cached ==
  /\ TaskAt("ReadDesc")
  /\ pDataBlock' = IF pDataBlock = "none" THEN stack[Stkptr] ELSE pDataBlock
  /\ RTData' = <<>>
  /\ readStamp' = <<>>
  /\ pc' = "ReadData"
  /\ UNCHANGED <<semVars, bu61580Vars, isrVars, Stkptr, connVars, motor_cmd,
                 busVars, nDone, lost>>

ReadDesc ==
  /\ TaskAt("ReadDesc")
  /\ pDataBlock' = stack[Stkptr]
  /\ RTData' = <<>>
  /\ readStamp' = <<>>
  /\ pc' = "ReadData"
  /\ UNCHANGED <<semVars, bu61580Vars, isrVars, Stkptr, connVars, motor_cmd,
                 busVars, nDone, lost>>

ReadData ==
  /\ TaskAt("ReadData")
  /\ RTData' = Append(RTData, block[pDataBlock][Len(RTData) + 1])
  /\ readStamp' = Append(readStamp, stamp[pDataBlock])
  /\ pc' = IF Len(RTData) = 2 THEN "Decode" ELSE "ReadData"
  /\ UNCHANGED <<semVars, bu61580Vars, isrVars, Stkptr, pDataBlock, connVars,
                 motor_cmd, busVars, nDone, lost>>

(* Words other than the ones listed leave the previous command standing.   *)
Direction(word, old) ==
  CASE word = 1 -> "ccw" [] word = 2 -> "cw" [] OTHER -> old
Frequency(word, old) ==
  CASE word = 2 -> "400Hz" [] word = 3 -> "900Hz" [] OTHER -> old
MotorCommand(data, old) ==
  [dir  |-> Direction(data[1], old.dir),
   freq |-> IF data[3] = Stop THEN "0" ELSE Frequency(data[2], old.freq)]

(* Mutants: no wrap; a descriptor taken for twice its size.                *)
AdvanceStkptr_NoWrap ==
  /\ Stkptr' = Stkptr + 1
  /\ nDone' = nDone + 1
  /\ pc' = "Tx"
AdvanceStkptr_Twice ==
  /\ Stkptr' = (Stkptr + 2) % SwSlots
  /\ nDone' = nDone + 1
  /\ pc' = "Tx"

AdvanceStkptr ==
  /\ Stkptr' = (Stkptr + 1) % SwSlots
  /\ nDone' = nDone + 1
  /\ pc' = "Tx"

Decode ==
  /\ TaskAt("Decode")
  /\ motor_cmd' = MotorCommand(RTData, motor_cmd)
  /\ IF RTData[3] = Stop
     THEN pc' = "Flush" /\ UNCHANGED <<Stkptr, nDone>>
     ELSE AdvanceStkptr
  /\ UNCHANGED <<semVars, bu61580Vars, isrVars, pDataBlock, RTData, readStamp,
                 connVars, busVars, lost>>

(* AtTask_TCPSend_SignalPtr->OSEventCnt = 0, outside any critical section. *)
Flush ==
  /\ TaskAt("Flush")
  /\ OSEventCnt' = 0
  /\ UNCHANGED OSEventGrp
  /\ Lose("flushed", OSEventCnt)
  /\ AdvanceStkptr
  /\ UNCHANGED <<bu61580Vars, isrVars, pDataBlock, RTData, readStamp, connVars,
                 motor_cmd, busVars>>

-----------------------------------------------------------------------------
(* TCPConnect *)

OutsideTcp == <<semVars, bu61580Vars, isrVars, bufVars, motor_cmd, busVars,
                nDone, lost>>

OpenSucceeds(id) ==
  /\ TaskAt("Open")
  /\ NetSock_Open(id)
  /\ socket_id' = id
  /\ tries' = 0
  /\ pc' = "Conn"
  /\ UNCHANGED <<OutsideTcp, ret, net_connect>>

OpenFails ==
  /\ TaskAt("Open")
  /\ socket_id' = NoSock
  /\ pc' = ret
  /\ UNCHANGED <<OutsideTcp, ret, net_connect, tries, sockState>>

ConnSucceeds ==
  /\ TaskAt("Conn")
  /\ NetSock_ConnSucceeds(socket_id)
  /\ tries' = tries + 1
  /\ pc' = ret
  /\ UNCHANGED <<OutsideTcp, ret, net_connect, socket_id>>

ConnFails ==
  /\ TaskAt("Conn")
  /\ NetSock_ConnFails(socket_id)
  /\ tries' = tries + 1
  /\ pc' = IF tries + 1 < ConnRetries THEN "Conn" ELSE "ConnFailed"
  /\ UNCHANGED <<OutsideTcp, ret, net_connect, socket_id>>

ConnGivenUp ==
  /\ TaskAt("ConnFailed")
  /\ NetSock_Close(socket_id)
  /\ pc' = ret
  /\ UNCHANGED <<OutsideTcp, ret, net_connect, socket_id, tries>>

(* Mutant: the send loop ends on an error.                                 *)
TcpPackageSend_GivesUp ==
  /\ TaskAt("Tx")
  /\ pc' = "Close"
  /\ UNCHANGED <<OutsideTcp, ret, net_connect, socket_id, tries, sockState>>

(* TcpPackageSend: try again on -1, for ever; close on a short send.  Every *)
(* pass may return -1, on a connected socket too, where the peer takes no  *)
(* data and the transmit queue stays full.                                 *)
TcpPackageSend ==
  /\ TaskAt("Tx")
  /\ \E result \in TxResults(socket_id) :
       /\ pc' = IF result = "error" THEN "Tx" ELSE "Close"
       /\ IF result = "part"
          THEN NetSock_Close(socket_id)
          ELSE UNCHANGED sockState
  /\ UNCHANGED <<OutsideTcp, ret, net_connect, socket_id, tries>>

(* Mutant: the close after the send is forgotten.                          *)
CloseAndReconnect_NoClose ==
  /\ TaskAt("Close")
  /\ pc' = "Open"
  /\ ret' = "Pend"
  /\ UNCHANGED <<OutsideTcp, net_connect, socket_id, tries, sockState>>

(* Whatever the result, the task closes and connects anew.                 *)
CloseAndReconnect ==
  /\ TaskAt("Close")
  /\ NetSock_Close(socket_id)
  /\ pc' = "Open"
  /\ ret' = "Pend"
  /\ UNCHANGED <<OutsideTcp, net_connect, socket_id, tries>>

(* The server or the network breaks the connection.                        *)
ConnectionLost ==
  /\ \E id \in SockIds : NetSock_CloseFromConn(id)
  /\ UNCHANGED <<OutsideTcp, pc, ret, net_connect, socket_id, tries>>

-----------------------------------------------------------------------------
Bus == BusTransmit \/ \E cmd \in Cmds : BusReceive(cmd)

Isr == IsrEnter \/ RT_Handler

TcpConnect ==
  \/ \E id \in SockIds : OpenSucceeds(id)
  \/ OpenFails \/ ConnSucceeds \/ ConnFails \/ ConnGivenUp

Task ==
  \/ RTInit \/ EnableIT \/ Pend \/ Readied \/ Run
  \/ ReadDesc \/ ReadData \/ Decode \/ Flush
  \/ TcpConnect \/ TcpPackageSend \/ CloseAndReconnect

Next == Bus \/ Isr \/ Task \/ ConnectionLost

Spec == Init /\ [][Next]_vars

(* Interrupts are served and the task, the only one of its priority that   *)
(* the build creates, is scheduled whenever it is ready; every socket call *)
(* ends, for the waits in it have timeouts (net_cfg.h 557-614).  The send  *)
(* is not fair: the pass of the loop that ends it may never come.          *)
FairSpec == Spec /\ WF_vars(Isr) /\ WF_vars(pc # "Tx" /\ Task)

-----------------------------------------------------------------------------
(* Properties *)

(* Every variable has its type; a block is read only through a pointer the *)
(* device has written, and the three words of a command are read in order. *)
KernelTypeOK == OSEventCnt \in 0..SemMax /\ OSEventGrp \subseteq {Prio}
DeviceTypeOK ==
  /\ stack \in [0..HwSlots - 1 -> Pointers] /\ stackPtr \in 0..HwSlots - 1
  /\ block \in [Blocks -> [1..3 -> Nat]] /\ rxBlock \in RxBlocks
  /\ intStat \in BOOLEAN /\ irq \in BOOLEAN
ConnTypeOK ==
  /\ sockState \in [SockIds -> SockStates]
  /\ socket_id \in SockIds \union {NoSock}
  /\ ret \in {"Pend", "ReadDesc"} /\ net_connect \in BOOLEAN
  /\ tries \in 0..ConnRetries /\ (pc = "Conn" => tries < ConnRetries)
TaskTypeOK ==
  /\ isr \in {"idle", "status"} /\ pc \in TaskSteps
  /\ Stkptr \in 0..SwSlots - 1 /\ pDataBlock \in Pointers
  /\ (pc = "ReadData" => pDataBlock # "none")
  /\ motor_cmd \in [dir: {"cw", "ccw"}, freq: {"0", "400Hz", "900Hz"}]
DataTypeOK ==
  /\ RTData \in Seq(Nat) /\ readStamp \in Seq(Nat)
  /\ Len(readStamp) = Len(RTData)
  /\ (pc = "ReadData" => Len(RTData) \in 0..2)
  /\ (pc \in {"Decode", "Flush"} => Len(RTData) = 3)
HistoryTypeOK ==
  /\ nMsg \in 0..MaxMsg /\ nDone \in Nat
  /\ stamp \in [Blocks -> Nat] /\ slotStamp \in [0..HwSlots - 1 -> Nat]
  /\ lost \in [absorbed: Nat, flushed: Nat, overflowed: Nat]
  /\ txSeen \in BOOLEAN
TypeOK ==
  KernelTypeOK /\ DeviceTypeOK /\ ConnTypeOK /\ TaskTypeOK /\ DataTypeOK
    /\ HistoryTypeOK

(* Every end of message is in exactly one place: still to be signalled,    *)
(* counted in the semaphore, in the hands of the task, consumed, or lost   *)
(* in one of the three ways the code has (absorbed by a status bit that    *)
(* was still set, flushed by a stop command, dropped by a full semaphore). *)
(* A handover to a waiting task is neither doubled nor lost.               *)
BoolToNat(b) == IF b THEN 1 ELSE 0
TokenTaken == Working \/ (pc = "Blocked" /\ ~Waiting)
Accounting ==
  nMsg = nDone + OSEventCnt + BoolToNat(TokenTaken) + BoolToNat(intStat)
         + LostInAll

(* The interrupt is never lost: a status bit that is set has an edge still *)
(* latched, or the handler is already on its way to read it.               *)
InterruptPending == intStat /\ Online => irq \/ isr = "status"

(* The task waits only while there is nothing to take.                     *)
NoSleepOnToken == OSEventGrp # {} => Waiting /\ OSEventCnt = 0

(* Up to the first wrap of Stkptr the descriptor the task reads is that of *)
(* the oldest message it has not consumed, never one that the device has   *)
(* yet to write and never that of a later message.                         *)
DescriptorOfItsMessage ==
  pc = "ReadDesc" /\ nDone < SwSlots /\ nMsg <= HwSlots
    => slotStamp[Stkptr] = nDone + 1

(* While the task is at most one message behind, and the bus controller    *)
(* sends receive messages only, the three words it decodes are those of    *)
(* one message and of the right one: the double buffer keeps the device    *)
(* out of the block being read.                                            *)
ExactWhenKeepingUp ==
  pc = "Decode" /\ nMsg <= nDone + 2 /\ ~txSeen
    => readStamp = [i \in 1..3 |-> nDone + 1]

(* However late the task is, and however often Stkptr has wrapped, it      *)
(* never decodes a word older than the message whose turn it is.           *)
NeverOlder ==
  pc = "Decode" /\ ~txSeen => \A i \in 1..3 : readStamp[i] > nDone

(* When everything is quiet, nothing was lost and only receive messages    *)
(* came, the command the task sent last is the one the bus sent last.      *)
Quiescent == Waiting /\ ~irq /\ ~intStat /\ isr = "idle" /\ nMsg > 0
LatestCommand == block[OtherRx(rxBlock)]
LatestCommandStands ==
  Quiescent /\ ~txSeen /\ LostInAll = 0 => RTData = LatestCommand

(* Through every failed open, connect and send and the unconditional       *)
(* second close, the task never leaves a socket of the pool behind: at     *)
(* most its own is in use, and none when it opens the next.                *)
NoSocketLeak ==
  \A id \in SockIds : sockState[id] # "FREE" => id = socket_id /\ pc # "Open"

(* A send on a socket that is not connected is never given up: every pass  *)
(* of the loop returns -1, so the task neither closes nor reconnects and   *)
(* the channel is dead for good.                                           *)
Stuck == pc = "Tx" /\ ~Connected(socket_id)
StuckForEver == [][Stuck => Stuck']_vars

(* Semaphore, handler and task together are the abstract channel: the task *)
(* never starts without an outstanding message, never has two in hand, and *)
(* what the code drops is never the message in hand.                       *)
Channel == INSTANCE Signal WITH
  received <- nMsg, served <- nDone, dropped <- LostInAll, busy <- TokenTaken

ImplementsSignal == Channel!Spec

(* Every message is consumed or accounted as lost, unless the task stays   *)
(* in one send for ever (at_task.c 261-269), because the socket is dead or *)
(* because the peer of a live one takes no data.                           *)
ServedOrLost ==
  \A k \in 1..MaxMsg :
    nMsg >= k ~> (nDone + LostInAll >= k \/ [](pc = "Tx"))

(* What bu61580.h promises: RT Command Stack A has 256 words, and the task *)
(* reads the descriptor of the message it consumes, also after Stkptr has  *)
(* wrapped.  at_task.c wraps after 256 bytes.                              *)
OwnDescriptor ==
  pc = "ReadDesc" /\ LostInAll = 0 => slotStamp[Stkptr] = nDone + 1

(* What at_task.c says of a third word of 2 ("stop"): when everything is   *)
(* quiet after a stop command, the motor was told to stop.  It fails even  *)
(* where the device absorbed nothing and the semaphore did not overflow: a *)
(* flush drops tokens and leaves Stkptr at the flushed descriptors.        *)
StopWins ==
  Quiescent /\ ~txSeen /\ lost.absorbed + lost.overflowed = 0
    /\ LatestCommand[3] = Stop => motor_cmd.freq = "0"
=============================================================================
