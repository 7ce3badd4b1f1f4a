-------------------------- MODULE NetServer_proofs --------------------------
(***************************************************************************)
(* Proofs about NetServer for every size of the socket and connection      *)
(* pools, of the accept queue, the semaphore and the error log.  Three     *)
(* arguments: where the server task is decides what it owns; the tokens    *)
(* of the semaphore cover the queue; the index of the error log is below   *)
(* its size wherever AtErrLogWrite has not just incremented it.            *)
(***************************************************************************)
EXTENDS NetServer, TLAPS, FiniteSetTheorems, FunctionTheorems,
        WellFoundedInduction

(* Where the server stands between its opening and its first client.       *)
Serving == at \notin {"delay", "rx", "close"}

(* Until a client is accepted nothing was counted against one; afterwards  *)
(* the server never comes back to its listener.                            *)
ServerState ==
  /\ listen_state = 0 => at = "delay"
  /\ Serving \/ (at = "delay" /\ listen_state = 1) =>
       idle_count = 0 /\ sock_req = NoSock
  /\ at = "rx" => idle_count < IdleMax

(* Only the server waits for a token, and only inside NetSock_Accept.      *)
WaitsOnlyInAccept == at # "acceptWait" => OSEventGrp = {}

(* The log is left by the server on its way from the increment to the      *)
(* reset, or it was left before.                                           *)
LogIndex ==
  /\ errAt \notin {"check", "reset"} => errIndex # ErrMax
  /\ errAt = "inc" => \/ errReg < ErrMax /\ errIndex < ErrMax
                      \/ errReg > ErrMax /\ errIndex > ErrMax

(* Before the server has ever listened no connection is cloned for it.     *)
PreListen ==
  \/ at \in {"bind", "listen"}
  \/ at = "delay" /\ listen_state = 1

IInv ==
  /\ NetServerTypeOK
  /\ ServerState
  /\ WaitsOnlyInAccept
  /\ TokenForEach
  /\ EverySocketHasItsUser
  /\ LogIndex

-----------------------------------------------------------------------------
(* The accept queue: every operation keeps its type, and the count changes *)
(* by what is put in and taken out.                                        *)

LEMMA WrappedSlot ==
  ASSUME NEW i \in 0 .. 2 * RingSize - 1
  PROVE  Wrapped(i) \in Slots
BY RingSizeAssumption DEF Wrapped, Slots

LEMMA ClearedType ==
  ClearedQ \in Queues /\ ClearedQ.cur = 0
BY RingSizeAssumption DEF ClearedQ, Queues, Slots

LEMMA InitType ==
  ASSUME NEW r \in Queues, NEW size \in Nat
  PROVE  /\ ConnAcceptQ_Init(r, size) \in Queues
         /\ ConnAcceptQ_Init(r, size).cur = r.cur
BY RingSizeAssumption DEF ConnAcceptQ_Init, Queues

LEMMA AddType ==
  ASSUME NEW r \in Queues, NEW c \in Conns, ConnAcceptQ_IsAvail(r)
  PROVE  /\ ConnAcceptQ_Add(r, c) \in Queues
         /\ ConnAcceptQ_Add(r, c).cur = r.cur + 1
<1>1. Wrapped(r.tail + 1) \in Slots
  BY WrappedSlot, RingSizeAssumption DEF Queues, Slots
<1>2. r.cur + 1 \in 0 .. RingSize
  BY RingSizeAssumption DEF Queues, ConnAcceptQ_IsAvail
<1>. QED
  BY <1>1, <1>2 DEF ConnAcceptQ_Add, Queues

LEMMA GetType ==
  ASSUME NEW r \in Queues, r.cur > 0
  PROVE  /\ ConnAcceptQ_Get(r) \in Queues
         /\ ConnAcceptQ_Get(r).cur = r.cur - 1
<1>1. Wrapped(r.head + 1) \in Slots
  BY WrappedSlot, RingSizeAssumption DEF Queues, Slots
<1>2. r.cur - 1 \in 0 .. RingSize
  BY RingSizeAssumption DEF Queues
<1>. QED
  BY <1>1, <1>2 DEF ConnAcceptQ_Get, Queues

LEMMA WithoutEntryType ==
  ASSUME NEW r \in Queues, NEW n \in 0 .. r.cur - 1
  PROVE  /\ WithoutEntry(r, n) \in Queues
         /\ WithoutEntry(r, n).cur = r.cur - 1
<1>. DEFINE last == SlotOf(r, r.cur - 1)
            moves(s) == \E k \in n .. r.cur - 2 : s = SlotOf(r, k)
            moved == [s \in Slots |-> IF s = last THEN NoConn
                                      ELSE IF moves(s) THEN r.ids[Wrapped(s + 1)]
                                      ELSE r.ids[s]]
<1>1. moved \in [Slots -> Conns \union {NoConn}]
  <2>1. \A s \in Slots : Wrapped(s + 1) \in Slots
    BY WrappedSlot, RingSizeAssumption DEF Slots
  <2>2. r.ids \in [Slots -> Conns \union {NoConn}]
    BY DEF Queues
  <2>. HIDE DEF last, moves
  <2>. QED
    BY <2>1, <2>2
<1>2. (IF r.tail = 0 THEN RingSize - 1 ELSE r.tail - 1) \in Slots
  BY RingSizeAssumption DEF Queues, Slots
<1>3. r.cur - 1 \in 0 .. RingSize
  BY RingSizeAssumption DEF Queues
<1>4. WithoutEntry(r, n) =
        [r EXCEPT !.ids = moved,
                  !.tail = IF r.tail = 0 THEN RingSize - 1 ELSE r.tail - 1,
                  !.cur = r.cur - 1]
  BY DEF WithoutEntry
<1>. HIDE DEF moved
<1>. QED
  BY <1>1, <1>2, <1>3, <1>4 DEF Queues

(* The natural numbers are well ordered.                                   *)
LEMMA LeastOf ==
  ASSUME NEW S \in SUBSET Nat, S # {}
  PROVE  \E n \in S : \A m \in S : n <= m
<1>1. PICK n \in S : \A m \in S : ~(<<m, n>> \in OpToRel(<, Nat))
  BY NatLessThanWellFounded, WFMin
<1>2. \A m \in S : ~(m < n)
  BY <1>1 DEF OpToRel
<1>3. n \in Nat /\ \A m \in S : m \in Nat
  OBVIOUS
<1>. QED
  BY <1>2, <1>3

(* What is removed is an entry that holds the id, if any is found.         *)
LEMMA RemoveIsWithoutEntry ==
  ASSUME NEW r \in Queues, NEW c
  PROVE  \/ ConnAcceptQ_Remove(r, c) = r /\ Srch(r, c) = {}
         \/ \E n \in Srch(r, c) : ConnAcceptQ_Remove(r, c) = WithoutEntry(r, n)
<1>1. Srch(r, c) \in SUBSET Nat
  BY RingSizeAssumption DEF Srch, Queues
<1>2. CASE Srch(r, c) = {}
  BY <1>2 DEF ConnAcceptQ_Remove
<1>3. CASE Srch(r, c) # {}
  <2>. DEFINE n == CHOOSE n \in Srch(r, c) : \A m \in Srch(r, c) : n <= m
  <2>1. n \in Srch(r, c)
    BY <1>1, <1>3, LeastOf
  <2>2. ConnAcceptQ_Remove(r, c) = WithoutEntry(r, n)
    BY <1>3 DEF ConnAcceptQ_Remove
  <2>. QED
    BY <2>1, <2>2
<1>. QED
  BY <1>2, <1>3

LEMMA RemoveType ==
  ASSUME NEW r \in Queues, NEW c
  PROVE  /\ ConnAcceptQ_Remove(r, c) \in Queues
         /\ ConnAcceptQ_Remove(r, c).cur <= r.cur
<1>1. r.cur \in Nat
  BY RingSizeAssumption DEF Queues
<1>2. \A n \in Srch(r, c) : n \in 0 .. r.cur - 1
  BY DEF Srch
<1>. QED
  BY <1>1, <1>2, RemoveIsWithoutEntry, WithoutEntryType

LEMMA WithoutCloneType ==
  ASSUME NEW r \in Queues, NEW c
  PROVE  /\ WithoutClone(r, c) \in Queues
         /\ WithoutClone(r, c).cur <= r.cur
<1>1. r.cur \in Nat
  BY RingSizeAssumption DEF Queues
<1>. QED
  BY <1>1, RemoveType DEF WithoutClone

LEMMA ClrType ==
  ASSUME NEW r \in Queues
  PROVE  ConnAcceptQ_Clr(r) \in Queues /\ ConnAcceptQ_Clr(r).cur = 0
BY ClearedType DEF ConnAcceptQ_Clr, Queues

(* The table only names pins.                                              *)
LEMMA TablePins ==
  ASSUME NEW pins \in SUBSET Pins, NEW a \in 0 .. 255
  PROVE  RTAddr_Config(pins, a) \in SUBSET Pins
<1>1. \A i \in 1 .. 15 : Cases01To0F[i] \in SUBSET Pins
  BY DEF Cases01To0F, Pins, AddressPins
<1>2. \A i \in 1 .. 16 : Cases10To1F[i] \in SUBSET Pins
  BY DEF Cases10To1F, Pins, AddressPins
<1>. QED
  BY <1>1, <1>2 DEF RTAddr_Config

(* With one task waiting, it is the one a post readies.                    *)
LEMMA OnlyWaiter ==
  ASSUME OSEventGrp = {ServerPrio}
  PROVE  OSEventGrp \ {HighestPrio(OSEventGrp)} = {}
<1>1. HighestPrio(OSEventGrp) \in OSEventGrp
  BY ServerPrioAssumption DEF HighestPrio
<1>. QED
  BY <1>1

-----------------------------------------------------------------------------
(* Types.  Calls on the socket and connection tables first.                *)

LEMMA CloseSocketType ==
  ASSUME NetServerTypeOK, NEW s \in SockIds \union {NoSock}, CloseSocket(s)
  PROVE  /\ sockState' \in [SockIds -> SockStates]
         /\ sockConn' \in [SockIds -> Conns \union {NoConn}]
         /\ connPhase' \in [Conns -> Phases]
         /\ connApp' \in [Conns -> SockIds \union {NoSock}]
         /\ connClone' = connClone
<1>. USE DEF NetServerTypeOK
<1>1. sockState' \in [SockIds -> SockStates]
  BY DEF CloseSocket, NetSock_Close, SockStates
<1>2. sockConn' \in [SockIds -> Conns \union {NoConn}]
  BY DEF CloseSocket
<1>3. /\ connPhase' \in [Conns -> Phases]
      /\ connApp' \in [Conns -> SockIds \union {NoSock}]
      /\ connClone' = connClone
  BY DEF CloseSocket, CloseConnOf, connVars, Phases
<1>. QED
  BY <1>1, <1>2, <1>3

LEMMA CloseFromAppType ==
  ASSUME NetServerTypeOK, NEW S, NetConn_CloseFromApp(S)
  PROVE  /\ connPhase' \in [Conns -> Phases]
         /\ connApp' \in [Conns -> SockIds \union {NoSock}]
         /\ connClone' \in [Conns -> BOOLEAN]
BY DEF NetServerTypeOK, NetConn_CloseFromApp, Phases

LEMMA InitInv == Init => IInv
<1>. SUFFICES ASSUME Init PROVE IInv
  OBVIOUS
<1>. USE DEF Init, SockInit, OSSemCreate
<1>1. NetServerTypeOK
  <2>1. /\ sockState \in [SockIds -> SockStates]
        /\ sockConn \in [SockIds -> Conns \union {NoConn}]
        /\ connPhase \in [Conns -> Phases]
        /\ connApp \in [Conns -> SockIds \union {NoSock}]
        /\ connClone \in [Conns -> BOOLEAN]
    BY DEF SockStates, Phases
  <2>2. q \in Queues
    BY ClearedType
  <2>3. /\ OSEventCnt \in 0 .. SemMax
        /\ idle_count \in 0 .. IdleMax
        /\ errReg \in 0 .. ErrBound /\ errIndex \in 0 .. ErrBound
    BY SemMaxAssumption, IdleMaxAssumption, ErrBoundAssumption, ErrMaxAssumption
  <2>. QED
    BY <2>1, <2>2, <2>3 DEF NetServerTypeOK, Places, ErrPlaces
<1>2. ServerState /\ WaitsOnlyInAccept /\ LogIndex
  BY ErrMaxAssumption, IdleMaxAssumption
     DEF ServerState, Serving, WaitsOnlyInAccept, LogIndex
<1>3. TokenForEach
  BY ClearedType DEF TokenForEach, GotToken
<1>4. EverySocketHasItsUser
  BY DEF EverySocketHasItsUser, Places
<1>. QED
  BY <1>1, <1>2, <1>3, <1>4 DEF IInv

LEMMA TypeStep ==
  ASSUME IInv, [Next]_vars
  PROVE  NetServerTypeOK'
<1>. USE ErrMaxAssumption, ErrBoundAssumption, IdleMaxAssumption,
         SemMaxAssumption
     DEF NetServerTypeOK
<1>0. NetServerTypeOK /\ ServerState
  BY DEF IInv
<1>. USE DEF sockVars, connVars, queueVars, semVars, taskVars, errVars,
             ServerGoes, ServerRuns, LogError, Places, ErrPlaces
<1>1. CASE OpenSucceeds
  BY <1>0, <1>1, ClearedType DEF OpenSucceeds, NetSock_Open, SockStates
<1>2. CASE OpenFails
  BY <1>0, <1>2 DEF OpenFails
<1>3. CASE BindSucceeds
  BY <1>0, <1>3 DEF BindSucceeds, NetSock_Bind, SockStates
<1>4. CASE SetUpFails("bind") \/ SetUpFails("listen")
  BY <1>0, <1>4, CloseSocketType DEF SetUpFails
<1>5. CASE ListenSucceeds
  BY <1>0, <1>5, InitType, ListenSizeAssumption
     DEF ListenSucceeds, NetSock_Listen, SockStates
<1>6. CASE AcceptPend
  BY <1>0, <1>6 DEF AcceptPend, OSSemPend
<1>7. CASE AcceptSignalled \/ AcceptNoneAvail \/ Retry
  BY <1>0, <1>7 DEF AcceptSignalled, AcceptNoneAvail, Retry
<1>8. CASE AcceptTimesOut
  BY <1>0, <1>8 DEF AcceptTimesOut, OS_EventTaskRemove
<1>9. CASE AcceptFails
  <2>1. q' \in Queues
    BY <1>0, <1>9, GetType, WithoutCloneType DEF AcceptFails
  <2>2. /\ connPhase' \in [Conns -> Phases]
        /\ connApp' \in [Conns -> SockIds \union {NoSock}]
        /\ connClone' \in [Conns -> BOOLEAN]
    BY <1>0, <1>9, CloseFromAppType DEF AcceptFails
  <2>. QED
    BY <1>0, <1>9, <2>1, <2>2 DEF AcceptFails
<1>10. CASE AcceptSucceeds
  <2>1. q' \in Queues
    BY <1>0, <1>10, GetType DEF AcceptSucceeds
  <2>2. Front(q) \in Conns \union {NoConn}
    BY <1>0 DEF Front, Queues
  <2>3. PICK s \in SockIds :
          /\ NetSock_AcceptSock(s)
          /\ sockConn' = [sockConn EXCEPT ![s] = Front(q)]
          /\ connApp' = [connApp EXCEPT ![Front(q)] = s]
          /\ sock_req' = s
    BY <1>10 DEF AcceptSucceeds
  <2>4. /\ sockState' \in [SockIds -> SockStates]
        /\ sockConn' \in [SockIds -> Conns \union {NoConn}]
        /\ connApp' \in [Conns -> SockIds \union {NoSock}]
    BY <1>0, <2>2, <2>3 DEF NetSock_AcceptSock, SockStates
  <2>. QED
    BY <1>0, <1>10, <2>1, <2>3, <2>4 DEF AcceptSucceeds
<1>11. CASE RxFails
  BY <1>0, <1>11, CloseSocketType DEF RxFails
<1>12. CASE RxEmpty
  <2>1. idle_count' \in 0 .. IdleMax
    BY <1>0, <1>12 DEF RxEmpty, ServerState
  <2>2. CASE idle_count + 1 >= IdleMax
    BY <1>0, <1>12, <2>1, <2>2, CloseSocketType DEF RxEmpty
  <2>3. CASE ~(idle_count + 1 >= IdleMax)
    BY <1>0, <1>12, <2>1, <2>3 DEF RxEmpty
  <2>. QED
    BY <2>2, <2>3
<1>13. CASE RxData
  <2>1. rtPins' \subseteq Pins
    BY <1>0, <1>13, TablePins, RequestsAssumption DEF RxData
  <2>. QED
    BY <1>0, <1>13, <2>1 DEF RxData
<1>14. CASE CloseListener
  <2>1. /\ connPhase' \in [Conns -> Phases]
        /\ connApp' \in [Conns -> SockIds \union {NoSock}]
        /\ connClone' \in [Conns -> BOOLEAN]
    BY <1>0, <1>14, CloseFromAppType DEF CloseListener
  <2>2. sockState' \in [SockIds -> SockStates]
    BY <1>0, <1>14 DEF CloseListener, NetSock_Close, SockStates
  <2>. QED
    BY <1>0, <1>14, <2>1, <2>2, ClrType DEF CloseListener, OSSemClear
<1>15. CASE ErrSteps
  BY <1>0, <1>15
     DEF ErrSteps, AtErrLogWrite, ErrStore, ErrLoad, ErrInc, ErrCheck, ErrReset,
         Capped
<1>16. CASE SenderLogs
  BY <1>0, <1>16 DEF SenderLogs, Capped
<1>17. CASE OSTimeTick
  BY <1>0, <1>17 DEF OSTimeTick
<1>18. ASSUME NEW c \in Conns, SynArrives(c) PROVE NetServerTypeOK'
  BY <1>0, <1>18 DEF SynArrives, Phases
<1>19. ASSUME NEW c \in Conns, HandshakeDone(c) PROVE NetServerTypeOK'
  <2>1. CASE ~ConnAcceptQ_IsAvail(q)
    BY <1>0, <1>19, <2>1, CloseFromAppType, WithoutCloneType DEF HandshakeDone
  <2>2. CASE ConnAcceptQ_IsAvail(q) /\ PostOverflows
    BY <1>0, <1>19, <2>2, CloseFromAppType, ClrType DEF HandshakeDone, OSSemPost
  <2>3. CASE ConnAcceptQ_IsAvail(q) /\ ~PostOverflows
    <3>1. OSEventCnt' \in 0 .. SemMax /\ OSEventGrp' \subseteq {ServerPrio}
      BY <1>0, <1>19, <2>3 DEF HandshakeDone, OSSemPost
    <3>2. q' \in Queues
      BY <1>0, <1>19, <2>3, AddType DEF HandshakeDone
    <3>. QED
      BY <1>0, <1>19, <2>3, <3>1, <3>2 DEF HandshakeDone, Phases
  <2>. QED
    BY <2>1, <2>2, <2>3
<1>20. ASSUME NEW c \in Conns, Abort(c) PROVE NetServerTypeOK'
  <2>1. /\ connPhase' \in [Conns -> Phases]
        /\ connApp' \in [Conns -> SockIds \union {NoSock}]
        /\ connClone' \in [Conns -> BOOLEAN]
    BY <1>0, <1>20, CloseFromAppType DEF Abort
  <2>2. /\ sockState' \in [SockIds -> SockStates]
        /\ sockConn' \in [SockIds -> Conns \union {NoConn}]
    BY <1>0, <1>20 DEF Abort, NetSock_CloseFromConn, SockStates
  <2>3. q' \in Queues
    BY <1>0, <1>20, WithoutCloneType DEF Abort
  <2>4. missed' \in BOOLEAN
    BY <1>0, <1>20 DEF Abort
  <2>. QED
    BY <1>0, <1>20, <2>1, <2>2, <2>3, <2>4 DEF Abort
<1>21. ASSUME NEW c \in Conns, Drain(c) PROVE NetServerTypeOK'
  BY <1>0, <1>21, CloseFromAppType, WithoutCloneType DEF Drain
<1>22. CASE SenderConnects
  BY <1>0, <1>22, ClearedType DEF SenderConnects, SockStates, Phases
<1>23. CASE SenderCloses
  BY <1>0, <1>23, CloseSocketType DEF SenderCloses
<1>24. CASE UNCHANGED vars
  BY <1>0, <1>24 DEF vars
<1>. QED
  BY <1>1, <1>2, <1>3, <1>4, <1>5, <1>6, <1>7, <1>8, <1>9, <1>10, <1>11,
     <1>12, <1>13, <1>14, <1>15, <1>16, <1>17, <1>18, <1>19, <1>20, <1>21,
     <1>22, <1>23, <1>24
     DEF Next, ServerSteps, StackSteps, BindFails, ListenFails

-----------------------------------------------------------------------------
LEMMA StateStep ==
  ASSUME IInv, [Next]_vars
  PROVE  ServerState'
<1>0. NetServerTypeOK /\ ServerState
  BY DEF IInv
<1>. USE <1>0, IdleMaxAssumption
     DEF ServerState, Serving, NetServerTypeOK, Places, ServerGoes, ServerRuns,
         taskVars
<1>1. CASE RxEmpty
  <2>1. idle_count \in Nat /\ idle_count < IdleMax
    BY <1>1 DEF RxEmpty
  <2>2. CASE idle_count + 1 >= IdleMax
    BY <1>1, <2>2 DEF RxEmpty
  <2>3. CASE ~(idle_count + 1 >= IdleMax)
    BY <1>1, <2>1, <2>3 DEF RxEmpty
  <2>. QED
    BY <2>2, <2>3
<1>2. CASE RxData \/ RxFails \/ CloseListener
  BY <1>2 DEF RxData, RxFails, CloseListener
<1>3. CASE AcceptFails
  BY <1>3 DEF AcceptFails
<1>4. CASE AcceptSucceeds
  BY <1>4 DEF AcceptSucceeds
<1>5. CASE AcceptPend
  BY <1>5 DEF AcceptPend
<1>6. CASE AcceptSignalled \/ AcceptTimesOut \/ AcceptNoneAvail \/ Retry
  BY <1>6 DEF AcceptSignalled, AcceptTimesOut, AcceptNoneAvail, Retry
<1>7. CASE OpenSucceeds \/ OpenFails \/ BindSucceeds \/ ListenSucceeds
  BY <1>7 DEF OpenSucceeds, OpenFails, BindSucceeds, ListenSucceeds
<1>8. CASE SetUpFails("bind") \/ SetUpFails("listen")
  BY <1>8 DEF SetUpFails
<1>9. CASE UNCHANGED taskVars
  BY <1>9
<1>. QED
  BY <1>1, <1>2, <1>3, <1>4, <1>5, <1>6, <1>7, <1>8, <1>9
     DEF Next, vars, ServerSteps, BindFails, ListenFails, ErrSteps, ErrStore,
         ErrLoad, ErrInc, ErrCheck, ErrReset, AtErrLogWrite, OSTimeTick,
         StackSteps, SynArrives, HandshakeDone, Abort, Drain, SenderConnects,
         SenderCloses, SenderLogs

LEMMA WaitStep ==
  ASSUME IInv, [Next]_vars
  PROVE  WaitsOnlyInAccept'
<1>0. NetServerTypeOK /\ WaitsOnlyInAccept
  BY DEF IInv
<1>. USE <1>0 DEF WaitsOnlyInAccept, ServerGoes, ServerRuns
<1>1. CASE AcceptPend
  BY <1>1 DEF AcceptPend, OSSemPend, NetServerTypeOK
<1>2. CASE AcceptSignalled
  BY <1>2 DEF AcceptSignalled, GotToken, NetServerTypeOK, queueVars, semVars
<1>3. CASE AcceptTimesOut
  BY <1>3 DEF AcceptTimesOut, OS_EventTaskRemove, NetServerTypeOK
<1>4. CASE CloseListener
  BY <1>4 DEF CloseListener, OSSemClear
<1>5. ASSUME NEW c \in Conns, HandshakeDone(c) PROVE WaitsOnlyInAccept'
  BY <1>5 DEF HandshakeDone, OSSemPost, taskVars, semVars
<1>6. CASE UNCHANGED <<semVars, at>>
  BY <1>6 DEF semVars
<1>7. CASE at # "acceptWait" /\ UNCHANGED semVars
  BY <1>7 DEF semVars
<1>. QED
  BY <1>1, <1>2, <1>3, <1>4, <1>5, <1>6, <1>7
     DEF Next, vars, ServerSteps, BindFails, ListenFails, ErrSteps, ErrStore,
         ErrLoad, ErrInc, ErrCheck, ErrReset, AtErrLogWrite, OSTimeTick,
         StackSteps, SynArrives, Abort, Drain, SenderConnects,
         SenderCloses, SenderLogs, OpenSucceeds, OpenFails, BindSucceeds,
         ListenSucceeds, SetUpFails, AcceptFails, AcceptSucceeds,
         AcceptNoneAvail, Retry, RxData, RxFails, RxEmpty, taskVars, queueVars

(* What the sender does while AtErrLogWrite of the server is under way.    *)
LEMMA LogStep ==
  ASSUME IInv, [Next]_vars
  PROVE  LogIndex'
<1>0. NetServerTypeOK /\ LogIndex
  BY DEF IInv
<1>. USE <1>0, ErrMaxAssumption, ErrBoundAssumption
     DEF LogIndex, NetServerTypeOK, ErrPlaces, ServerGoes, ServerRuns, LogError,
         Capped, AtErrLogWrite
<1>1. CASE ErrStore \/ ErrLoad
  BY <1>1 DEF ErrStore, ErrLoad
<1>2. CASE ErrInc
  BY <1>2 DEF ErrInc
<1>3. CASE ErrCheck \/ ErrReset
  BY <1>3 DEF ErrCheck, ErrReset
<1>4. CASE SenderLogs
  BY <1>4 DEF SenderLogs
<1>5. CASE errAt = "none" /\ LogError
  BY <1>5
<1>6. CASE UNCHANGED errVars
  BY <1>6 DEF errVars
<1>. QED
  BY <1>1, <1>2, <1>3, <1>4, <1>5, <1>6
     DEF Next, vars, ServerSteps, BindFails, ListenFails, ErrSteps, OSTimeTick,
         StackSteps, SynArrives, HandshakeDone, Abort, Drain, SenderConnects,
         SenderCloses, OpenSucceeds, OpenFails, BindSucceeds,
         ListenSucceeds, SetUpFails, AcceptPend, AcceptSignalled,
         AcceptTimesOut, AcceptFails, AcceptSucceeds, AcceptNoneAvail, Retry,
         RxData, RxFails, RxEmpty, CloseListener, errVars

(* A token is given for every connection that is queued, and the server    *)
(* takes no more out of the queue than it has taken tokens.                *)
LEMMA TokenStep ==
  ASSUME IInv, [Next]_vars
  PROVE  TokenForEach'
<1>0. NetServerTypeOK /\ WaitsOnlyInAccept /\ TokenForEach
  BY DEF IInv
<1>1. q \in Queues /\ q.cur \in Nat /\ OSEventCnt \in Nat
  BY <1>0, RingSizeAssumption, SemMaxAssumption DEF NetServerTypeOK, Queues
<1>. USE <1>0, <1>1, SemMaxAssumption
     DEF TokenForEach, ServerGoes, ServerRuns, GotToken, NetServerTypeOK
<1>2. CASE AcceptPend
  BY <1>2 DEF AcceptPend, OSSemPend, semVars
<1>3. CASE AcceptSignalled \/ AcceptNoneAvail \/ Retry
  BY <1>3 DEF AcceptSignalled, AcceptNoneAvail, Retry, queueVars, semVars
<1>4. CASE AcceptTimesOut
  BY <1>4 DEF AcceptTimesOut, OS_EventTaskRemove
<1>5. CASE AcceptFails
  <2>1. ConnAcceptQ_Get(q) \in Queues /\ ConnAcceptQ_Get(q).cur = q.cur - 1
    BY <1>5, GetType DEF AcceptFails
  <2>2. q'.cur <= q.cur - 1 /\ q'.cur \in Nat
    BY <1>5, <2>1, WithoutCloneType, RingSizeAssumption
       DEF AcceptFails, Queues
  <2>. QED
    BY <1>5, <2>2 DEF AcceptFails, semVars
<1>6. CASE AcceptSucceeds
  <2>1. q'.cur = q.cur - 1
    BY <1>6, GetType DEF AcceptSucceeds
  <2>. QED
    BY <1>6, <2>1 DEF AcceptSucceeds, semVars
<1>7. ASSUME NEW c \in Conns, HandshakeDone(c) PROVE TokenForEach'
  <2>1. CASE ~ConnAcceptQ_IsAvail(q)
    <3>1. q'.cur <= q.cur /\ q'.cur \in Nat
      BY <1>7, <2>1, WithoutCloneType, RingSizeAssumption
         DEF HandshakeDone, Queues
    <3>. QED
      BY <1>7, <2>1, <3>1 DEF HandshakeDone, taskVars, semVars
  <2>2. CASE ConnAcceptQ_IsAvail(q) /\ PostOverflows
    BY <1>7, <2>2, ClrType DEF HandshakeDone, OSSemPost, taskVars, semVars
  <2>3. CASE ConnAcceptQ_IsAvail(q) /\ ~PostOverflows
    <3>1. q'.cur = q.cur + 1
      BY <1>7, <2>3, AddType DEF HandshakeDone
    <3>2. CASE OSEventGrp = {}
      BY <1>7, <2>3, <3>1, <3>2
         DEF HandshakeDone, OSSemPost, PostOverflows, taskVars
    <3>3. CASE OSEventGrp = {ServerPrio}
      <4>1. at = "acceptWait" /\ OSEventGrp' = {} /\ OSEventCnt' = OSEventCnt
        BY <1>7, <2>3, <3>3, OnlyWaiter
           DEF HandshakeDone, OSSemPost, WaitsOnlyInAccept
      <4>. QED
        BY <1>7, <2>3, <3>1, <3>3, <4>1 DEF HandshakeDone, taskVars
    <3>. QED
      BY <3>2, <3>3
  <2>. QED
    BY <2>1, <2>2, <2>3
<1>8. ASSUME NEW c \in Conns, Abort(c) \/ Drain(c) PROVE TokenForEach'
  <2>1. q'.cur <= q.cur /\ q'.cur \in Nat
    BY <1>8, WithoutCloneType, RingSizeAssumption DEF Abort, Drain, Queues
  <2>. QED
    BY <1>8, <2>1 DEF Abort, Drain, taskVars, semVars
<1>9. CASE SenderConnects
  <2>1. q'.cur <= q.cur /\ q'.cur \in Nat
    BY <1>9, ClearedType DEF SenderConnects
  <2>. QED
    BY <1>9, <2>1 DEF SenderConnects, taskVars, semVars
<1>10. CASE CloseListener
  BY <1>10, ClrType DEF CloseListener, OSSemClear
<1>11. CASE OpenSucceeds
  BY <1>11, ClearedType DEF OpenSucceeds, semVars
<1>12. CASE ListenSucceeds
  BY <1>12, InitType, ListenSizeAssumption DEF ListenSucceeds, semVars
<1>13. CASE at \notin {"acceptWait", "acceptGet"} /\ UNCHANGED <<q, semVars>>
  BY <1>13 DEF semVars
<1>14. CASE UNCHANGED <<q, semVars, at>>
  BY <1>14 DEF semVars
<1>. QED
  BY <1>2, <1>3, <1>4, <1>5, <1>6, <1>7, <1>8, <1>9, <1>10, <1>11, <1>12,
     <1>13, <1>14
     DEF Next, vars, ServerSteps, BindFails, ListenFails, ErrSteps, ErrStore,
         ErrLoad, ErrInc, ErrCheck, ErrReset, AtErrLogWrite, OSTimeTick,
         StackSteps, SynArrives, SenderCloses, SenderLogs, OpenFails,
         BindSucceeds, SetUpFails, RxData, RxFails, RxEmpty, taskVars, queueVars

(* The place of the server decides which sockets are its own.              *)
LEMMA SocketStep ==
  ASSUME IInv, [Next]_vars
  PROVE  EverySocketHasItsUser'
<1>0. NetServerTypeOK /\ ServerState /\ EverySocketHasItsUser
  BY DEF IInv
<1>. USE <1>0, NoSockAssumption
     DEF EverySocketHasItsUser, ServerGoes, ServerRuns, NetServerTypeOK,
         Places, SockStates
<1>1. CASE OpenSucceeds
  BY <1>1 DEF OpenSucceeds, NetSock_Open
<1>2. CASE OpenFails
  BY <1>2 DEF OpenFails, sockVars
<1>3. CASE BindSucceeds
  BY <1>3 DEF BindSucceeds, NetSock_Bind
<1>4. CASE SetUpFails("bind") \/ SetUpFails("listen")
  BY <1>4 DEF SetUpFails, CloseSocket, NetSock_Close
<1>5. CASE ListenSucceeds
  BY <1>5 DEF ListenSucceeds, NetSock_Listen
<1>6. CASE AcceptPend \/ AcceptSignalled \/ AcceptTimesOut
  BY <1>6 DEF AcceptPend, AcceptSignalled, AcceptTimesOut, sockVars
<1>7. CASE AcceptNoneAvail \/ AcceptFails \/ Retry
  BY <1>7 DEF AcceptNoneAvail, AcceptFails, Retry, sockVars
<1>8. CASE AcceptSucceeds
  BY <1>8 DEF AcceptSucceeds, NetSock_AcceptSock
<1>9. CASE RxFails
  BY <1>9 DEF RxFails, CloseSocket, NetSock_Close
<1>10. CASE RxEmpty
  <2>1. CASE idle_count + 1 >= IdleMax
    BY <1>10, <2>1 DEF RxEmpty, ReqOpen, CloseSocket, NetSock_Close
  <2>2. CASE ~(idle_count + 1 >= IdleMax)
    BY <1>10, <2>2 DEF RxEmpty, sockVars
  <2>. QED
    BY <2>1, <2>2
<1>11. CASE RxData
  BY <1>11 DEF RxData, sockVars
<1>12. CASE CloseListener
  BY <1>12 DEF CloseListener, NetSock_Close
<1>13. ASSUME NEW c \in Conns, Abort(c) PROVE EverySocketHasItsUser'
  BY <1>13 DEF Abort, NetSock_CloseFromConn, sockVars, taskVars
<1>14. CASE SenderConnects
  BY <1>14 DEF SenderConnects, taskVars
<1>15. CASE SenderCloses
  BY <1>15 DEF SenderCloses, CloseSocket, NetSock_Close, taskVars
<1>16. CASE UNCHANGED <<sockState, at, sock_listen, sock_req, senderSock>>
  BY <1>16
<1>. QED
  BY <1>1, <1>2, <1>3, <1>4, <1>5, <1>6, <1>7, <1>8, <1>9, <1>10, <1>11,
     <1>12, <1>13, <1>14, <1>15, <1>16
     DEF Next, vars, ServerSteps, BindFails, ListenFails, ErrSteps, ErrStore,
         ErrLoad, ErrInc, ErrCheck, ErrReset, AtErrLogWrite, OSTimeTick,
         StackSteps, SynArrives, HandshakeDone, Drain, SenderLogs, taskVars,
         sockVars

-----------------------------------------------------------------------------
(* The accept queue as a sequence of entries, the oldest being entry 0.    *)

Entry(r, n) == r.ids[SlotOf(r, n)]

(* The tail follows the last entry, and every entry is a connection.       *)
RingOK(r) ==
  /\ r.tail = Wrapped(r.head + r.cur)
  /\ \A n \in 0 .. r.cur - 1 : Entry(r, n) \in Conns

Distinct(r) ==
  \A m, n \in 0 .. r.cur - 1 : Entry(r, m) = Entry(r, n) => m = n

(* r2 is r without its entry n.                                            *)
Drops(r2, r, n) ==
  /\ r2.cur = r.cur - 1
  /\ \A m \in 0 .. r.cur - 2 :
       Entry(r2, m) = IF m < n THEN Entry(r, m) ELSE Entry(r, m + 1)

(* Steps along the ring.                                                   *)
LEMMA WrappedSum ==
  ASSUME NEW h \in 0 .. RingSize - 1, NEW k \in 0 .. RingSize - 1
  PROVE  /\ Wrapped(Wrapped(h + 1) + k) = Wrapped(h + (k + 1))
         /\ k > 0 => Wrapped(h + k) # h
         /\ LET t == Wrapped(h + (k + 1))
            IN (IF t = 0 THEN RingSize - 1 ELSE t - 1) = Wrapped(h + k)
<1>1. RingSize \in Nat \ {0}
  BY RingSizeAssumption
<1>2. CASE h + k + 1 < RingSize
  BY <1>1, <1>2 DEF Wrapped
<1>3. CASE h + k + 1 >= RingSize /\ h + 1 < RingSize
  BY <1>1, <1>3 DEF Wrapped
<1>4. CASE h + 1 = RingSize
  BY <1>1, <1>4 DEF Wrapped
<1>. QED
  BY <1>1, <1>2, <1>3, <1>4

LEMMA SlotsDiffer ==
  ASSUME NEW r \in Queues, NEW m \in 0 .. RingSize - 1,
         NEW n \in 0 .. RingSize - 1
  PROVE  /\ SlotOf(r, n) \in Slots
         /\ SlotOf(r, m) = SlotOf(r, n) => m = n
BY RingSizeAssumption DEF SlotOf, Wrapped, Queues, Slots

LEMMA QueuedEntries ==
  ASSUME NEW r
  PROVE  Queued(r) = {Entry(r, n) : n \in 0 .. r.cur - 1}
BY DEF Queued, Entry

LEMMA EmptyRing ==
  ASSUME NEW r \in Queues, r.cur = 0, r.head = r.tail
  PROVE  RingOK(r) /\ Distinct(r) /\ Queued(r) = {}
BY RingSizeAssumption DEF RingOK, Distinct, Queued, Wrapped, Queues, Slots

LEMMA AddRing ==
  ASSUME NEW r \in Queues, RingOK(r), NEW c \in Conns, ConnAcceptQ_IsAvail(r)
  PROVE  /\ RingOK(ConnAcceptQ_Add(r, c))
         /\ Queued(ConnAcceptQ_Add(r, c)) = Queued(r) \union {c}
         /\ Distinct(r) /\ c \notin Queued(r) => Distinct(ConnAcceptQ_Add(r, c))
<1>. DEFINE r2 == ConnAcceptQ_Add(r, c)
<1>1. /\ r.cur \in 0 .. RingSize - 1 /\ r.head \in Slots /\ r.tail \in Slots
      /\ r.ids \in [Slots -> Conns \union {NoConn}]
  BY RingSizeAssumption DEF Queues, ConnAcceptQ_IsAvail
<1>2. /\ r2.ids = [r.ids EXCEPT ![r.tail] = c] /\ r2.head = r.head
      /\ r2.tail = Wrapped(r.tail + 1) /\ r2.cur = r.cur + 1
  BY DEF ConnAcceptQ_Add, Queues
<1>. HIDE DEF r2
<1>3. \A n \in 0 .. r.cur - 1 : Entry(r2, n) = Entry(r, n)
  <2>1. \A n \in 0 .. r.cur - 1 : SlotOf(r, n) \in Slots /\ SlotOf(r, n) # r.tail
    BY <1>1, SlotsDiffer, RingSizeAssumption DEF RingOK, SlotOf
  <2>. QED
    BY <1>1, <1>2, <2>1 DEF Entry, SlotOf
<1>4. Entry(r2, r.cur) = c
  BY <1>1, <1>2 DEF Entry, SlotOf, RingOK
<1>5. r2.tail = Wrapped(r2.head + r2.cur)
  BY <1>1, <1>2, RingSizeAssumption DEF RingOK, Wrapped, Slots
<1>6. \A n \in 0 .. r2.cur - 1 : n \in 0 .. r.cur - 1 \/ n = r.cur
  BY <1>1, <1>2
<1>7. RingOK(r2)
  BY <1>3, <1>4, <1>5, <1>6 DEF RingOK
<1>8. Queued(r2) = Queued(r) \union {c}
  BY <1>1, <1>2, <1>3, <1>4, <1>6, QueuedEntries
<1>9. ASSUME Distinct(r), c \notin Queued(r) PROVE Distinct(r2)
  <2>1. \A n \in 0 .. r.cur - 1 : Entry(r, n) # c
    BY <1>9, QueuedEntries
  <2>. QED
    BY <1>3, <1>4, <1>6, <1>9, <2>1 DEF Distinct
<1>. QED
  BY <1>7, <1>8, <1>9 DEF r2

LEMMA GetRing ==
  ASSUME NEW r \in Queues, RingOK(r), r.cur > 0
  PROVE  /\ Drops(ConnAcceptQ_Get(r), r, 0)
         /\ ConnAcceptQ_Get(r).tail
              = Wrapped(ConnAcceptQ_Get(r).head + ConnAcceptQ_Get(r).cur)
<1>. DEFINE r2 == ConnAcceptQ_Get(r)
<1>1. /\ r.cur \in 1 .. RingSize /\ r.head \in Slots /\ r.tail \in Slots
      /\ r.ids \in [Slots -> Conns \union {NoConn}]
  BY RingSizeAssumption DEF Queues
<1>2. /\ r2.ids = [r.ids EXCEPT ![r.head] = NoConn]
      /\ r2.head = Wrapped(r.head + 1)
      /\ r2.tail = r.tail /\ r2.cur = r.cur - 1
  BY DEF ConnAcceptQ_Get, Queues
<1>. HIDE DEF r2
<1>3. \A m \in 0 .. r.cur - 2 :
        SlotOf(r2, m) = SlotOf(r, m + 1) /\ SlotOf(r, m + 1) # r.head
  <2>. TAKE m \in 0 .. r.cur - 2
  <2>1. /\ m \in 0 .. RingSize - 1 /\ m + 1 \in 0 .. RingSize - 1 /\ m + 1 > 0
        /\ r.head \in 0 .. RingSize - 1
    BY <1>1, RingSizeAssumption DEF Slots
  <2>. QED
    BY <1>2, <2>1, WrappedSum DEF SlotOf
<1>4. \A m \in 0 .. r.cur - 2 : SlotOf(r, m + 1) \in Slots
  BY <1>1, RingSizeAssumption DEF SlotOf, Wrapped, Slots
<1>5. \A m \in 0 .. r.cur - 2 : Entry(r2, m) = Entry(r, m + 1)
  BY <1>1, <1>2, <1>3, <1>4 DEF Entry
<1>6. r2.tail = Wrapped(r2.head + r2.cur)
  <2>1. /\ r.cur - 1 \in 0 .. RingSize - 1 /\ r.head \in 0 .. RingSize - 1
        /\ (r.cur - 1) + 1 = r.cur
    BY <1>1, RingSizeAssumption DEF Slots
  <2>. QED
    BY <1>2, <2>1, WrappedSum DEF RingOK
<1>. QED
  BY <1>2, <1>5, <1>6 DEF Drops, r2

LEMMA WithoutEntryRing ==
  ASSUME NEW r \in Queues, RingOK(r), NEW n \in 0 .. r.cur - 1
  PROVE  /\ Drops(WithoutEntry(r, n), r, n)
         /\ WithoutEntry(r, n).tail
              = Wrapped(WithoutEntry(r, n).head + WithoutEntry(r, n).cur)
<1>. DEFINE last == SlotOf(r, r.cur - 1)
            moves(s) == \E k \in n .. r.cur - 2 : s = SlotOf(r, k)
            moved == [s \in Slots |-> IF s = last THEN NoConn
                                      ELSE IF moves(s) THEN r.ids[Wrapped(s + 1)]
                                      ELSE r.ids[s]]
            r2 == WithoutEntry(r, n)
<1>1. /\ r.cur \in 1 .. RingSize /\ r.head \in Slots /\ r.tail \in Slots
      /\ n \in 0 .. RingSize - 1
  BY RingSizeAssumption DEF Queues
<1>2. /\ r2.ids = moved /\ r2.head = r.head /\ r2.cur = r.cur - 1
      /\ r2.tail = IF r.tail = 0 THEN RingSize - 1 ELSE r.tail - 1
  BY DEF WithoutEntry, Queues
<1>3. ASSUME NEW m \in 0 .. r.cur - 2
      PROVE  Entry(r2, m) = IF m < n THEN Entry(r, m) ELSE Entry(r, m + 1)
  <2>. m \in 0 .. RingSize - 1 /\ r.cur - 1 \in 0 .. RingSize - 1 /\ m # r.cur - 1
    BY <1>1, <1>3, RingSizeAssumption
  <2>1. SlotOf(r, m) \in Slots /\ SlotOf(r, m) # last
    BY SlotsDiffer
  <2>2. moves(SlotOf(r, m)) <=> ~(m < n)
    <3>1. \A k \in n .. r.cur - 2 : SlotOf(r, m) = SlotOf(r, k) => m = k
      <4>1. \A k \in n .. r.cur - 2 : k \in 0 .. RingSize - 1
        BY <1>1, RingSizeAssumption
      <4>. QED
        BY <4>1, SlotsDiffer
    <3>. QED
      BY <1>1, <1>3, <3>1
  <2>3. Wrapped(SlotOf(r, m) + 1) = SlotOf(r, m + 1)
    BY <1>1, <1>3, RingSizeAssumption DEF SlotOf, Wrapped, Slots
  <2>4. Entry(r2, m) = moved[SlotOf(r, m)]
    BY <1>2 DEF Entry, SlotOf
  <2>. HIDE DEF last, moves
  <2>. QED
    BY <2>1, <2>2, <2>3, <2>4 DEF Entry
<1>4. r2.tail = Wrapped(r2.head + r2.cur)
  <2>. HIDE DEF r2
  <2>1. /\ r.cur - 1 \in 0 .. RingSize - 1 /\ r.head \in 0 .. RingSize - 1
        /\ (r.cur - 1) + 1 = r.cur
    BY <1>1, RingSizeAssumption DEF Slots
  <2>. QED
    BY <1>2, <2>1, WrappedSum DEF RingOK
<1>. QED
  BY <1>2, <1>3, <1>4 DEF Drops

(* What is left when an entry is dropped.                                  *)
LEMMA DropsRest ==
  ASSUME NEW r \in Queues, RingOK(r), NEW r2, NEW n \in 0 .. r.cur - 1,
         Drops(r2, r, n), r2.tail = Wrapped(r2.head + r2.cur)
  PROVE  /\ RingOK(r2)
         /\ Queued(r2) \subseteq Queued(r)
         /\ Queued(r) \ {Entry(r, n)} \subseteq Queued(r2)
         /\ Distinct(r) => Distinct(r2) /\ Entry(r, n) \notin Queued(r2)
<1>1. r.cur \in Nat
  BY RingSizeAssumption DEF Queues
<1>2. \A m \in 0 .. r2.cur - 1 :
        \/ m < n /\ m \in 0 .. r.cur - 1 /\ Entry(r2, m) = Entry(r, m)
        \/ m >= n /\ m + 1 \in 0 .. r.cur - 1 /\ Entry(r2, m) = Entry(r, m + 1)
  BY <1>1 DEF Drops
<1>3. RingOK(r2)
  BY <1>2 DEF RingOK
<1>4. Queued(r2) \subseteq Queued(r)
  BY <1>2, QueuedEntries
<1>5. Queued(r) \ {Entry(r, n)} \subseteq Queued(r2)
  <2>1. ASSUME NEW k \in 0 .. r.cur - 1, k # n PROVE Entry(r, k) \in Queued(r2)
    <3>1. CASE k < n
      <4>1. k \in 0 .. r2.cur - 1 /\ Entry(r2, k) = Entry(r, k)
        BY <1>1, <3>1 DEF Drops
      <4>. QED
        BY <4>1, QueuedEntries
    <3>2. CASE k > n
      <4>1. k - 1 \in 0 .. r2.cur - 1 /\ Entry(r2, k - 1) = Entry(r, k)
        BY <1>1, <3>2 DEF Drops
      <4>. QED
        BY <4>1, QueuedEntries
    <3>. QED
      BY <1>1, <2>1, <3>1, <3>2
  <2>. QED
    BY <2>1, QueuedEntries
<1>6. ASSUME Distinct(r) PROVE Distinct(r2) /\ Entry(r, n) \notin Queued(r2)
  <2>1. Distinct(r2)
    <3>1. r2.cur \in Int
      BY <1>1 DEF Drops
    <3>. QED
      BY <1>1, <1>2, <1>6, <3>1 DEF Distinct
  <2>2. \A m \in 0 .. r2.cur - 1 : Entry(r2, m) # Entry(r, n)
    BY <1>1, <1>2, <1>6 DEF Distinct
  <2>. QED
    BY <2>1, <2>2, QueuedEntries
<1>. QED
  BY <1>3, <1>4, <1>5, <1>6

(* The search finds every queued id, unless the ring is full.              *)
LEMMA SrchFinds ==
  ASSUME NEW r \in Queues, RingOK(r), r.cur < RingSize, NEW c \in Queued(r)
  PROVE  Srch(r, c) # {}
<1>1. PICK n \in 0 .. r.cur - 1 : Entry(r, n) = c
  BY QueuedEntries
<1>2. \A m \in 0 .. n : SlotOf(r, m) # r.tail
  BY RingSizeAssumption DEF RingOK, SlotOf, Wrapped, Queues, Slots
<1>. QED
  BY <1>1, <1>2 DEF Srch, Entry

LEMMA RemoveRing ==
  ASSUME NEW r \in Queues, RingOK(r), NEW c
  PROVE  LET r2 == ConnAcceptQ_Remove(r, c)
         IN /\ RingOK(r2)
            /\ Queued(r2) \subseteq Queued(r)
            /\ Queued(r) \ {c} \subseteq Queued(r2)
            /\ Distinct(r) => Distinct(r2)
            /\ Distinct(r) /\ c \in Queued(r2) =>
                 c \in Queued(r) /\ r.cur = RingSize
<1>. DEFINE r2 == ConnAcceptQ_Remove(r, c)
<1>1. CASE r2 = r /\ Srch(r, c) = {}
  <2>1. c \in Queued(r) => r.cur = RingSize
    BY <1>1, SrchFinds, RingSizeAssumption DEF Queues
  <2>. QED
    BY <1>1, <2>1
<1>2. CASE \E n \in Srch(r, c) : r2 = WithoutEntry(r, n)
  <2>1. PICK n \in Srch(r, c) : r2 = WithoutEntry(r, n)
    BY <1>2
  <2>2. n \in 0 .. r.cur - 1 /\ Entry(r, n) = c
    BY DEF Srch, Entry
  <2>3. Drops(r2, r, n) /\ r2.tail = Wrapped(r2.head + r2.cur)
    BY <2>1, <2>2, WithoutEntryRing
  <2>. HIDE DEF r2
  <2>4. /\ RingOK(r2)
        /\ Queued(r2) \subseteq Queued(r)
        /\ Queued(r) \ {c} \subseteq Queued(r2)
        /\ Distinct(r) => Distinct(r2) /\ c \notin Queued(r2)
    BY <2>2, <2>3, DropsRest
  <2>. QED
    BY <2>4 DEF r2
<1>. QED
  BY <1>1, <1>2, RemoveIsWithoutEntry

(* In a ring without duplicates there are as many ids as entries.          *)
LEMMA DistinctCount ==
  ASSUME NEW r \in Queues, Distinct(r)
  PROVE  Cardinality(Queued(r)) = r.cur
<1>. DEFINE S == 0 .. r.cur - 1
            f == [n \in S |-> Entry(r, n)]
<1>1. r.cur \in Nat
  BY RingSizeAssumption DEF Queues
<1>2. f \in Bijection(S, Queued(r))
  <2>1. f \in [S -> Queued(r)]
    BY QueuedEntries
  <2>2. \A a, b \in S : f[a] = f[b] => a = b
    BY DEF Distinct
  <2>3. \A c \in Queued(r) : \E a \in S : f[a] = c
    BY QueuedEntries
  <2>. HIDE DEF f, S
  <2>. QED
    BY <2>1, <2>2, <2>3, Fun_IsBij
<1>3. IsFiniteSet(S) /\ Cardinality(S) = r.cur
  <2>1. 0 \in Int /\ r.cur - 1 \in Int
    BY <1>1
  <2>2. /\ IsFiniteSet(0 .. r.cur - 1)
        /\ Cardinality(0 .. r.cur - 1)
             = IF 0 > r.cur - 1 THEN 0 ELSE (r.cur - 1) - 0 + 1
    BY <2>1, FS_Interval
  <2>. QED
    BY <1>1, <2>2
<1>. QED
  BY <1>2, <1>3, FS_Bijection DEF ExistsBijection

-----------------------------------------------------------------------------
(* The queue and the connections.  As long as no connection was lost from  *)
(* a full ring, the queue holds pending connections only and each once,    *)
(* only an established connection has a socket, and a connected socket and *)
(* its connection name each other.                                         *)

Orderly ==
  /\ Distinct(q)
  /\ \A c \in Queued(q) : NamesPending(c)
  /\ \A c \in Conns : connPhase[c] = "handshake" => connClone[c]
  /\ \A c \in Conns : connPhase[c] # "established" => connApp[c] = NoSock
  /\ \A s \in SockIds : sockState[s] = "CONN" =>
       sockConn[s] \in Conns /\ connApp[sockConn[s]] = s

QueueInv ==
  /\ RingOK(q)
  /\ PreListen => /\ \A c \in Conns : ~connClone[c]
                  /\ \A s \in SockIds : sockState[s] # "LISTEN"
  /\ PendingIsQueued
  /\ ~missed => Orderly

LEMMA FrontEntry ==
  ASSUME NEW r \in Queues
  PROVE  Front(r) = Entry(r, 0)
BY RingSizeAssumption DEF Front, Entry, SlotOf, Wrapped, Queues, Slots

LEMMA QueuedAreConns ==
  ASSUME NEW r, RingOK(r)
  PROVE  Queued(r) \subseteq Conns
BY QueuedEntries DEF RingOK

LEMMA WithoutCloneRing ==
  ASSUME NEW r \in Queues, RingOK(r), NEW c
  PROVE  LET r2 == WithoutClone(r, c)
         IN /\ RingOK(r2)
            /\ Queued(r2) \subseteq Queued(r)
            /\ Queued(r) \ {c} \subseteq Queued(r2)
            /\ Distinct(r) => Distinct(r2)
            /\ Distinct(r) /\ c \in Queued(r2) =>
                 c \in Queued(r) /\ (r.cur = RingSize \/ ~connClone[c])
<1>1. CASE connClone[c]
  BY <1>1, RemoveRing DEF WithoutClone
<1>2. CASE ~connClone[c]
  BY <1>2 DEF WithoutClone
<1>. QED
  BY <1>1, <1>2

LEMMA GetRest ==
  ASSUME NEW r \in Queues, RingOK(r), r.cur > 0
  PROVE  LET r2 == ConnAcceptQ_Get(r)
         IN /\ r2 \in Queues
            /\ Front(r) \in Queued(r)
            /\ RingOK(r2)
            /\ Queued(r2) \subseteq Queued(r)
            /\ Queued(r) \ {Front(r)} \subseteq Queued(r2)
            /\ Distinct(r) => Distinct(r2) /\ Front(r) \notin Queued(r2)
<1>1. 0 \in 0 .. r.cur - 1
  BY RingSizeAssumption DEF Queues
<1>2. Front(r) \in Queued(r)
  BY <1>1, FrontEntry, QueuedEntries
<1>. QED
  BY <1>1, <1>2, GetRing, GetType, DropsRest, FrontEntry

(* Closing a socket takes no connection out of the queue.                  *)
LEMMA CloseSocketQueue ==
  ASSUME NetServerTypeOK, RingOK(q), NEW s \in SockIds \union {NoSock},
         CloseSocket(s), UNCHANGED <<q, missed>>
  PROVE  /\ \A c \in Conns : NamesPending(c)' => NamesPending(c)
         /\ \A t \in SockIds : sockState'[t] \in {sockState[t], "FREE"}
         /\ connClone' = connClone
         /\ Orderly => Orderly'
<1>. USE DEF NetServerTypeOK
<1>1. \A t \in SockIds :
        /\ t # s => sockState'[t] = sockState[t] /\ sockConn'[t] = sockConn[t]
        /\ t = s => sockState'[t] = "FREE"
  BY DEF CloseSocket, NetSock_Close
<1>2. connClone' = connClone
  BY DEF CloseSocket, CloseConnOf, connVars
<1>3. \A c \in Conns :
        \/ connPhase'[c] = connPhase[c] /\ connApp'[c] = connApp[c]
        \/ /\ connPhase'[c] \in {"free", "closing"} /\ connApp'[c] = NoSock
           /\ s \in SockIds /\ sockState[s] = "CONN" /\ sockConn[s] = c
  BY DEF CloseSocket, CloseConnOf, connVars
<1>4. \A c \in Conns : NamesPending(c)' => NamesPending(c)
  BY <1>2, <1>3 DEF NamesPending
<1>5. ASSUME Orderly PROVE Orderly'
  <2>1. Distinct(q)'
    BY <1>5 DEF Orderly
  <2>2. ASSUME NEW c \in Queued(q) PROVE NamesPending(c)'
    <3>1. NamesPending(c) /\ c \in Conns
      BY <1>5, QueuedAreConns DEF Orderly
    <3>2. ~(s \in SockIds /\ sockState[s] = "CONN" /\ sockConn[s] = c)
      BY <1>5, <3>1, NoSockAssumption DEF Orderly, NamesPending
    <3>. QED
      BY <1>2, <1>3, <3>1, <3>2 DEF NamesPending
  <2>3. \A c \in Conns :
          /\ connPhase'[c] = "handshake" => connClone'[c]
          /\ connPhase'[c] # "established" => connApp'[c] = NoSock
    BY <1>2, <1>3, <1>5 DEF Orderly
  <2>4. ASSUME NEW t \in SockIds, sockState'[t] = "CONN"
        PROVE  sockConn'[t] \in Conns /\ connApp'[sockConn'[t]] = t
    <3>1. t # s /\ sockState[t] = "CONN" /\ sockConn'[t] = sockConn[t]
      BY <1>1, <2>4
    <3>2. sockConn[t] \in Conns /\ connApp[sockConn[t]] = t
      BY <1>5, <3>1 DEF Orderly
    <3>3. ~(s \in SockIds /\ sockState[s] = "CONN" /\ sockConn[s] = sockConn[t])
      BY <1>5, <3>1, <3>2 DEF Orderly
    <3>. QED
      BY <1>3, <3>1, <3>2, <3>3
  <2>5. Queued(q)' = Queued(q)
    OBVIOUS
  <2>. QED
    BY <2>1, <2>2, <2>3, <2>4, <2>5 DEF Orderly
<1>. QED
  BY <1>1, <1>2, <1>4, <1>5

(* Emptying the queue and freeing what was in it, and more.                *)
LEMMA FreedConns ==
  ASSUME NetServerTypeOK, NEW S, NetConn_CloseFromApp(S)
  PROVE  /\ connClone' = connClone
         /\ \A c \in Conns : c \in S => connPhase'[c] = "free" /\ connApp'[c] = NoSock
         /\ \A c \in Conns : c \notin S =>
              connPhase'[c] = connPhase[c] /\ connApp'[c] = connApp[c]
BY DEF NetConn_CloseFromApp, NetServerTypeOK

LEMMA QueueStepServer ==
  ASSUME NetServerTypeOK, QueueInv, ServerSteps
  PROVE  QueueInv'
<1>0. /\ RingOK(q) /\ q \in Queues
      /\ Queued(q) \subseteq Conns
  BY QueuedAreConns DEF QueueInv, NetServerTypeOK
<1>. USE DEF ServerGoes, ServerRuns
<1>1. CASE OpenSucceeds
  <2>1. PreListen /\ \A c \in Conns : ~connClone[c]
    BY <1>1 DEF OpenSucceeds, PreListen, QueueInv
  <2>2. RingOK(q)' /\ Distinct(q)' /\ Queued(q)' = {}
    BY <1>1, ClearedType, EmptyRing DEF OpenSucceeds, ClearedQ
  <2>3. PICK s \in SockIds : sockState' = [sockState EXCEPT ![s] = "CLOSED"]
    BY <1>1 DEF OpenSucceeds, NetSock_Open
  <2>4. UNCHANGED <<sockConn, connPhase, connApp, connClone, missed>>
    BY <1>1 DEF OpenSucceeds, connVars
  <2>5. \A t \in SockIds : sockState'[t] \in {sockState[t], "CLOSED"}
    BY <2>3 DEF NetServerTypeOK
  <2>6. Orderly => Orderly'
    BY <2>2, <2>4, <2>5 DEF Orderly
  <2>7. PendingIsQueued'
    BY <2>1, <2>4 DEF PendingIsQueued, NamesPending
  <2>. QED
    BY <2>1, <2>2, <2>4, <2>5, <2>6, <2>7 DEF QueueInv
<1>2. CASE OpenFails
  <2>1. PreListen /\ \A c \in Conns : ~connClone[c]
    BY <1>2 DEF OpenFails, PreListen, QueueInv
  <2>2. UNCHANGED <<sockState, sockConn, connPhase, connApp, connClone, q, missed>>
    BY <1>2 DEF OpenFails, sockVars, connVars, queueVars
  <2>3. Orderly => Orderly'
    BY <2>2 DEF Orderly, Distinct, Entry, SlotOf, Queued, NamesPending
  <2>4. PendingIsQueued'
    BY <2>1, <2>2 DEF PendingIsQueued, NamesPending
  <2>. QED
    BY <2>1, <2>2, <2>3, <2>4 DEF QueueInv, RingOK, Entry, SlotOf
<1>3. CASE BindSucceeds \/ ListenSucceeds
  <2>1. PreListen /\ \A c \in Conns : ~connClone[c]
    BY <1>3 DEF BindSucceeds, ListenSucceeds, PreListen, QueueInv
  <2>2. UNCHANGED <<sockConn, connPhase, connApp, connClone, missed, sock_listen>>
    BY <1>3 DEF BindSucceeds, ListenSucceeds, connVars
  <2>3. /\ q'.ids = q.ids /\ q'.head = q.head /\ q'.tail = q.tail
        /\ q'.cur = q.cur
    BY <1>0, <1>3
       DEF BindSucceeds, ListenSucceeds, queueVars, ConnAcceptQ_Init, Queues
  <2>4. RingOK(q)' /\ Queued(q)' = Queued(q) /\ (Distinct(q) => Distinct(q)')
    BY <1>0, <2>3 DEF RingOK, Queued, Distinct, Entry, SlotOf
  <2>5. \A t \in SockIds : sockState'[t] = "CONN" => sockState[t] = "CONN"
    BY <1>3
       DEF BindSucceeds, ListenSucceeds, NetSock_Bind, NetSock_Listen,
           NetServerTypeOK
  <2>6. BindSucceeds => \A t \in SockIds : sockState'[t] \in {sockState[t], "BOUND"}
    BY DEF BindSucceeds, NetSock_Bind, NetServerTypeOK
  <2>7. ListenSucceeds => ~PreListen'
    BY DEF ListenSucceeds, PreListen
  <2>8. Orderly => Orderly'
    BY <2>2, <2>4, <2>5 DEF Orderly, NamesPending
  <2>9. PendingIsQueued'
    BY <2>1, <2>2 DEF PendingIsQueued, NamesPending
  <2>. QED
    BY <1>3, <2>1, <2>2, <2>4, <2>6, <2>7, <2>8, <2>9 DEF QueueInv
<1>4. ASSUME NEW s \in SockIds \union {NoSock}, CloseSocket(s),
             UNCHANGED <<q, missed, sock_listen>>, PreListen' => PreListen
      PROVE  QueueInv'
  <2>1. /\ \A c \in Conns : NamesPending(c)' => NamesPending(c)
        /\ \A t \in SockIds : sockState'[t] \in {sockState[t], "FREE"}
        /\ connClone' = connClone
        /\ Orderly => Orderly'
    BY <1>0, <1>4, CloseSocketQueue
  <2>2. PendingIsQueued'
    BY <1>4, <2>1 DEF PendingIsQueued, Listening, QueueInv
  <2>3. RingOK(q)'
    BY <1>0, <1>4 DEF RingOK, Entry, SlotOf
  <2>. QED
    BY <1>4, <2>1, <2>2, <2>3 DEF QueueInv
<1>5. CASE SetUpFails("bind") \/ SetUpFails("listen")
  <2>1. PreListen /\ sock_listen \in SockIds \union {NoSock}
    BY <1>5 DEF SetUpFails, PreListen, NetServerTypeOK
  <2>. QED
    BY <1>4, <1>5, <2>1 DEF SetUpFails, queueVars
<1>6. CASE RxFails
  <2>1. ~PreListen' /\ sock_req \in SockIds \union {NoSock}
    BY <1>6 DEF RxFails, PreListen, NetServerTypeOK
  <2>. QED
    BY <1>4, <1>6, <2>1 DEF RxFails, queueVars
<1>7. CASE RxEmpty /\ idle_count + 1 >= IdleMax
  <2>1. ~PreListen' /\ sock_req \in SockIds \union {NoSock}
    BY <1>7 DEF RxEmpty, PreListen, NetServerTypeOK
  <2>. QED
    BY <1>4, <1>7, <2>1 DEF RxEmpty, queueVars
<1>8. CASE UNCHANGED <<sockState, sockConn, connVars, q, missed, sock_listen>>
           /\ ~PreListen'
  <2>1. RingOK(q)' /\ (Orderly => Orderly')
    BY <1>0, <1>8
       DEF Orderly, Distinct, RingOK, Entry, SlotOf, Queued, NamesPending,
           connVars
  <2>2. PendingIsQueued'
    BY <1>8
       DEF QueueInv, PendingIsQueued, Listening, NamesPending, Queued, SlotOf,
           connVars
  <2>. QED
    BY <1>8, <2>1, <2>2 DEF QueueInv
<1>9. CASE AcceptFails
  <2>. DEFINE c == Front(q)
              r == ConnAcceptQ_Get(q)
  <2>1. /\ q.cur > 0 /\ q' = WithoutClone(r, c) /\ NetConn_CloseFromApp({c})
        /\ UNCHANGED <<sockState, sockConn, missed, sock_listen>>
        /\ ~PreListen'
    BY <1>9 DEF AcceptFails, sockVars, PreListen
  <2>2. /\ r \in Queues /\ RingOK(r) /\ c \in Queued(q) /\ c \in Conns
        /\ Queued(r) \subseteq Queued(q)
        /\ Queued(q) \ {c} \subseteq Queued(r)
        /\ Distinct(q) => Distinct(r) /\ c \notin Queued(r)
    BY <1>0, <2>1, GetRest
  <2>. HIDE DEF c, r
  <2>3. /\ RingOK(q)'
        /\ Queued(q)' \subseteq Queued(r)
        /\ Queued(r) \ {c} \subseteq Queued(q)'
        /\ Distinct(r) => Distinct(q)'
    BY <2>1, <2>2, WithoutCloneRing
  <2>4. /\ connClone' = connClone
        /\ connPhase'[c] = "free" /\ connApp'[c] = NoSock
        /\ \A d \in Conns : d # c =>
             connPhase'[d] = connPhase[d] /\ connApp'[d] = connApp[d]
    BY <2>1, <2>2, FreedConns
  <2>5. PendingIsQueued'
    BY <2>1, <2>2, <2>3, <2>4
       DEF QueueInv, PendingIsQueued, Listening, NamesPending
  <2>6. ASSUME Orderly PROVE Orderly'
    <3>1. /\ Distinct(q)'
          /\ \A d \in Queued(q)' : d \in Queued(q) /\ d # c
      BY <2>2, <2>3, <2>6 DEF Orderly
    <3>2. connApp[c] = NoSock
      BY <2>2, <2>6 DEF Orderly, NamesPending
    <3>. QED
      BY <1>0, <2>1, <2>4, <2>6, <3>1, <3>2, NoSockAssumption
         DEF Orderly, NamesPending
  <2>. QED
    BY <2>1, <2>3, <2>5, <2>6 DEF QueueInv
<1>10. CASE AcceptSucceeds
  <2>. DEFINE c == Front(q)
  <2>1. PICK s \in SockIds :
          /\ NetSock_AcceptSock(s)
          /\ sockConn' = [sockConn EXCEPT ![s] = c]
          /\ connApp' = [connApp EXCEPT ![c] = s]
    BY <1>10 DEF AcceptSucceeds
  <2>2. /\ q.cur > 0 /\ q' = ConnAcceptQ_Get(q)
        /\ UNCHANGED <<connPhase, connClone, missed, sock_listen>>
        /\ ~PreListen'
    BY <1>10 DEF AcceptSucceeds, PreListen
  <2>3. /\ RingOK(q)' /\ c \in Queued(q) /\ c \in Conns
        /\ Queued(q)' \subseteq Queued(q)
        /\ Queued(q) \ {c} \subseteq Queued(q)'
        /\ Distinct(q) => Distinct(q)' /\ c \notin Queued(q)'
    BY <1>0, <2>2, GetRest
  <2>. HIDE DEF c
  <2>4. /\ connApp'[c] = s
        /\ \A d \in Conns : d # c => connApp'[d] = connApp[d]
        /\ sockState'[s] = "CONN" /\ sockConn'[s] = c
        /\ \A t \in SockIds : t # s =>
             sockState'[t] = sockState[t] /\ sockConn'[t] = sockConn[t]
    BY <2>1, <2>3 DEF NetServerTypeOK, NetSock_AcceptSock
  <2>5. PendingIsQueued'
    BY <2>2, <2>3, <2>4, NoSockAssumption
       DEF QueueInv, PendingIsQueued, Listening, NamesPending
  <2>6. ASSUME Orderly PROVE Orderly'
    <3>1. connPhase[c] = "established" /\ connApp[c] = NoSock
      BY <2>3, <2>6 DEF Orderly, NamesPending
    <3>2. \A d \in Queued(q)' : NamesPending(d)'
      BY <1>0, <2>2, <2>3, <2>4, <2>6 DEF Orderly, NamesPending
    <3>3. \A t \in SockIds : sockState'[t] = "CONN" =>
            sockConn'[t] \in Conns /\ connApp'[sockConn'[t]] = t
      BY <2>3, <2>4, <2>6, <3>1, NoSockAssumption DEF Orderly
    <3>. QED
      BY <2>2, <2>3, <2>4, <2>6, <3>1, <3>2, <3>3 DEF Orderly
  <2>. QED
    BY <2>2, <2>3, <2>5, <2>6 DEF QueueInv
<1>11. CASE CloseListener
  <2>1. /\ NetConn_CloseFromApp(Queued(q)) /\ q' = ConnAcceptQ_Clr(q)
        /\ NetSock_Close(sock_listen)
        /\ UNCHANGED <<sockConn, missed, sock_listen>>
        /\ ~PreListen'
    BY <1>11 DEF CloseListener, PreListen
  <2>2. RingOK(q)' /\ Distinct(q)' /\ Queued(q)' = {}
    BY <1>0, <2>1, ClrType, EmptyRing DEF ConnAcceptQ_Clr, ClearedQ
  <2>3. ~Listening' /\ \A t \in SockIds : sockState'[t] \in {sockState[t], "FREE"}
    BY <2>1 DEF Listening, NetSock_Close, NetServerTypeOK
  <2>4. /\ connClone' = connClone
        /\ \A d \in Conns : d \in Queued(q) =>
             connPhase'[d] = "free" /\ connApp'[d] = NoSock
        /\ \A d \in Conns : d \notin Queued(q) =>
             connPhase'[d] = connPhase[d] /\ connApp'[d] = connApp[d]
    BY <2>1, FreedConns
  <2>5. ASSUME Orderly PROVE Orderly'
    <3>1. \A d \in Queued(q) : connApp[d] = NoSock
      BY <2>5 DEF Orderly, NamesPending
    <3>. QED
      BY <2>1, <2>2, <2>3, <2>4, <2>5, <3>1, NoSockAssumption DEF Orderly
  <2>. QED
    BY <2>1, <2>2, <2>3, <2>5 DEF QueueInv, PendingIsQueued
<1>. QED
  BY <1>1, <1>2, <1>3, <1>5, <1>6, <1>7, <1>8, <1>9, <1>10, <1>11
     DEF ServerSteps, BindFails, ListenFails, AcceptPend, AcceptSignalled,
         AcceptTimesOut, AcceptNoneAvail, Retry, RxEmpty, RxData, PreListen,
         sockVars, queueVars

LEMMA QueueStepStack ==
  ASSUME NetServerTypeOK, QueueInv, StackSteps
  PROVE  QueueInv'
<1>0. /\ RingOK(q) /\ q \in Queues
      /\ Queued(q) \subseteq Conns
  BY QueuedAreConns DEF QueueInv, NetServerTypeOK
<1>1. UNCHANGED <<sock_listen, at, listen_state>>
  BY DEF StackSteps, SynArrives, HandshakeDone, Abort, Drain, taskVars
<1>2. PreListen' <=> PreListen
  BY <1>1 DEF PreListen
<1>3. ASSUME NEW c \in Conns, SynArrives(c) PROVE QueueInv'
  <2>1. /\ UNCHANGED <<sockState, sockConn, q, missed>>
        /\ Listening /\ connPhase[c] = "free"
        /\ connPhase'[c] = "handshake" /\ connApp'[c] = NoSock /\ connClone'[c]
        /\ \A d \in Conns : d # c => /\ connPhase'[d] = connPhase[d]
                                     /\ connApp'[d] = connApp[d]
                                     /\ connClone'[d] = connClone[d]
    BY <1>3 DEF SynArrives, sockVars, queueVars, NetServerTypeOK
  <2>2. ~PreListen
    BY <2>1 DEF QueueInv, Listening
  <2>3. RingOK(q)' /\ Queued(q)' = Queued(q) /\ (Distinct(q) => Distinct(q)')
    BY <1>0, <2>1 DEF RingOK, Queued, Distinct, Entry, SlotOf
  <2>4. PendingIsQueued'
    BY <1>1, <2>1, <2>3 DEF QueueInv, PendingIsQueued, Listening, NamesPending
  <2>5. ASSUME Orderly PROVE Orderly'
    <3>1. c \notin Queued(q) /\ connApp[c] = NoSock
      BY <2>1, <2>5 DEF Orderly, NamesPending
    <3>. QED
      BY <1>0, <2>1, <2>3, <2>5, <3>1, NoSockAssumption
         DEF Orderly, NamesPending
  <2>. QED
    BY <1>2, <2>1, <2>2, <2>3, <2>4, <2>5 DEF QueueInv
(* A connection is freed and taken out of the queue.                       *)
<1>4. ASSUME NEW c \in Conns, NetConn_CloseFromApp({c}),
             q' = q \/ q' = WithoutClone(q, c),
             UNCHANGED <<sockState, sockConn, missed>>,
             connPhase[c] # "established"
      PROVE  QueueInv'
  <2>1. /\ connClone' = connClone
        /\ connPhase'[c] = "free" /\ connApp'[c] = NoSock
        /\ \A d \in Conns : d # c =>
             connPhase'[d] = connPhase[d] /\ connApp'[d] = connApp[d]
    BY <1>4, FreedConns
  <2>2. /\ RingOK(q)'
        /\ Queued(q)' \subseteq Queued(q)
        /\ Queued(q) \ {c} \subseteq Queued(q)'
        /\ Distinct(q) => Distinct(q)'
    <3>1. CASE q' = q
      BY <1>0, <3>1 DEF RingOK, Queued, Distinct, Entry, SlotOf
    <3>2. CASE q' = WithoutClone(q, c)
      BY <1>0, <3>2, WithoutCloneRing
    <3>. QED
      BY <1>4, <3>1, <3>2
  <2>3. PendingIsQueued'
    BY <1>1, <1>4, <2>1, <2>2
       DEF QueueInv, PendingIsQueued, Listening, NamesPending
  <2>4. ASSUME Orderly PROVE Orderly'
    <3>1. c \notin Queued(q) /\ connApp[c] = NoSock
      BY <1>4, <2>4 DEF Orderly, NamesPending
    <3>. QED
      BY <1>0, <1>4, <2>1, <2>2, <2>4, <3>1, NoSockAssumption
         DEF Orderly, NamesPending
  <2>. QED
    BY <1>2, <1>4, <2>1, <2>2, <2>3, <2>4 DEF QueueInv
<1>5. ASSUME NEW c \in Conns, HandshakeDone(c) PROVE QueueInv'
  <2>0. connPhase[c] = "handshake" /\ UNCHANGED <<sockState, sockConn, missed>>
    BY <1>5 DEF HandshakeDone, sockVars
  <2>1. CASE ~ConnAcceptQ_IsAvail(q)
    BY <1>4, <1>5, <2>0, <2>1 DEF HandshakeDone
  <2>2. CASE ConnAcceptQ_IsAvail(q) /\ PostOverflows
    <3>1. NetConn_CloseFromApp(Queued(q) \union {c}) /\ q' = ConnAcceptQ_Clr(q)
      BY <1>5, <2>2 DEF HandshakeDone
    <3>2. RingOK(q)' /\ Distinct(q)' /\ Queued(q)' = {}
      BY <1>0, <3>1, ClrType, EmptyRing DEF ConnAcceptQ_Clr, ClearedQ
    <3>3. /\ connClone' = connClone
          /\ \A d \in Conns : d \in Queued(q) \union {c} =>
               connPhase'[d] = "free" /\ connApp'[d] = NoSock
          /\ \A d \in Conns : d \notin Queued(q) \union {c} =>
               connPhase'[d] = connPhase[d] /\ connApp'[d] = connApp[d]
      BY <3>1, FreedConns
    <3>4. PendingIsQueued'
      BY <1>1, <2>0, <3>2, <3>3
         DEF QueueInv, PendingIsQueued, Listening, NamesPending
    <3>5. ASSUME Orderly PROVE Orderly'
      <4>1. \A d \in Queued(q) \union {c} : connApp[d] = NoSock
        BY <2>0, <3>5 DEF Orderly, NamesPending
      <4>. QED
        BY <2>0, <3>2, <3>3, <3>5, <4>1, NoSockAssumption DEF Orderly
    <3>. QED
      BY <1>2, <2>0, <3>2, <3>3, <3>4, <3>5 DEF QueueInv
  <2>3. CASE ConnAcceptQ_IsAvail(q) /\ ~PostOverflows
    <3>1. /\ connPhase'[c] = "established"
          /\ \A d \in Conns : d # c => connPhase'[d] = connPhase[d]
          /\ q' = ConnAcceptQ_Add(q, c)
          /\ UNCHANGED <<connApp, connClone>>
      BY <1>5, <2>3 DEF HandshakeDone, NetServerTypeOK
    <3>2. /\ RingOK(q)' /\ Queued(q)' = Queued(q) \union {c}
          /\ Distinct(q) /\ c \notin Queued(q) => Distinct(q)'
      BY <1>0, <2>3, <3>1, AddRing
    <3>3. PendingIsQueued'
      BY <1>1, <2>0, <3>1, <3>2
         DEF QueueInv, PendingIsQueued, Listening, NamesPending
    <3>4. ASSUME Orderly PROVE Orderly'
      <4>1. c \notin Queued(q)
        BY <2>0, <3>4 DEF Orderly, NamesPending
      <4>. QED
        BY <1>0, <2>0, <3>1, <3>2, <3>4, <4>1 DEF Orderly, NamesPending
    <3>. QED
      BY <1>2, <2>0, <3>1, <3>2, <3>3, <3>4 DEF QueueInv
  <2>. QED
    BY <2>1, <2>2, <2>3
<1>6. ASSUME NEW c \in Conns, Drain(c) PROVE QueueInv'
  <2>1. connPhase[c] = "closing" /\ NetConn_CloseFromApp({c})
        /\ UNCHANGED <<sockState, sockConn, missed>>
        /\ (q' = q \/ q' = WithoutClone(q, c))
    BY <1>6 DEF Drain, sockVars
  <2>. QED
    BY <1>4, <2>1
<1>7. ASSUME NEW c \in Conns, Abort(c) PROVE QueueInv'
  <2>1. /\ NetConn_CloseFromApp({c}) /\ q' = WithoutClone(q, c)
        /\ missed' = (missed \/ (q.cur = RingSize /\ c \in Queued(q)))
    BY <1>7 DEF Abort
  <2>2. /\ connClone' = connClone
        /\ connPhase'[c] = "free" /\ connApp'[c] = NoSock
        /\ \A d \in Conns : d # c =>
             connPhase'[d] = connPhase[d] /\ connApp'[d] = connApp[d]
    BY <2>1, FreedConns
  <2>3. /\ RingOK(q)'
        /\ Queued(q)' \subseteq Queued(q)
        /\ Queued(q) \ {c} \subseteq Queued(q)'
        /\ Distinct(q) => Distinct(q)'
        /\ Distinct(q) /\ c \in Queued(q)' =>
             c \in Queued(q) /\ (q.cur = RingSize \/ ~connClone[c])
    BY <1>0, <2>1, WithoutCloneRing
  <2>4. /\ \A t \in SockIds : sockState'[t] \in {sockState[t], "CLOSED_FAULT"}
        /\ \A t \in SockIds : sockState'[t] = "CONN" =>
             sockConn'[t] = sockConn[t] /\ t # connApp[c]
    BY <1>7 DEF Abort, NetSock_CloseFromConn, sockVars, NetServerTypeOK
  <2>5. PendingIsQueued'
    BY <1>1, <2>2, <2>3, <2>4
       DEF QueueInv, PendingIsQueued, Listening, NamesPending
  <2>6. ASSUME Orderly, ~missed' PROVE Orderly'
    <3>1. c \notin Queued(q)'
      BY <2>1, <2>3, <2>6 DEF Orderly, NamesPending
    <3>2. \A d \in Queued(q)' : NamesPending(d)'
      BY <1>0, <2>2, <2>3, <2>6, <3>1 DEF Orderly, NamesPending
    <3>3. \A t \in SockIds : sockState'[t] = "CONN" =>
            sockConn'[t] \in Conns /\ connApp'[sockConn'[t]] = t
      <4>. TAKE t \in SockIds
      <4>. HAVE sockState'[t] = "CONN"
      <4>1. sockState[t] = "CONN" /\ sockConn'[t] = sockConn[t] /\ t # connApp[c]
        BY <2>4
      <4>. QED
        BY <2>2, <2>6, <4>1 DEF Orderly
    <3>. QED
      BY <2>2, <2>3, <2>6, <3>2, <3>3 DEF Orderly
  <2>7. missed => missed'
    BY <2>1
  <2>. QED
    BY <1>2, <2>2, <2>3, <2>4, <2>5, <2>6, <2>7 DEF QueueInv
<1>. QED
  BY <1>3, <1>5, <1>6, <1>7 DEF StackSteps

LEMMA QueueStepSender ==
  ASSUME NetServerTypeOK, QueueInv, SenderConnects \/ SenderCloses
  PROVE  QueueInv'
<1>0. /\ RingOK(q) /\ q \in Queues
      /\ Queued(q) \subseteq Conns
  BY QueuedAreConns DEF QueueInv, NetServerTypeOK
<1>1. UNCHANGED <<sock_listen, missed>> /\ PreListen' = PreListen
  BY DEF SenderConnects, SenderCloses, taskVars, PreListen
<1>2. CASE SenderConnects
  <2>1. PICK s \in SockIds, c \in Conns :
          /\ sockState[s] = "FREE"
          /\ connPhase[c] = "free"
          /\ sockState' = [sockState EXCEPT ![s] = "CONN"]
          /\ sockConn' = [sockConn EXCEPT ![s] = c]
          /\ connPhase' = [connPhase EXCEPT ![c] = "established"]
          /\ connApp' = [connApp EXCEPT ![c] = s]
          /\ connClone' = [connClone EXCEPT ![c] = FALSE]
          /\ q' = IF s = sock_listen THEN ClearedQ ELSE q
    BY <1>2 DEF SenderConnects
  <2>2. /\ sockState'[s] = "CONN" /\ sockConn'[s] = c
        /\ \A t \in SockIds : t # s =>
             sockState'[t] = sockState[t] /\ sockConn'[t] = sockConn[t]
        /\ connPhase'[c] = "established" /\ connApp'[c] = s /\ ~connClone'[c]
        /\ \A d \in Conns : d # c => /\ connPhase'[d] = connPhase[d]
                                     /\ connApp'[d] = connApp[d]
                                     /\ connClone'[d] = connClone[d]
    BY <2>1 DEF NetServerTypeOK
  <2>3. RingOK(ClearedQ) /\ Distinct(ClearedQ) /\ Queued(ClearedQ) = {}
    BY ClearedType, EmptyRing DEF ClearedQ
  <2>4. /\ RingOK(q)' /\ (Distinct(q) => Distinct(q)')
        /\ Queued(q)' \subseteq Queued(q)
        /\ s # sock_listen => Queued(q)' = Queued(q)
    BY <1>0, <2>1, <2>3 DEF RingOK, Queued, Distinct, Entry, SlotOf
  <2>5. PendingIsQueued'
    BY <1>1, <2>2, <2>4 DEF QueueInv, PendingIsQueued, Listening, NamesPending
  <2>6. ASSUME Orderly PROVE Orderly'
    <3>1. c \notin Queued(q) /\ connApp[c] = NoSock
      BY <2>1, <2>6 DEF Orderly, NamesPending
    <3>2. \A t \in SockIds : sockState'[t] = "CONN" =>
            sockConn'[t] \in Conns /\ connApp'[sockConn'[t]] = t
      BY <2>2, <2>6, <3>1, NoSockAssumption DEF Orderly
    <3>3. \A d \in Queued(q)' : NamesPending(d)'
      BY <1>0, <2>2, <2>4, <2>6, <3>1 DEF Orderly, NamesPending
    <3>. QED
      BY <2>2, <2>4, <2>6, <3>2, <3>3 DEF Orderly
  <2>7. PreListen => /\ \A d \in Conns : ~connClone'[d]
                     /\ \A t \in SockIds : sockState'[t] # "LISTEN"
    BY <2>2 DEF QueueInv
  <2>. QED
    BY <1>1, <2>4, <2>5, <2>6, <2>7 DEF QueueInv
<1>3. CASE SenderCloses
  <2>1. /\ senderSock \in SockIds \union {NoSock} /\ CloseSocket(senderSock)
        /\ UNCHANGED <<q, missed>>
    BY <1>1, <1>3 DEF SenderCloses, queueVars, NetServerTypeOK
  <2>2. /\ \A c \in Conns : NamesPending(c)' => NamesPending(c)
        /\ \A t \in SockIds : sockState'[t] \in {sockState[t], "FREE"}
        /\ connClone' = connClone
        /\ Orderly => Orderly'
    BY <1>0, <2>1, CloseSocketQueue
  <2>3. PendingIsQueued'
    BY <1>1, <2>1, <2>2 DEF PendingIsQueued, Listening, QueueInv
  <2>4. RingOK(q)'
    BY <1>0, <2>1 DEF RingOK, Entry, SlotOf
  <2>. QED
    BY <1>1, <2>2, <2>3, <2>4 DEF QueueInv
<1>. QED
  BY <1>2, <1>3

LEMMA QueueStep ==
  ASSUME NetServerTypeOK, QueueInv, [Next]_vars
  PROVE  QueueInv'
<1>1. CASE ServerSteps
  BY <1>1, QueueStepServer
<1>2. CASE StackSteps
  BY <1>2, QueueStepStack
<1>3. CASE SenderConnects \/ SenderCloses
  BY <1>3, QueueStepSender
<1>4. CASE UNCHANGED <<sockVars, connVars, q, missed, sock_listen, at, listen_state>>
  <2>1. RingOK(q)' /\ (Orderly => Orderly')
    BY <1>4
       DEF QueueInv, Orderly, Distinct, RingOK, Entry, SlotOf, Queued,
           NamesPending, connVars, sockVars
  <2>2. PendingIsQueued'
    BY <1>4
       DEF QueueInv, PendingIsQueued, Listening, NamesPending, Queued, SlotOf,
           connVars, sockVars
  <2>. QED
    BY <1>4, <2>1, <2>2 DEF QueueInv, PreListen, sockVars, connVars
<1>. QED
  BY <1>1, <1>2, <1>3, <1>4
     DEF Next, vars, ErrSteps, ErrStore, ErrLoad, ErrInc, ErrCheck, ErrReset,
         AtErrLogWrite, OSTimeTick, SenderLogs, queueVars, taskVars

LEMMA InitQueue == Init => QueueInv
<1>. SUFFICES ASSUME Init PROVE QueueInv
  OBVIOUS
<1>1. RingOK(q) /\ Distinct(q) /\ Queued(q) = {}
  BY ClearedType, EmptyRing DEF Init, ClearedQ
<1>. QED
  BY <1>1
     DEF Init, SockInit, QueueInv, PendingIsQueued, NamesPending, Orderly

-----------------------------------------------------------------------------
(* The invariant and what follows from it.                                 *)

LEMMA Invariance == Spec => []IInv
<1>1. IInv /\ [Next]_vars => IInv'
  BY TypeStep, StateStep, WaitStep, LogStep, TokenStep, SocketStep DEF IInv
<1>. QED
  BY InitInv, <1>1, PTL DEF Spec

LEMMA QueueInvariance == Spec => []QueueInv
<1>1. NetServerTypeOK /\ QueueInv /\ [Next]_vars => QueueInv'
  BY QueueStep
<1>2. IInv => NetServerTypeOK
  BY DEF IInv
<1>. QED
  BY InitQueue, Invariance, <1>1, <1>2, PTL DEF Spec

(* Types: pools, queue, semaphore and counters stay in their ranges, and   *)
(* the receive timeouts are never counted past their limit.                *)
THEOREM TypeCorrect == Spec => []NetServerTypeOK
<1>1. IInv => NetServerTypeOK
  BY DEF IInv
<1>. QED
  BY Invariance, <1>1, PTL

(* AtNetConfigServerStart leaks no socket on any of its error paths, and   *)
(* nobody takes one from it.                                               *)
THEOREM NoSocketLost == Spec => []EverySocketHasItsUser
<1>1. IInv => EverySocketHasItsUser
  BY DEF IInv
<1>. QED
  BY Invariance, <1>1, PTL

(* After its first client the server is never back at its listener.        *)
THEOREM OneClient == Spec => []ServesOneClient
<1>1. IInv => ServesOneClient
  BY DEF IInv, ServerState, Serving, ServesOneClient, NetServerTypeOK, Places
<1>. QED
  BY Invariance, <1>1, PTL

(* NetSock_Accept never waits, or times out, beside a queued connection    *)
(* whose token was lost.                                                   *)
THEOREM TokensCoverQueue == Spec => []TokenForEach
<1>1. IInv => TokenForEach
  BY DEF IInv
<1>. QED
  BY Invariance, <1>1, PTL

(* At_Err_Log_Index passes the size of the log only when the sender logs   *)
(* between the server's increment and its reset.                           *)
THEOREM LogRace == Spec => LogLeftOnlyByRace
<1>1. IInv /\ [Next]_vars =>
        (errIndex <= ErrMax /\ errIndex' > ErrMax =>
           /\ errIndex = ErrMax
           /\ errAt \in {"check", "reset"} /\ errAt' = errAt)
  <2>. SUFFICES ASSUME IInv, [Next]_vars, errIndex <= ErrMax, errIndex' > ErrMax
                PROVE  /\ errIndex = ErrMax
                       /\ errAt \in {"check", "reset"} /\ errAt' = errAt
    OBVIOUS
  <2>1. NetServerTypeOK /\ LogIndex
    BY DEF IInv
  <2>. USE <2>1, ErrMaxAssumption, ErrBoundAssumption
       DEF NetServerTypeOK, LogIndex, ErrPlaces, Capped, AtErrLogWrite
  <2>2. CASE SenderLogs
    BY <2>2 DEF SenderLogs
  <2>3. CASE ErrInc
    BY <2>3 DEF ErrInc
  <2>4. CASE ErrReset
    BY <2>4 DEF ErrReset
  <2>5. CASE UNCHANGED errIndex
    BY <2>5
  <2>. QED
    BY <2>2, <2>3, <2>4, <2>5
       DEF Next, vars, ServerSteps, BindFails, ListenFails, ErrSteps, ErrStore,
           ErrLoad, ErrCheck, OSTimeTick, StackSteps, SynArrives,
           HandshakeDone, Abort, Drain, SenderConnects, SenderCloses,
           OpenSucceeds, OpenFails, BindSucceeds, ListenSucceeds, SetUpFails,
           AcceptPend, AcceptSignalled, AcceptTimesOut, AcceptFails,
           AcceptSucceeds, AcceptNoneAvail, Retry, RxData, RxFails, RxEmpty,
           CloseListener, LogError, errVars
<1>. QED
  BY Invariance, <1>1, PTL DEF Spec, LogLeftOnlyByRace

(* The server forgets no connection: what its listener has established     *)
(* and nobody accepted is in the queue, lost entries or not.               *)
THEOREM NoneForgotten == Spec => []PendingIsQueued
<1>1. QueueInv => PendingIsQueued
  BY DEF QueueInv
<1>. QED
  BY QueueInvariance, <1>1, PTL

(* The ids in the queue name pending connections, each once, as long as    *)
(* none was to be removed from a full ring: ConnAcceptQ_ConnID_Srch goes   *)
(* wrong there and nowhere else.                                           *)
THEOREM StaleOnlyWhenFull == Spec => []StaleOnlyAfterFullRing
<1>1. NetServerTypeOK /\ QueueInv => StaleOnlyAfterFullRing
  BY DistinctCount
     DEF QueueInv, Orderly, StaleOnlyAfterFullRing, QueueNamesPending,
         NetServerTypeOK
<1>2. IInv => NetServerTypeOK
  BY DEF IInv
<1>. QED
  BY QueueInvariance, Invariance, <1>1, <1>2, PTL

-----------------------------------------------------------------------------
(* The address table.  The number of high pins is the sum of the six bits. *)
LEMMA OnePinMore ==
  ASSUME NEW pins, NEW S, IsFiniteSet(S), NEW p, p \notin S
  PROVE  /\ IsFiniteSet(S \union {p})
         /\ Cardinality(pins \cap S) \in Nat
         /\ Cardinality(pins \cap (S \union {p}))
              = Cardinality(pins \cap S) + Bit(pins, p)
<1>1. IsFiniteSet(S \union {p})
  BY FS_AddElement
<1>2. IsFiniteSet(pins \cap S)
  BY FS_Intersection
<1>3. Cardinality(pins \cap S) \in Nat
  BY <1>2, FS_CardinalityType
<1>4. CASE p \in pins
  <2>1. pins \cap (S \union {p}) = (pins \cap S) \union {p} /\ p \notin pins \cap S
    BY <1>4
  <2>2. Cardinality((pins \cap S) \union {p}) = Cardinality(pins \cap S) + 1
    BY <1>2, <2>1, FS_AddElement
  <2>. QED
    BY <1>1, <1>3, <1>4, <2>1, <2>2 DEF Bit
<1>5. CASE p \notin pins
  <2>1. pins \cap (S \union {p}) = pins \cap S
    BY <1>5
  <2>2. Cardinality(pins \cap (S \union {p})) = Cardinality(pins \cap S)
    BY <2>1, Zenon
  <2>3. Bit(pins, p) = 0
    BY <1>5 DEF Bit
  <2>. QED
    BY <1>1, <1>3, <2>2, <2>3
<1>. QED
  BY <1>4, <1>5

LEMMA PinCount ==
  ASSUME NEW pins \in SUBSET Pins
  PROVE  Cardinality(pins) =
           Bit(pins, "AD0") + Bit(pins, "AD1") + Bit(pins, "AD2") + Bit(pins, "AD3")
             + Bit(pins, "AD4") + Bit(pins, "ADP")
<1>. DEFINE S1 == {} \union {"AD0"}
            S2 == S1 \union {"AD1"}
            S3 == S2 \union {"AD2"}
            S4 == S3 \union {"AD3"}
            S5 == S4 \union {"AD4"}
            S6 == S5 \union {"ADP"}
            N(S) == Cardinality(pins \cap S)
<1>1. IsFiniteSet({}) /\ N({}) = 0
  BY FS_EmptySet
<1>2. IsFiniteSet(S1) /\ N(S1) = N({}) + Bit(pins, "AD0")
  <2>1. "AD0" \notin {}
    OBVIOUS
  <2>. QED
    BY <1>1, <2>1, OnePinMore, Zenon
<1>3. IsFiniteSet(S2) /\ N(S2) = N(S1) + Bit(pins, "AD1")
  <2>1. "AD1" \notin S1
    OBVIOUS
  <2>. QED
    BY <1>2, <2>1, OnePinMore, Zenon
<1>4. IsFiniteSet(S3) /\ N(S3) = N(S2) + Bit(pins, "AD2")
  <2>1. "AD2" \notin S2
    OBVIOUS
  <2>. QED
    BY <1>3, <2>1, OnePinMore, Zenon
<1>5. IsFiniteSet(S4) /\ N(S4) = N(S3) + Bit(pins, "AD3")
  <2>1. "AD3" \notin S3
    OBVIOUS
  <2>. QED
    BY <1>4, <2>1, OnePinMore, Zenon
<1>6. IsFiniteSet(S5) /\ N(S5) = N(S4) + Bit(pins, "AD4")
  <2>1. "AD4" \notin S4
    OBVIOUS
  <2>. QED
    BY <1>5, <2>1, OnePinMore, Zenon
<1>7. IsFiniteSet(S6) /\ N(S6) = N(S5) + Bit(pins, "ADP")
  <2>1. "ADP" \notin S5
    OBVIOUS
  <2>. QED
    BY <1>6, <2>1, OnePinMore, Zenon
<1>8. pins \cap S6 = pins
  BY DEF Pins, AddressPins
<1>. HIDE DEF N
<1>9. N(S6) = Cardinality(pins)
  BY <1>8 DEF N
<1>10. \A p \in Pins : Bit(pins, p) \in {0, 1}
  BY DEF Bit
<1>. HIDE DEF S1, S2, S3, S4, S5, S6
<1>. QED
  BY <1>1, <1>2, <1>3, <1>4, <1>5, <1>6, <1>7, <1>9, <1>10 DEF Pins, AddressPins

Reads(pins, a) == Address(pins) = a /\ OddParity(pins)

LEMMA TableRows ==
  /\ \A i \in 1 .. 15 : Reads(Cases01To0F[i], i)
  /\ \A i \in 1 .. 16 : Reads(Cases10To1F[i], i + 15)
<1>. USE PinCount DEF Reads, Address, OddParity, Bit, Pins, AddressPins
<1>1. \A i \in 1 .. 15 : Reads(Cases01To0F[i], i)
  BY DEF Cases01To0F
<1>2. \A i \in 1 .. 16 : Reads(Cases10To1F[i], i + 15)
  BY DEF Cases10To1F
<1>. QED
  BY <1>1, <1>2

(* Each address the table has a case for, 1 to 31, is the one the terminal *)
(* reads after a request for it, with odd parity, from whatever the pins   *)
(* were: none of the 31 rows typed by hand is wrong.                       *)
THEOREM EveryRowIsRight == Spec => []EveryAddressIsRead
<1>1. ASSUME NEW pins, NEW a \in 1 .. 31
      PROVE  Reads(RTAddr_Config(pins, a), a)
  <2>1. CASE a \in 1 .. 15
    BY <2>1, TableRows DEF RTAddr_Config
  <2>2. CASE a \in 16 .. 31
    <3>1. a - 15 \in 1 .. 16 /\ (a - 15) + 15 = a /\ a \notin 1 .. 15
      BY <2>2
    <3>2. RTAddr_Config(pins, a) = Cases10To1F[a - 15]
      BY <2>2, <3>1 DEF RTAddr_Config
    <3>. QED
      BY <3>1, <3>2, TableRows
  <2>. QED
    BY <2>1, <2>2
<1>2. EveryAddressIsRead
  BY <1>1 DEF EveryAddressIsRead, Reads
<1>. QED
  BY <1>2, PTL
=============================================================================
