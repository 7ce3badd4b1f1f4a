------------------------------ MODULE NetServer ------------------------------
(***************************************************************************)
(* The network configuration server, AtNetConfigServerStart of             *)
(* apps/at_task.c, over the sockets, connections and accept queue of       *)
(* uC/TCP-IP and the semaphore that signals the queue.                     *)
(*                                                                         *)
(* The stack runs under a network lock that no caller keeps while it       *)
(* waits.  NetSock_Accept, whose wait others take part in, is three steps: *)
(* pend, wake up, take the oldest connection.  Every other call is one,    *)
(* also a close or a receive that waits: see CloseSocket and RxData.       *)
(* Beside the server run the stack's own tasks (handshakes, resets,        *)
(* timeouts), the tick, and the sender task with its own socket.  The      *)
(* sender has the higher priority and may preempt the server at any step,  *)
(* also in the middle of AtErrLogWrite.                                    *)
(***************************************************************************)
EXTENDS Integers, FiniteSets, NetSock, OSSem, AcceptQ, RTAddr

CONSTANTS
  ServerPrio,   \* AT_NETCONFIG_TASK_PRIO
  ListenSize,   \* TCP_SERVER_CONN_Q_SIZE: 16, more than the ring has slots
  IdleMax,      \* receive timeouts after which a client is given up: 3
  ErrMax,       \* AT_ERR_MAX_NUM: slots of the error log
  ErrBound,     \* bound of the model on the index that left the log
  Requests      \* address bytes of the requests the client sends

ASSUME ServerPrioAssumption == ServerPrio \in Nat
ASSUME ListenSizeAssumption == ListenSize \in Nat \ {0}
ASSUME IdleMaxAssumption == IdleMax \in Nat \ {0}
ASSUME ErrMaxAssumption == ErrMax \in Nat \ {0}
ASSUME ErrBoundAssumption == ErrBound \in Nat /\ ErrBound > ErrMax
ASSUME RequestsAssumption == Requests \subseteq 0 .. 255

VARIABLES
  sockConn,      \* NET_SOCK.ID_Conn of every socket
  connPhase,     \* of every connection of the pool, see Phases
  connApp,       \* NET_CONN.ID_App: the socket it was accepted for
  connClone,     \* NET_CONN.ID_AppClone names the listening socket
  q,             \* the accept queue of the socket sock_listen
  pendTimeout,   \* OSTCBStatPend of the server task is OS_STAT_PEND_TO
  at,            \* where the server task is
  sock_listen,
  sock_req,
  listen_state,
  idle_count,
  rtPins,        \* the address pins of the terminal
  errAt,         \* where in AtErrLogWrite the server task is
  errReg,        \* the index it has read for the increment
  errIndex,      \* At_Err_Log_Index
  senderSock,    \* external: the socket of the sender task
  \* History, read by no guard:
  missed         \* a connection aborted while the ring it was in was full

sockVars == <<sockState, sockConn>>
connVars == <<connPhase, connApp, connClone>>
queueVars == <<q, semVars, pendTimeout>>
taskVars == <<at, sock_listen, sock_req, listen_state, idle_count, rtPins>>
errVars == <<errAt, errReg, errIndex>>
vars == <<sockVars, connVars, queueVars, taskVars, errVars, senderSock, missed>>

(* A connection object is free, in its handshake, established, or closed   *)
(* by its application and still closing on the wire.                       *)
Phases == {"free", "handshake", "established", "closing"}

Places == {"delay", "bind", "listen", "accept", "acceptWait", "acceptGet",
           "retry", "rx", "close"}
ErrPlaces == {"none", "store", "load", "inc", "check", "reset"}

Init ==
  /\ SockInit
  /\ sockConn = [s \in SockIds |-> NoConn]
  /\ connPhase = [c \in Conns |-> "free"]
  /\ connApp = [c \in Conns |-> NoSock]
  /\ connClone = [c \in Conns |-> FALSE]
  /\ q = ClearedQ
  /\ OSSemCreate(0)
  /\ pendTimeout = FALSE
  /\ at = "delay"
  /\ sock_listen = NoSock
  /\ sock_req = NoSock
  /\ listen_state = 1
  /\ idle_count = 0
  /\ rtPins = {}
  /\ errAt = "none"
  /\ errReg = 0
  /\ errIndex = 0
  /\ senderSock = NoSock
  /\ missed = FALSE

-----------------------------------------------------------------------------
(* Connections.                                                            *)

(* NetConn_CloseFromApp(_, DEF_YES): transport and application ids are     *)
(* cleared and the object is freed, whatever it is used for by now.        *)
NetConn_CloseFromApp(S) ==
  /\ connPhase' = [c \in Conns |-> IF c \in S THEN "free" ELSE connPhase[c]]
  /\ connApp' = [c \in Conns |-> IF c \in S THEN NoSock ELSE connApp[c]]
  /\ UNCHANGED connClone

(* Closing a connected socket asks the peer to close and waits a second:   *)
(* after that the connection is closing, or it is freed at once.           *)
CloseConnOf(s) ==
  LET c == sockConn[s]
  IN IF s \in SockIds /\ sockState[s] = "CONN" /\ connPhase[c] # "free"
     THEN /\ \E p \in {"free", "closing"} :
               connPhase' = [connPhase EXCEPT ![c] = p]
          /\ connApp' = [connApp EXCEPT ![c] = NoSock]
          /\ UNCHANGED connClone
     ELSE UNCHANGED connVars

(* While it waits the socket is CLOSE_IN_PROGRESS, out of use but not yet  *)
(* free.  That is as if it were closed already and the pool were short of  *)
(* one more: an open may fail at any time, a connection may abort before   *)
(* or after, and a listener that is closing queues nothing.                *)
CloseSocket(s) ==
  /\ NetSock_Close(s)
  /\ CloseConnOf(s)
  /\ sockConn' = [r \in SockIds |-> IF r = s THEN NoConn ELSE sockConn[r]]

FreeConns == {c \in Conns : connPhase[c] = "free"}
Listening == sock_listen \in SockIds /\ sockState[sock_listen] = "LISTEN"

-----------------------------------------------------------------------------
(* The error log.  AtErrLogWrite has no critical section.                  *)

ServerRuns(place) == at = place /\ errAt = "none"

LogError ==
  /\ errAt' = "store"
  /\ UNCHANGED <<errReg, errIndex>>

Capped(i) == IF i > ErrBound THEN ErrBound ELSE i

AtErrLogWrite(from, to) ==
  /\ errAt = from
  /\ errAt' = to
  /\ UNCHANGED <<sockVars, connVars, queueVars, taskVars, senderSock, missed>>

ErrStore ==
  /\ AtErrLogWrite("store", "load")
  /\ UNCHANGED <<errReg, errIndex>>
ErrLoad ==
  /\ AtErrLogWrite("load", "inc")
  /\ errReg' = errIndex
  /\ UNCHANGED errIndex
ErrInc ==
  /\ AtErrLogWrite("inc", "check")
  /\ errIndex' = Capped(errReg + 1)
  /\ errReg' = 0
(* Mutant: the index wraps one slot too late.                              *)
ErrCheck_TooLate ==
  /\ AtErrLogWrite("check", IF errIndex > ErrMax THEN "reset" ELSE "none")
  /\ UNCHANGED <<errReg, errIndex>>
ErrCheck ==
  /\ AtErrLogWrite("check", IF errIndex = ErrMax THEN "reset" ELSE "none")
  /\ UNCHANGED <<errReg, errIndex>>
ErrReset ==
  /\ AtErrLogWrite("reset", "none")
  /\ errIndex' = 0
  /\ UNCHANGED errReg

ErrSteps == ErrStore \/ ErrLoad \/ ErrInc \/ ErrCheck \/ ErrReset

(* The sender task logs an error: a whole write, for it is not preempted.  *)
SenderLogs ==
  /\ errIndex' = IF errIndex + 1 = ErrMax THEN 0 ELSE Capped(errIndex + 1)
  /\ UNCHANGED <<errAt, errReg, sockVars, connVars, queueVars, taskVars,
                 senderSock, missed>>

-----------------------------------------------------------------------------
(* The server task: open, bind, listen.  A failure is logged and tried     *)
(* again after the delay.                                                  *)

ServerGoes(from, to) ==
  /\ ServerRuns(from)
  /\ at' = to

OpenSucceeds ==
  \E s \in SockIds :
    /\ listen_state = 1
    /\ ServerGoes("delay", "bind")
    /\ NetSock_Open(s)
    /\ sock_listen' = s
    /\ q' = ClearedQ
    /\ UNCHANGED <<sockConn, connVars, semVars, pendTimeout, sock_req,
                   listen_state, idle_count, rtPins, errVars, senderSock,
                   missed>>

OpenFails ==
  /\ listen_state = 1
  /\ ServerGoes("delay", "delay")
  /\ sock_listen' = NoSock
  /\ LogError
  /\ UNCHANGED <<sockVars, connVars, queueVars, sock_req, listen_state,
                 idle_count, rtPins, senderSock, missed>>

BindSucceeds ==
  /\ ServerGoes("bind", "listen")
  /\ NetSock_Bind(sock_listen)
  /\ UNCHANGED <<sockConn, connVars, queueVars, sock_listen, sock_req,
                 listen_state, idle_count, rtPins, errVars, senderSock,
                 missed>>

(* Mutant: the socket is not closed when it cannot be bound.               *)
SetUpFails_KeepsSocket(place) ==
  /\ ServerGoes(place, "delay")
  /\ LogError
  /\ UNCHANGED <<sockVars, connVars, queueVars, sock_listen, sock_req,
                 listen_state, idle_count, rtPins, senderSock, missed>>

(* NetSock_Bind or NetSock_Listen fails.                                   *)
SetUpFails(place) ==
  /\ ServerGoes(place, "delay")
  /\ CloseSocket(sock_listen)
  /\ LogError
  /\ UNCHANGED <<queueVars, sock_listen, sock_req, listen_state, idle_count,
                 rtPins, senderSock, missed>>

BindFails == SetUpFails("bind")
ListenFails == SetUpFails("listen")

ListenSucceeds ==
  /\ ServerGoes("listen", "accept")
  /\ NetSock_Listen(sock_listen)
  /\ q' = ConnAcceptQ_Init(q, ListenSize)
  /\ UNCHANGED <<sockConn, connVars, semVars, pendTimeout, sock_listen,
                 sock_req, listen_state, idle_count, rtPins, errVars,
                 senderSock, missed>>

-----------------------------------------------------------------------------
(* NetSock_Accept.                                                         *)

AcceptPend ==
  /\ ServerGoes("accept", IF OSEventCnt > 0 THEN "acceptGet" ELSE "acceptWait")
  /\ OSSemPend(ServerPrio)
  /\ UNCHANGED <<sockVars, connVars, q, pendTimeout, sock_listen, sock_req,
                 listen_state, idle_count, rtPins, errVars, senderSock,
                 missed>>

(* The tick ends the wait, a post made before the task runs undoes that.   *)
OSTimeTick ==
  /\ ServerPrio \in OSEventGrp
  /\ ~pendTimeout
  /\ pendTimeout' = TRUE
  /\ UNCHANGED <<sockVars, connVars, q, semVars, taskVars, errVars,
                 senderSock, missed>>

AcceptSignalled ==
  /\ ServerGoes("acceptWait", "acceptGet")
  /\ GotToken(ServerPrio)
  /\ UNCHANGED <<sockVars, connVars, queueVars, sock_listen, sock_req,
                 listen_state, idle_count, rtPins, errVars, senderSock,
                 missed>>

(* Mutant: after a timeout the task is left in the wait list.              *)
AcceptTimesOut_StaysInList ==
  /\ ServerGoes("acceptWait", "retry")
  /\ pendTimeout
  /\ ~GotToken(ServerPrio)
  /\ pendTimeout' = FALSE
  /\ UNCHANGED <<sockVars, connVars, q, semVars, sock_listen, sock_req,
                 listen_state, idle_count, rtPins, errVars, senderSock,
                 missed>>

AcceptTimesOut ==
  /\ ServerGoes("acceptWait", "retry")
  /\ pendTimeout
  /\ ~GotToken(ServerPrio)
  /\ OS_EventTaskRemove(ServerPrio)
  /\ pendTimeout' = FALSE
  /\ UNCHANGED <<sockVars, connVars, q, sock_listen, sock_req, listen_state,
                 idle_count, rtPins, errVars, senderSock, missed>>

(* The token was left behind by a connection that is gone.                 *)
AcceptNoneAvail ==
  /\ ServerGoes("acceptGet", "retry")
  /\ q.cur < 1
  /\ UNCHANGED <<sockVars, connVars, queueVars, sock_listen, sock_req,
                 listen_state, idle_count, rtPins, errVars, senderSock,
                 missed>>

WithoutClone(queue, c) ==
  IF connClone[c] THEN ConnAcceptQ_Remove(queue, c) ELSE queue

(* The oldest connection has no transport any more, or there is no socket  *)
(* for it.  Only the first is an error the server logs.                    *)
AcceptFails ==
  /\ q.cur > 0
  /\ LET c == Front(q)
     IN /\ \/ /\ connPhase[c] = "free"
              /\ ServerGoes("acceptGet", "accept")
              /\ LogError
           \/ /\ connPhase[c] # "free"
              /\ \A s \in SockIds : sockState[s] # "FREE"
              /\ ServerGoes("acceptGet", "retry")
              /\ UNCHANGED errVars
        /\ q' = WithoutClone(ConnAcceptQ_Get(q), c)
        /\ NetConn_CloseFromApp({c})
  /\ sock_req' = NoSock
  /\ UNCHANGED <<sockVars, semVars, pendTimeout, sock_listen, listen_state,
                 idle_count, rtPins, senderSock, missed>>

AcceptSucceeds ==
  \E s \in SockIds :
    /\ q.cur > 0
    /\ ServerGoes("acceptGet", "rx")
    /\ LET c == Front(q)
       IN /\ connPhase[c] # "free"
          /\ NetSock_AcceptSock(s)
          /\ sockConn' = [sockConn EXCEPT ![s] = c]
          /\ connApp' = [connApp EXCEPT ![c] = s]
    /\ q' = ConnAcceptQ_Get(q)
    /\ sock_req' = s
    /\ UNCHANGED <<connPhase, connClone, semVars, pendTimeout, sock_listen,
                   listen_state, idle_count, rtPins, errVars, senderSock,
                   missed>>

Retry ==
  /\ ServerGoes("retry", "accept")
  /\ UNCHANGED <<sockVars, connVars, queueVars, sock_listen, sock_req,
                 listen_state, idle_count, rtPins, errVars, senderSock,
                 missed>>

-----------------------------------------------------------------------------
(* Receiving requests on the accepted socket.                              *)

ReqOpen(phases) ==
  Connected(sock_req) /\ connPhase[sockConn[sock_req]] \in phases

(* A receive error, or the end of the peer's stream.                       *)
RxFails ==
  /\ ServerGoes("rx", "close")
  /\ CloseSocket(sock_req)
  /\ LogError
  /\ UNCHANGED <<queueVars, sock_listen, sock_req, listen_state, idle_count,
                 rtPins, senderSock, missed>>

(* Nothing came within the receive timeout.                                *)
RxEmpty ==
  /\ ReqOpen({"handshake", "established"})
  /\ idle_count' = idle_count + 1
  /\ IF idle_count + 1 >= IdleMax
     THEN /\ ServerGoes("rx", "close")
          /\ CloseSocket(sock_req)
          /\ LogError
     ELSE /\ ServerGoes("rx", "rx")
          /\ UNCHANGED <<sockVars, connVars, errVars>>
  /\ UNCHANGED <<queueVars, sock_listen, sock_req, listen_state, rtPins,
                 senderSock, missed>>

(* A request: the one that disguises the terminal sets its address pins,   *)
(* the others leave them alone.  The byte it takes for the address is      *)
(* whatever the buffer holds there.  The step is the end of the call: what *)
(* happens to the connection during its wait happens before the step, and  *)
(* decides between RxData, RxEmpty and RxFails.                            *)
RxData ==
  /\ ServerGoes("rx", "rx")
  /\ ReqOpen({"established"})
  /\ idle_count' = 0
  /\ \/ \E a \in Requests : rtPins' = RTAddr_Config(rtPins, a)
     \/ UNCHANGED rtPins
  /\ UNCHANGED <<sockVars, connVars, queueVars, sock_listen, sock_req,
                 listen_state, errVars, senderSock, missed>>

(* Mutant: the task listens again after its first client.                  *)
CloseListener_ListensAgain ==
  /\ ServerGoes("close", "delay")
  /\ NetSock_Close(sock_listen)
  /\ NetConn_CloseFromApp(Queued(q))
  /\ q' = ConnAcceptQ_Clr(q)
  /\ OSSemClear
  /\ UNCHANGED <<sockConn, pendTimeout, sock_listen, sock_req, listen_state,
                 idle_count, rtPins, errVars, senderSock, missed>>

(* After the first client the listener is closed, and with it the          *)
(* connections that wait in its queue.  The task goes on, but only delays. *)
CloseListener ==
  /\ ServerGoes("close", "delay")
  /\ NetSock_Close(sock_listen)
  /\ NetConn_CloseFromApp(Queued(q))
  /\ q' = ConnAcceptQ_Clr(q)
  /\ OSSemClear
  /\ listen_state' = 0
  /\ UNCHANGED <<sockConn, pendTimeout, sock_listen, sock_req, idle_count,
                 rtPins, errVars, senderSock, missed>>

ServerSteps ==
  \/ OpenSucceeds \/ OpenFails \/ BindSucceeds \/ BindFails
  \/ ListenSucceeds \/ ListenFails
  \/ AcceptPend \/ AcceptSignalled \/ AcceptTimesOut \/ AcceptNoneAvail
  \/ AcceptFails \/ AcceptSucceeds \/ Retry
  \/ RxFails \/ RxEmpty \/ RxData \/ CloseListener

-----------------------------------------------------------------------------
(* The stack's own tasks.                                                  *)

(* A connection request gets a connection object, cloned for the listening *)
(* socket, only while its queue is not full.                               *)
SynArrives(c) ==
  /\ Listening
  /\ ConnAcceptQ_IsAvail(q)
  /\ connPhase[c] = "free"
  /\ connPhase' = [connPhase EXCEPT ![c] = "handshake"]
  /\ connApp' = [connApp EXCEPT ![c] = NoSock]
  /\ connClone' = [connClone EXCEPT ![c] = TRUE]
  /\ UNCHANGED <<sockVars, queueVars, taskVars, errVars, senderSock, missed>>

(* The handshake ends.  The queue may be full by now: the connection is    *)
(* closed.  The semaphore may overflow: so is every queued connection.     *)
HandshakeDone(c) ==
  /\ connPhase[c] = "handshake"
  /\ IF ~ConnAcceptQ_IsAvail(q)
     THEN /\ NetConn_CloseFromApp({c})
          /\ q' = WithoutClone(q, c)
          /\ UNCHANGED <<semVars, pendTimeout>>
     ELSE /\ OSSemPost
          /\ pendTimeout' = (pendTimeout /\ OSEventGrp = {})
          /\ IF PostOverflows
             THEN /\ NetConn_CloseFromApp(Queued(q) \union {c})
                  /\ q' = ConnAcceptQ_Clr(q)
             ELSE /\ connPhase' = [connPhase EXCEPT ![c] = "established"]
                  /\ q' = ConnAcceptQ_Add(q, c)
                  /\ UNCHANGED <<connApp, connClone>>
  /\ UNCHANGED <<sockVars, taskVars, errVars, senderSock, missed>>

(* NetConn_CloseFromTransport: a reset, or too many retransmissions.  The  *)
(* connection leaves the accept queue it may be in, and the socket it was  *)
(* accepted for is closed under its user.                                  *)
Abort(c) ==
  LET s == connApp[c]
  IN /\ connPhase[c] \in {"handshake", "established"}
     /\ IF s \in SockIds /\ sockState[s] = "CONN"
        THEN /\ NetSock_CloseFromConn(s)
             /\ sockConn' = [sockConn EXCEPT ![s] = NoConn]
        ELSE UNCHANGED sockVars
     /\ q' = WithoutClone(q, c)
     /\ missed' = (missed \/ (q.cur = RingSize /\ c \in Queued(q)))
     /\ NetConn_CloseFromApp({c})
     /\ UNCHANGED <<semVars, pendTimeout, taskVars, errVars, senderSock>>

(* A connection its application has closed is done on the wire as well.    *)
Drain(c) ==
  /\ connPhase[c] = "closing"
  /\ NetConn_CloseFromApp({c})
  /\ \/ UNCHANGED q
     \/ q' = WithoutClone(q, c)
  /\ UNCHANGED <<sockVars, semVars, pendTimeout, taskVars, errVars,
                 senderSock, missed>>

StackSteps ==
  \E c \in Conns : SynArrives(c) \/ HandshakeDone(c) \/ Abort(c) \/ Drain(c)

-----------------------------------------------------------------------------
(* The sender task uses the same pools for its own connection.             *)

SenderConnects ==
  \E s \in SockIds, c \in Conns :
    /\ senderSock = NoSock
    /\ sockState[s] = "FREE"
    /\ connPhase[c] = "free"
    /\ sockState' = [sockState EXCEPT ![s] = "CONN"]
    /\ sockConn' = [sockConn EXCEPT ![s] = c]
    /\ connPhase' = [connPhase EXCEPT ![c] = "established"]
    /\ connApp' = [connApp EXCEPT ![c] = s]
    /\ connClone' = [connClone EXCEPT ![c] = FALSE]
    /\ q' = IF s = sock_listen THEN ClearedQ ELSE q
    /\ senderSock' = s
    /\ UNCHANGED <<semVars, pendTimeout, taskVars, errVars, missed>>

SenderCloses ==
  /\ senderSock # NoSock
  /\ CloseSocket(senderSock)
  /\ senderSock' = NoSock
  /\ UNCHANGED <<queueVars, taskVars, errVars, missed>>

Next ==
  \/ ServerSteps
  \/ ErrSteps
  \/ OSTimeTick
  \/ StackSteps
  \/ SenderConnects
  \/ SenderCloses
  \/ SenderLogs

Spec == Init /\ [][Next]_vars

-----------------------------------------------------------------------------
(* Properties.                                                             *)

NetServerTypeOK ==
  /\ sockState \in [SockIds -> SockStates]
  /\ sockConn \in [SockIds -> Conns \union {NoConn}]
  /\ connPhase \in [Conns -> Phases]
  /\ connApp \in [Conns -> SockIds \union {NoSock}]
  /\ connClone \in [Conns -> BOOLEAN]
  /\ q \in Queues
  /\ OSEventCnt \in 0 .. SemMax
  /\ OSEventGrp \subseteq {ServerPrio}
  /\ pendTimeout \in BOOLEAN
  /\ at \in Places
  /\ {sock_listen, sock_req, senderSock} \subseteq SockIds \union {NoSock}
  /\ listen_state \in {0, 1}
  /\ idle_count \in 0 .. IdleMax
  /\ rtPins \subseteq Pins
  /\ errAt \in ErrPlaces
  /\ errReg \in 0 .. ErrBound
  /\ errIndex \in 0 .. ErrBound
  /\ missed \in BOOLEAN

(* Every socket in use belongs to a task that will close it: the listener  *)
(* between its opening and its closing, the accepted socket while the      *)
(* server receives on it, and the sender's.  No error path of the server   *)
(* leaks one, and nothing takes a socket from under its user.              *)
EverySocketHasItsUser ==
  LET listener == IF at \in Places \ {"delay"} THEN {sock_listen} ELSE {}
      request == IF at = "rx" THEN {sock_req} ELSE {}
      sender == IF senderSock = NoSock THEN {} ELSE {senderSock}
  IN /\ {s \in SockIds : sockState[s] # "FREE"}
          = listener \union request \union sender
     /\ listener \intersect (request \union sender) = {}
     /\ request \intersect sender = {}

(* A queued id names a connection that was not accepted yet.               *)
NamesPending(c) ==
  connPhase[c] = "established" /\ connClone[c] /\ connApp[c] = NoSock

(* What NetSock_FreeConnFromSock says (net_sock.c:1228): a connection that *)
(* goes away leaves the queue, so every id in the queue names a connection *)
(* that is pending, and names it once.                                     *)
QueueNamesPending ==
  /\ \A c \in Queued(q) : NamesPending(c)
  /\ Cardinality(Queued(q)) = q.cur

(* That holds as long as no connection was lost from a full ring.          *)
StaleOnlyAfterFullRing == ~missed => QueueNamesPending

(* A connection the listener has established waits in its queue until it   *)
(* is accepted: no handshake, timeout or reset makes the server forget it. *)
PendingIsQueued ==
  Listening => \A c \in Conns : NamesPending(c) => c \in Queued(q)

(* There is a token for every queued connection: counted, or handed to the *)
(* server that is on its way to the queue.  A timeout that races a post    *)
(* loses none.                                                             *)
TokenForEach ==
  LET handedOut == \/ at = "acceptGet"
                   \/ at = "acceptWait" /\ GotToken(ServerPrio)
  IN q.cur <= OSEventCnt + IF handedOut THEN 1 ELSE 0

(* The index of the error log leaves the log, and is never reset again,    *)
(* only if the sender logs an error in the moment between the server's     *)
(* increment to the size of the log and its reset.                         *)
LogLeftOnlyByRace ==
  [][errIndex <= ErrMax /\ errIndex' > ErrMax =>
       /\ errIndex = ErrMax
       /\ errAt \in {"check", "reset"} /\ errAt' = errAt]_vars

(* Whatever was configured before, each address of the table, 1 to 31, is  *)
(* the one the terminal reads from its pins once a client asks for it,     *)
(* with the odd parity it checks.  The table has no case for 0: a request  *)
(* for it leaves the old address on the pins.                              *)
EveryAddressIsRead ==
  at = "rx" =>
    \A a \in 1 .. 31 : LET pins == RTAddr_Config(rtPins, a)
                       IN Address(pins) = a /\ OddParity(pins)

(* One client is served: once one was accepted, the server is receiving    *)
(* from it or closing its listener, or it has stopped for good.            *)
ServesOneClient ==
  sock_req # NoSock =>
    \/ at \in {"rx", "close"}
    \/ at = "delay" /\ listen_state = 0
=============================================================================
