------------------------------- MODULE NetSock -------------------------------
(***************************************************************************)
(* The BSD-like socket calls of uC/TCP-IP (uC-TCPIP/Source/net_sock.c) in  *)
(* the blocking configuration of net_cfg.h, as far as a TCP client task    *)
(* sees them: the state of every socket of the pool and, per call, the     *)
(* outcomes a caller must be ready for, and the calls of a TCP server.  A  *)
(* blocking call is one step, although NetSock_Conn, NetSock_RxData and    *)
(* NetSock_Close give the network lock back while they wait: the socket    *)
(* has a single user, and what others do meanwhile comes before the step   *)
(* or after it.  NetSock_Accept, where that is not so, is taken apart in   *)
(* NetServer.                                                              *)
(***************************************************************************)
EXTENDS Naturals

CONSTANTS
  SockIds,   \* the pool: 0 .. NET_SOCK_CFG_NBR_SOCK - 1
  NoSock     \* NET_SOCK_ID_NONE, or any number that names no socket

ASSUME NoSockAssumption == NoSock \notin SockIds

VARIABLE sockState   \* NET_SOCK.State of every socket

(* The states a caller finds between two of its calls.  CONN_IN_PROGRESS,  *)
(* CONN_DONE, CLOSE_IN_PROGRESS and CLOSING_DATA_AVAIL stand only inside a *)
(* NetSock_Conn or NetSock_Close that waits; both leave another state.     *)
SockStates == {"FREE", "CLOSED", "BOUND", "LISTEN", "CONN", "CLOSED_FAULT"}

SockInit == sockState = [s \in SockIds |-> "FREE"]

Connected(id) == id \in SockIds /\ sockState[id] = "CONN"

(* A free socket of the pool is taken.  NetSock_Open may also fail, with   *)
(* the pool unchanged: the caller's disjunct.                              *)
NetSock_Open(id) ==
  /\ sockState[id] = "FREE"
  /\ sockState' = [sockState EXCEPT ![id] = "CLOSED"]

(* Only a socket that is closed or bound can connect.                      *)
NetSock_ConnSucceeds(id) ==
  /\ sockState[id] \in {"CLOSED", "BOUND"}
  /\ sockState' = [sockState EXCEPT ![id] = "CONN"]

(* A failed connect leaves the socket bound (timeout), faulted, or as it   *)
(* was (the call was refused).                                             *)
NetSock_ConnFails(id) ==
  \/ UNCHANGED sockState
  \/ /\ sockState[id] \in {"CLOSED", "BOUND"}
     /\ \E s \in {"BOUND", "CLOSED_FAULT"} :
          sockState' = [sockState EXCEPT ![id] = s]

(* A closed socket is bound, a bound socket listens.  When either call     *)
(* fails the socket stays as it was: the caller's disjunct.                *)
NetSock_Bind(id) ==
  /\ sockState[id] = "CLOSED"
  /\ sockState' = [sockState EXCEPT ![id] = "BOUND"]

NetSock_Listen(id) ==
  /\ sockState[id] = "BOUND"
  /\ sockState' = [sockState EXCEPT ![id] = "LISTEN"]

(* The end of NetSock_Accept: a free socket becomes the accepted one.      *)
NetSock_AcceptSock(id) ==
  /\ sockState[id] = "FREE"
  /\ sockState' = [sockState EXCEPT ![id] = "CONN"]

(* Closing frees the socket; on an id that names no used socket the call   *)
(* only returns an error.                                                  *)
NetSock_Close(id) ==
  IF id \in SockIds
  THEN sockState' = [sockState EXCEPT ![id] = "FREE"]
  ELSE UNCHANGED sockState

(* The connection aborts under the socket (NetSock_CloseFromConn): the     *)
(* socket stays allocated until its user closes it.                        *)
NetSock_CloseFromConn(id) ==
  /\ sockState[id] = "CONN"
  /\ sockState' = [sockState EXCEPT ![id] = "CLOSED_FAULT"]

(* What NetSock_TxData returns: the whole length, part of it, or -1.  Only *)
(* a connected socket sends; even there a transmit may fail with -1.       *)
TxResults(id) ==
  IF Connected(id) THEN {"all", "part", "error"} ELSE {"error"}
=============================================================================
