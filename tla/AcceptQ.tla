------------------------------- MODULE AcceptQ -------------------------------
(***************************************************************************)
(* The accept queue of a listening socket (uC-TCPIP/Source/net_sock.c): a  *)
(* ring of connection ids with a head, a tail and a count.  NetTCP adds a  *)
(* connection when its handshake ends, NetSock_Accept gets the oldest, and *)
(* a connection that aborts before it is accepted is removed from where it *)
(* stands.  All calls hold the network lock; they are operators on a       *)
(* record, for the module that owns the socket.                            *)
(*                                                                         *)
(* A slot outside the queue holds NoConn here and its last id in the code, *)
(* which reads no such slot.                                               *)
(***************************************************************************)
EXTENDS Integers

CONSTANTS
  RingSize,   \* NET_SOCK_CFG_CONN_ACCEPT_Q_SIZE_MAX, 5 in net_cfg.h
  Conns,      \* the ids of the connection pool (NetConn_Tbl)
  NoConn      \* NET_CONN_ID_NONE

ASSUME RingSizeAssumption == RingSize \in Nat \ {0}
ASSUME NoConnAssumption == NoConn \notin Conns

Slots == 0 .. RingSize - 1

Queues == [ids : [Slots -> Conns \union {NoConn}], head : Slots, tail : Slots,
           cur : 0 .. RingSize, max : 0 .. RingSize]

(* Mutant: the index wraps one slot too late.                              *)
Wrapped_TooLate(ix) == IF ix > RingSize THEN ix - RingSize ELSE ix

(* Indices advance by one and wrap at the end of the ring.                 *)
Wrapped(ix) == IF ix >= RingSize THEN ix - RingSize ELSE ix

(* NetSock_Clr: the queue of a socket that is free or newly opened.        *)
ClearedQ ==
  [ids |-> [i \in Slots |-> NoConn], head |-> 0, tail |-> 0, cur |-> 0,
   max |-> 0]

(* NetSock_Listen caps the size it is asked for at the size of the ring.   *)
ConnAcceptQ_Init(q, size) ==
  [q EXCEPT !.max = IF size > RingSize THEN RingSize ELSE size]

ConnAcceptQ_IsAvail(q) == q.cur < q.max

ConnAcceptQ_Add(q, c) ==
  [q EXCEPT !.ids[q.tail] = c,
            !.tail = Wrapped(q.tail + 1),
            !.cur = q.cur + 1]

Front(q) == q.ids[q.head]

(* Mutant: the head does not wrap but stays at the last slot.              *)
ConnAcceptQ_Get_NoWrap(q) ==
  [q EXCEPT !.ids[q.head] = NoConn,
            !.head = IF q.head + 1 < RingSize THEN q.head + 1 ELSE q.head,
            !.cur = q.cur - 1]

ConnAcceptQ_Get(q) ==
  [q EXCEPT !.ids[q.head] = NoConn,
            !.head = Wrapped(q.head + 1),
            !.cur = q.cur - 1]

(* The slot of the n-th entry, the oldest being entry 0.                   *)
SlotOf(q, n) == Wrapped(q.head + n)

Queued(q) == {q.ids[SlotOf(q, n)] : n \in 0 .. q.cur - 1}

(* ConnAcceptQ_ConnID_Srch walks from the head and stops at the tail, even *)
(* before it has looked at an entry: the entries at which it finds c.      *)
Srch(q, c) ==
  {n \in 0 .. q.cur - 1 :
     /\ q.ids[SlotOf(q, n)] = c
     /\ \A m \in 0 .. n : SlotOf(q, m) # q.tail}

(* The entries behind entry n move up by one, and the tail moves back.     *)
WithoutEntry(q, n) ==
  LET last == SlotOf(q, q.cur - 1)
      moves(s) == \E k \in n .. q.cur - 2 : s = SlotOf(q, k)
  IN [q EXCEPT
        !.ids = [s \in Slots |-> IF s = last THEN NoConn
                                 ELSE IF moves(s) THEN q.ids[Wrapped(s + 1)]
                                 ELSE q.ids[s]],
        !.tail = IF q.tail = 0 THEN RingSize - 1 ELSE q.tail - 1,
        !.cur = q.cur - 1]

(* Mutant: only the oldest entry is looked at.                             *)
ConnAcceptQ_Remove_HeadOnly(q, c) ==
  IF 0 \in Srch(q, c) THEN WithoutEntry(q, 0) ELSE q

ConnAcceptQ_Remove(q, c) ==
  IF Srch(q, c) = {} THEN q
  ELSE WithoutEntry(q, CHOOSE n \in Srch(q, c) : \A m \in Srch(q, c) : n <= m)

(* The queue is emptied entry by entry; the caller closes the connections. *)
ConnAcceptQ_Clr(q) == [ClearedQ EXCEPT !.max = q.max]
=============================================================================
