------------------------------- MODULE Signal -------------------------------
(***************************************************************************)
(* What a signalling channel between an interrupt and a task promises,     *)
(* whatever semaphore, status register and handler it is built from.       *)
(* Messages are received; the server takes one of the outstanding messages *)
(* in hand, one at a time, and finishes it.  Messages may be dropped, but  *)
(* never the one in hand, and none is served that was not received.        *)
(***************************************************************************)
EXTENDS Integers

VARIABLES
  received,   \* messages received so far
  served,     \* messages finished
  dropped,    \* messages given up
  busy        \* the server has a message in hand

vars == <<received, served, dropped, busy>>

Init ==
  /\ received = 0
  /\ served = 0
  /\ dropped = 0
  /\ busy = FALSE

(* Received, not finished, not dropped, and not in hand.                   *)
Outstanding == received - served - dropped - (IF busy THEN 1 ELSE 0)

(* The channel may drop a message as it arrives.                           *)
Receive ==
  /\ received' = received + 1
  /\ dropped' \in {dropped, dropped + 1}
  /\ UNCHANGED <<served, busy>>

Drop ==
  /\ Outstanding > 0
  /\ dropped' = dropped + 1
  /\ UNCHANGED <<received, served, busy>>

Start ==
  /\ ~busy
  /\ Outstanding > 0
  /\ busy' = TRUE
  /\ UNCHANGED <<received, served, dropped>>

(* Finishing a message may call off others that are outstanding.           *)
Finish ==
  /\ busy
  /\ busy' = FALSE
  /\ served' = served + 1
  /\ dropped' \in dropped..dropped + Outstanding
  /\ UNCHANGED received

Next == Receive \/ Drop \/ Start \/ Finish

Spec == Init /\ [][Next]_vars
=============================================================================
