-------------------------------- MODULE OSSem --------------------------------
(***************************************************************************)
(* The counting semaphore of uC/OS-II (uCOS-II/Source/os_sem.c): the event *)
(* count, the set of task priorities in the wait list, and the calls the   *)
(* application makes on it.  Each call runs under OS_ENTER_CRITICAL, so it *)
(* is one step.  A waiting task is ready again when its priority has left  *)
(* OSEventGrp.                                                             *)
(***************************************************************************)
EXTENDS Naturals

CONSTANTS
  SemMax    \* the largest OSEventCnt: 65535 in os_sem.c, small in a model

ASSUME SemMaxAssumption == SemMax \in Nat \ {0}

VARIABLES
  OSEventCnt,   \* OS_EVENT.OSEventCnt
  OSEventGrp    \* the priorities waiting (OSEventGrp and OSEventTbl)

semVars == <<OSEventCnt, OSEventGrp>>

OSSemCreate(cnt) ==
  /\ OSEventCnt = cnt
  /\ OSEventGrp = {}

(* The highest priority task is the one with the smallest number.          *)
HighestPrio(prios) == CHOOSE p \in prios : \A q \in prios : p <= q

(* A post hands the token to the highest priority waiter without touching  *)
(* the count, or counts it, or, at the limit, drops it (OS_ERR_SEM_OVF).   *)
PostOverflows == OSEventGrp = {} /\ OSEventCnt = SemMax

(* Mutants: the count goes up although a waiter was readied; the waiter is  *)
(* not readied; a pend waits without looking at the count.                 *)
OSSemPost_Doubled ==
  \/ /\ OSEventCnt < SemMax
     /\ OSEventCnt' = OSEventCnt + 1
     /\ OSEventGrp' = {}
  \/ /\ OSEventCnt = SemMax
     /\ UNCHANGED semVars
OSSemPost_NoWake ==
  /\ OSEventCnt' = IF OSEventCnt < SemMax THEN OSEventCnt + 1 ELSE SemMax
  /\ UNCHANGED OSEventGrp
OSSemPend_NoCheck(prio) ==
  /\ OSEventGrp' = OSEventGrp \union {prio}
  /\ UNCHANGED OSEventCnt

OSSemPost ==
  \/ /\ OSEventGrp # {}
     /\ OSEventGrp' = OSEventGrp \ {HighestPrio(OSEventGrp)}
     /\ UNCHANGED OSEventCnt
  \/ /\ OSEventGrp = {}
     /\ OSEventCnt < SemMax
     /\ OSEventCnt' = OSEventCnt + 1
     /\ UNCHANGED OSEventGrp
  \/ /\ PostOverflows
     /\ UNCHANGED semVars

(* OSSemPend with timeout 0: take a token, or join the wait list.          *)
OSSemPend(prio) ==
  \/ /\ OSEventCnt > 0
     /\ OSEventCnt' = OSEventCnt - 1
     /\ UNCHANGED OSEventGrp
  \/ /\ OSEventCnt = 0
     /\ OSEventGrp' = OSEventGrp \union {prio}
     /\ UNCHANGED OSEventCnt

(* Pending with a timeout.  The tick that ends it readies the task and     *)
(* leaves it in the wait list: a post that comes before the task runs      *)
(* still gives it the token.  When the task runs it has the token if it    *)
(* left the list, and has timed out if it is still there.                  *)
GotToken(prio) == prio \notin OSEventGrp
OS_EventTaskRemove(prio) ==
  /\ OSEventGrp' = OSEventGrp \ {prio}
  /\ UNCHANGED OSEventCnt

(* OSSemSet to 0 when nobody waits, as the socket layer clears a signal.   *)
OSSemClear ==
  /\ OSEventCnt' = 0
  /\ UNCHANGED OSEventGrp
=============================================================================
