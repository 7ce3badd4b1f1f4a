------------------------------- MODULE SoftWdt -------------------------------
(***************************************************************************)
(* The software watchdogs of HARDWARE/wdt.c: every task owns a dog, feeds  *)
(* it by counting, and may suspend it; a tick hook looks at all dogs and   *)
(* feeds the hardware watchdog only while none has starved.  A hardware    *)
(* watchdog that starves resets the board, which starts again from         *)
(* Soft_HardwareWDTInit.                                                   *)
(*                                                                         *)
(* The calls that the code puts in a critical section are one step, and so *)
(* is the tick hook, which runs in the tick interrupt.  SoftWdtInit has no *)
(* critical section: its assignments are steps of their own.               *)
(***************************************************************************)
EXTENDS Integers

CONSTANTS
  Dogs,       \* 0 .. MAX_SWDT_ID - 1
  CountMod,   \* 2^8: watchDogCount and watchDogCountBack are Uint8
  TickMod,    \* 2^16: watchDogTime, watchDogTimeOut and osTick are Uint16
  IntMod,     \* 2^32: the conversion from milliseconds is done in INT32U
  Requests,   \* the values of TimerTop the tasks use, in milliseconds
  HwTicks     \* external: ticks the hardware watchdog waits before it resets

ASSUME DogsAssumption == Dogs \subseteq Nat
ASSUME CountModAssumption == CountMod \in Nat /\ CountMod > 1
ASSUME TickModAssumption == TickMod \in Nat \ {0}
ASSUME IntModAssumption == IntMod \in Nat \ {0}
ASSUME RequestsAssumption == Requests \subseteq Nat
ASSUME HwTicksAssumption == HwTicks \in Nat \ {0}

VARIABLES
  watchDogState,
  watchDogTimeOut,
  watchDogTime,
  watchDogCountBack,
  watchDogCount,
  StopWDTFedMake,
  initAt,      \* the next assignment of a SoftWdtInit that is under way
  osTick,      \* its local variable
  hwTime,      \* external: ticks since the hardware watchdog was fed
  \* History, read by no guard:
  requested,   \* per dog, the ticks that were asked for, not truncated
  hungry,      \* per dog, ticks it was checked since the last reload
  fedSince     \* per dog, it was fed since it was last checked

dogVars == <<watchDogState, watchDogTimeOut, watchDogTime, watchDogCountBack,
             watchDogCount>>
initVars == <<initAt, osTick>>
history == <<requested, hungry, fedSince>>
vars == <<dogVars, StopWDTFedMake, initVars, hwTime, history>>

States == {"IDLE", "SUSPEN", "RUN"}
InitSteps == {"none", "timeOut", "time", "state"}

(* MsToOSTicks at 1000 ticks per second, where its rounding term is 0.     *)
MsToOSTicks(ms) == ((1000 * ms) % IntMod) \div 1000

Zero == [d \in Dogs |-> 0]

Init ==
  /\ watchDogState = [d \in Dogs |-> "IDLE"]
  /\ watchDogTimeOut = Zero
  /\ watchDogTime = Zero
  /\ watchDogCountBack = Zero
  /\ watchDogCount = Zero
  /\ StopWDTFedMake = FALSE
  /\ initAt = [d \in Dogs |-> "none"]
  /\ osTick = Zero
  /\ hwTime = 0
  /\ requested = Zero
  /\ hungry = Zero
  /\ fedSince = [d \in Dogs |-> FALSE]

-----------------------------------------------------------------------------
(* SoftWdtInit(d, ms): refused unless the dog is idle.                     *)

(* Mutant: the idle check is forgotten.                                    *)
InitEnter_Again(d, ms) ==
  /\ initAt[d] = "none"
  /\ osTick' = [osTick EXCEPT ![d] = MsToOSTicks(ms) % TickMod]
  /\ requested' = [requested EXCEPT ![d] = ms]
  /\ initAt' = [initAt EXCEPT ![d] = "timeOut"]
  /\ UNCHANGED <<dogVars, StopWDTFedMake, hwTime, hungry, fedSince>>

InitEnter(d, ms) ==
  /\ initAt[d] = "none"
  /\ watchDogState[d] = "IDLE"
  /\ osTick' = [osTick EXCEPT ![d] = MsToOSTicks(ms) % TickMod]
  /\ requested' = [requested EXCEPT ![d] = ms]
  /\ initAt' = [initAt EXCEPT ![d] = "timeOut"]
  /\ UNCHANGED <<dogVars, StopWDTFedMake, hwTime, hungry, fedSince>>

InitTimeOut(d) ==
  /\ initAt[d] = "timeOut"
  /\ watchDogTimeOut' = [watchDogTimeOut EXCEPT ![d] = osTick[d]]
  /\ initAt' = [initAt EXCEPT ![d] = "time"]
  /\ UNCHANGED <<watchDogState, watchDogTime, watchDogCountBack, watchDogCount,
                 StopWDTFedMake, osTick, hwTime, history>>

InitTime(d) ==
  /\ initAt[d] = "time"
  /\ watchDogTime' = [watchDogTime EXCEPT ![d] = osTick[d]]
  /\ initAt' = [initAt EXCEPT ![d] = "state"]
  /\ UNCHANGED <<watchDogState, watchDogTimeOut, watchDogCountBack,
                 watchDogCount, StopWDTFedMake, osTick, hwTime, history>>

InitState(d) ==
  /\ initAt[d] = "state"
  /\ watchDogState' = [watchDogState EXCEPT ![d] = "RUN"]
  /\ initAt' = [initAt EXCEPT ![d] = "none"]
  /\ UNCHANGED <<watchDogTimeOut, watchDogTime, watchDogCountBack,
                 watchDogCount, StopWDTFedMake, osTick, hwTime, history>>

-----------------------------------------------------------------------------
(* Feeding changes a count that the tick hook compares with its copy: the  *)
(* one value that would look like no change is skipped.                    *)
NextCount(c) == (c + 1) % CountMod
(* Mutant: it is not skipped.                                              *)
CountAfterFeed_NoSkip(c, back) == NextCount(c)
CountAfterFeed(c, back) ==
  IF NextCount(c) = back THEN NextCount(back) ELSE NextCount(c)

SoftWdtFed(d) ==
  /\ initAt[d] = "none"
  /\ watchDogCount' =
       [watchDogCount EXCEPT ![d] = CountAfterFeed(@, watchDogCountBack[d])]
  /\ fedSince' = [fedSince EXCEPT ![d] = TRUE]
  /\ UNCHANGED <<watchDogState, watchDogTimeOut, watchDogTime,
                 watchDogCountBack, StopWDTFedMake, initVars, hwTime,
                 requested, hungry>>

SetState(d, s) ==
  /\ initAt[d] = "none"
  /\ watchDogState' = [watchDogState EXCEPT ![d] = s]
  /\ UNCHANGED <<watchDogTimeOut, watchDogTime, watchDogCountBack,
                 watchDogCount, StopWDTFedMake, initVars, hwTime, history>>

SuspenWdt(d) == SetState(d, "SUSPEN")
RunWdt(d) == SetState(d, "RUN")

-----------------------------------------------------------------------------
(* SoftWdtISR.  The dogs are looked at in the order of their numbers, and  *)
(* the first that starves ends the loop.                                   *)

Fed(d) == watchDogCount[d] # watchDogCountBack[d]
Decremented_NoWidth(t) == t - 1   \* mutant
Decremented(t) == IF t = 0 THEN TickMod - 1 ELSE t - 1   \* of a Uint16
(* Mutant: a fed dog starves too.                                          *)
Starves_ThoughFed(d) ==
  watchDogState[d] = "RUN" /\ Decremented(watchDogTime[d]) = 0
Starves(d) ==
  watchDogState[d] = "RUN" /\ ~Fed(d) /\ Decremented(watchDogTime[d]) = 0
Checked(d) ==
  watchDogState[d] = "RUN" /\ \A e \in Dogs : e < d => ~Starves(e)

TimeAfterCheck(d) ==
  IF Fed(d) THEN watchDogTimeOut[d] ELSE Decremented(watchDogTime[d])
HungryAfterCheck(d) == IF Fed(d) THEN 0 ELSE hungry[d] + 1

(* Mutant: the hardware watchdog is fed although a dog has starved.        *)
TickWithoutFeeding_StillFeeds ==
  /\ StopWDTFedMake
  /\ hwTime' = 0
  /\ UNCHANGED <<dogVars, StopWDTFedMake, history>>

TickWithoutFeeding ==
  /\ StopWDTFedMake
  /\ hwTime' = hwTime + 1
  /\ UNCHANGED <<dogVars, StopWDTFedMake, history>>

TickWithCheck ==
  /\ ~StopWDTFedMake
  /\ watchDogTime' = [d \in Dogs |->
       IF Checked(d) THEN TimeAfterCheck(d) ELSE watchDogTime[d]]
  /\ watchDogCountBack' = [d \in Dogs |->
       IF Checked(d) THEN watchDogCount[d] ELSE watchDogCountBack[d]]
  /\ StopWDTFedMake' = (\E d \in Dogs : Starves(d))
  /\ hwTime' = IF \E d \in Dogs : Starves(d) THEN hwTime + 1 ELSE 0
  /\ hungry' = [d \in Dogs |->
       IF Checked(d) THEN HungryAfterCheck(d) ELSE hungry[d]]
  /\ fedSince' = [d \in Dogs |-> fedSince[d] /\ ~Checked(d)]
  /\ UNCHANGED <<watchDogState, watchDogTimeOut, watchDogCount, requested>>

SoftWdtISR ==
  /\ hwTime < HwTicks
  /\ TickWithoutFeeding \/ TickWithCheck
  /\ UNCHANGED initVars

(* External: the hardware watchdog resets the board.                       *)
BoardReset ==
  /\ hwTime = HwTicks
  /\ watchDogState' = [d \in Dogs |-> "IDLE"]
  /\ watchDogTimeOut' = Zero
  /\ watchDogTime' = Zero
  /\ watchDogCountBack' = Zero
  /\ watchDogCount' = Zero
  /\ StopWDTFedMake' = FALSE
  /\ initAt' = [d \in Dogs |-> "none"]
  /\ osTick' = Zero
  /\ hwTime' = 0
  /\ requested' = Zero
  /\ hungry' = Zero
  /\ fedSince' = [d \in Dogs |-> FALSE]

TaskCall(d) ==
  \/ \E ms \in Requests : InitEnter(d, ms)
  \/ InitTimeOut(d) \/ InitTime(d) \/ InitState(d)
  \/ SoftWdtFed(d) \/ SuspenWdt(d) \/ RunWdt(d)

Next == SoftWdtISR \/ BoardReset \/ \E d \in Dogs : TaskCall(d)

Spec == Init /\ [][Next]_vars

(* The tick interrupt keeps coming and the hardware watchdog is hardware.  *)
(* Nothing is assumed of the tasks: they may hang anywhere.                *)
FairSpec == Spec /\ WF_vars(SoftWdtISR) /\ WF_vars(BoardReset)

-----------------------------------------------------------------------------
(* Properties *)

(* Every variable has its type: counts and times stay within their widths. *)
TypeOK ==
  /\ watchDogState \in [Dogs -> States]
  /\ watchDogTimeOut \in [Dogs -> 0..TickMod - 1]
  /\ watchDogTime \in [Dogs -> 0..TickMod - 1]
  /\ watchDogCountBack \in [Dogs -> 0..CountMod - 1]
  /\ watchDogCount \in [Dogs -> 0..CountMod - 1]
  /\ StopWDTFedMake \in BOOLEAN
  /\ initAt \in [Dogs -> InitSteps]
  /\ osTick \in [Dogs -> 0..TickMod - 1]
  /\ hwTime \in 0..HwTicks
  /\ requested \in [Dogs -> Nat]
  /\ hungry \in [Dogs -> Nat]
  /\ fedSince \in [Dogs -> BOOLEAN]

(* However often a task feeds between two ticks, also when its 8-bit count *)
(* comes round, the next check sees that the dog was fed.                  *)
FeedSeen == \A d \in Dogs : fedSince[d] => Fed(d)

(* At every moment of its life, across suspensions, wraps of its counts    *)
(* and a SoftWdtInit that ticks interrupt, a dog's timer is what is left   *)
(* of its time limit.  A dog that was set running without SoftWdtInit has  *)
(* the whole range of the timer as its limit.                              *)
Limit(d) == IF watchDogTimeOut[d] = 0 THEN TickMod ELSE watchDogTimeOut[d]
TimeIsRemaining ==
  \A d \in Dogs :
    watchDogState[d] # "IDLE" =>
      watchDogTime[d] = IF hungry[d] = 0 THEN watchDogTimeOut[d]
                                         ELSE Limit(d) - hungry[d]

(* The hardware watchdog is given up exactly when some dog was checked for *)
(* its whole limit without having been fed: never early, never late.       *)
StopsExactlyWhenDue ==
  /\ StopWDTFedMake <=> \E d \in Dogs : hungry[d] = Limit(d)
  /\ \A d \in Dogs : hungry[d] <= Limit(d)

(* A task that hangs while its dog runs gets the board reset, whatever the *)
(* other tasks go on doing: until then the dog is fed or taken from RUN.   *)
HangIsReset ==
  \A d \in Dogs :
    watchDogState[d] = "RUN" /\ ~fedSince[d]
      ~> (fedSince[d] \/ watchDogState[d] # "RUN")

(* What wdt.c says of SoftWdtInit: the time in milliseconds is converted   *)
(* into ticks.  osTick is 16 bits wide, so a long time limit becomes a     *)
(* short one and the board is reset under a task that is in time.          *)
RequestHonoured ==
  StopWDTFedMake => \E d \in Dogs : hungry[d] > 0 /\ hungry[d] >= requested[d]
=============================================================================
