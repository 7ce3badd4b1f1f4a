---------------------------- MODULE SoftWdt_proofs ----------------------------
(***************************************************************************)
(* Proofs about SoftWdt for any number of dogs, any width of counts and    *)
(* timers and any time limits.                                             *)
(***************************************************************************)
EXTENDS SoftWdt, TLAPS, WellFoundedInduction

(* SoftWdtInit is invisible until its last assignment: the dog is idle,    *)
(* never checked, and its fields fill up in order.                         *)
InitInOrder ==
  \A d \in Dogs :
    /\ initAt[d] # "none" => watchDogState[d] = "IDLE"
    /\ watchDogState[d] = "IDLE" => hungry[d] = 0
    /\ watchDogState[d] = "IDLE" /\ initAt[d] = "none" =>
         watchDogTimeOut[d] = watchDogTime[d]
    /\ initAt[d] = "timeOut" => watchDogTimeOut[d] = watchDogTime[d]
    /\ initAt[d] = "time" => watchDogTimeOut[d] = osTick[d]
    /\ initAt[d] = "state" =>
         watchDogTimeOut[d] = osTick[d] /\ watchDogTime[d] = osTick[d]

IInv ==
  /\ TypeOK
  /\ InitInOrder
  /\ FeedSeen
  /\ TimeIsRemaining
  /\ StopsExactlyWhenDue

-----------------------------------------------------------------------------
(* The natural numbers are well ordered.                                   *)
LEMMA SmallestOf ==
  ASSUME NEW T \in SUBSET Nat, T # {}
  PROVE  \E x \in T : \A y \in T : ~(y < x)
<1>1. PICK x \in T : \A y \in T : ~(<<y, x>> \in OpToRel(<, Nat))
  BY NatLessThanWellFounded, WFMin
<1>. QED
  BY <1>1 DEF OpToRel

LEMMA ModInRange ==
  ASSUME NEW a \in Nat, NEW n \in Nat \ {0}
  PROVE  a % n \in 0..n - 1
OBVIOUS

(* A count and its successor differ, so skipping one value is enough.      *)
LEMMA NextCountDiffers ==
  ASSUME NEW c \in 0..CountMod - 1
  PROVE  NextCount(c) \in 0..CountMod - 1 /\ NextCount(c) # c
<1>1. CountMod \in Nat \ {0} /\ CountMod > 1
  BY CountModAssumption
<1>2. CASE c + 1 < CountMod
  BY <1>1, <1>2 DEF NextCount
<1>3. CASE c + 1 = CountMod
  BY <1>1, <1>3 DEF NextCount
<1>. QED
  BY <1>1, <1>2, <1>3

LEMMA FeedChangesCount ==
  ASSUME NEW c \in 0..CountMod - 1, NEW back \in 0..CountMod - 1
  PROVE  /\ CountAfterFeed(c, back) \in 0..CountMod - 1
         /\ CountAfterFeed(c, back) # back
BY NextCountDiffers DEF CountAfterFeed

LEMMA DecrementedType ==
  ASSUME NEW t \in 0..TickMod - 1
  PROVE  Decremented(t) \in 0..TickMod - 1
BY TickModAssumption DEF Decremented

LEMMA ZeroType ==
  /\ Zero \in [Dogs -> 0..TickMod - 1]
  /\ Zero \in [Dogs -> 0..CountMod - 1]
  /\ Zero \in [Dogs -> Nat]
  /\ 0 \in 0..HwTicks
BY CountModAssumption, TickModAssumption, HwTicksAssumption DEF Zero

LEMMA InitIInv == Init => IInv
<1>. SUFFICES ASSUME Init PROVE IInv
  OBVIOUS
<1>. USE DEF Init
<1>1. TypeOK
  BY ZeroType DEF TypeOK, States, InitSteps
<1>2. InitInOrder /\ FeedSeen /\ TimeIsRemaining
  BY DEF Zero, InitInOrder, FeedSeen, TimeIsRemaining
<1>3. StopsExactlyWhenDue
  BY TickModAssumption DEF Zero, StopsExactlyWhenDue, Limit
<1>. QED
  BY <1>1, <1>2, <1>3 DEF IInv

LEMMA TypeStep == IInv /\ [Next]_vars => TypeOK'
<1>. SUFFICES ASSUME IInv, [Next]_vars PROVE TypeOK'
  OBVIOUS
<1>. TypeOK
  BY DEF IInv
<1>. USE CountModAssumption, TickModAssumption, HwTicksAssumption DEF TypeOK
<1>1. CASE TickWithoutFeeding /\ hwTime < HwTicks /\ UNCHANGED initVars
  BY <1>1 DEF TickWithoutFeeding, dogVars, initVars, history
<1>2. CASE TickWithCheck /\ hwTime < HwTicks /\ UNCHANGED initVars
  <2>1. watchDogTime' \in [Dogs -> 0..TickMod - 1]
    BY <1>2, DecrementedType DEF TickWithCheck, TimeAfterCheck
  <2>2. /\ watchDogCountBack' \in [Dogs -> 0..CountMod - 1]
        /\ hungry' \in [Dogs -> Nat] /\ fedSince' \in [Dogs -> BOOLEAN]
    BY <1>2 DEF TickWithCheck, HungryAfterCheck
  <2>3. StopWDTFedMake' \in BOOLEAN /\ hwTime' \in 0..HwTicks
    BY <1>2 DEF TickWithCheck
  <2>. QED
    BY <1>2, <2>1, <2>2, <2>3 DEF TickWithCheck, initVars
<1>3. CASE BoardReset
  BY <1>3, ZeroType DEF BoardReset, States, InitSteps
<1>4. ASSUME NEW d \in Dogs, NEW ms \in Requests, InitEnter(d, ms) PROVE TypeOK'
  <2>1. MsToOSTicks(ms) \in Nat
    BY RequestsAssumption, IntModAssumption DEF MsToOSTicks
  <2>2. MsToOSTicks(ms) % TickMod \in 0..TickMod - 1
    BY <2>1, ModInRange
  <2>. QED
    BY <1>4, <2>2, RequestsAssumption DEF InitEnter, dogVars, InitSteps
<1>5. ASSUME NEW d \in Dogs, InitTimeOut(d) \/ InitTime(d) \/ InitState(d) PROVE TypeOK'
  BY <1>5 DEF InitTimeOut, InitTime, InitState, history, States, InitSteps
<1>6. ASSUME NEW d \in Dogs, SoftWdtFed(d) PROVE TypeOK'
  BY <1>6, FeedChangesCount DEF SoftWdtFed, initVars
<1>7. ASSUME NEW d \in Dogs, SuspenWdt(d) \/ RunWdt(d) PROVE TypeOK'
  BY <1>7 DEF SuspenWdt, RunWdt, SetState, States, initVars, history
<1>8. CASE UNCHANGED vars
  BY <1>8 DEF vars, dogVars, initVars, history
<1>. QED
  BY <1>1, <1>2, <1>3, <1>4, <1>5, <1>6, <1>7, <1>8 DEF Next, SoftWdtISR, TaskCall

-----------------------------------------------------------------------------
LEMMA InitInOrderStep == IInv /\ [Next]_vars => InitInOrder'
<1>. SUFFICES ASSUME IInv, [Next]_vars PROVE InitInOrder'
  OBVIOUS
<1>. InitInOrder /\ TypeOK
  BY DEF IInv
<1>. USE DEF InitInOrder, TypeOK
<1>1. CASE TickWithoutFeeding /\ UNCHANGED initVars
  BY <1>1 DEF TickWithoutFeeding, dogVars, initVars, history
<1>2. CASE TickWithCheck /\ UNCHANGED initVars
  BY <1>2 DEF TickWithCheck, Checked, initVars
<1>3. CASE BoardReset
  BY <1>3 DEF BoardReset, Zero
<1>4. ASSUME NEW d \in Dogs, NEW ms \in Requests, InitEnter(d, ms)
      PROVE  InitInOrder'
  BY <1>4 DEF InitEnter, dogVars
<1>5. ASSUME NEW d \in Dogs, InitTimeOut(d) PROVE InitInOrder'
  BY <1>5 DEF InitTimeOut, history
<1>6. ASSUME NEW d \in Dogs, InitTime(d) PROVE InitInOrder'
  BY <1>6 DEF InitTime, history
<1>7. ASSUME NEW d \in Dogs, InitState(d) PROVE InitInOrder'
  BY <1>7 DEF InitState, history
<1>8. ASSUME NEW d \in Dogs, SoftWdtFed(d) PROVE InitInOrder'
  BY <1>8 DEF SoftWdtFed, initVars
<1>9. ASSUME NEW d \in Dogs, SuspenWdt(d) \/ RunWdt(d) PROVE InitInOrder'
  BY <1>9 DEF SuspenWdt, RunWdt, SetState, initVars, history
<1>10. CASE UNCHANGED vars
  BY <1>10 DEF vars, dogVars, initVars, history
<1>. QED
  BY <1>1, <1>2, <1>3, <1>4, <1>5, <1>6, <1>7, <1>8, <1>9, <1>10
     DEF Next, SoftWdtISR, TaskCall

LEMMA FeedSeenStep == IInv /\ [Next]_vars => FeedSeen'
<1>. SUFFICES ASSUME IInv, [Next]_vars PROVE FeedSeen'
  OBVIOUS
<1>. FeedSeen /\ TypeOK
  BY DEF IInv
<1>. USE DEF FeedSeen, Fed, TypeOK
<1>1. CASE TickWithCheck
  BY <1>1 DEF TickWithCheck
<1>2. CASE BoardReset
  BY <1>2 DEF BoardReset
<1>3. ASSUME NEW d \in Dogs, SoftWdtFed(d) PROVE FeedSeen'
  BY <1>3, FeedChangesCount DEF SoftWdtFed
<1>4. CASE UNCHANGED <<watchDogCount, watchDogCountBack, fedSince>>
  BY <1>4
<1>. QED
  BY <1>1, <1>2, <1>3, <1>4
     DEF Next, SoftWdtISR, TaskCall, TickWithoutFeeding, InitEnter, InitTimeOut,
         InitTime, InitState, SuspenWdt, RunWdt, SetState, vars, dogVars, history

-----------------------------------------------------------------------------
(* The check of one dog, while no dog has starved yet: its timer moves in  *)
(* step with its hunger, and reaches 0 exactly at its limit.               *)
LEMMA CheckOne ==
  ASSUME IInv, ~StopWDTFedMake, NEW d \in Dogs, Checked(d)
  PROVE  /\ HungryAfterCheck(d) <= Limit(d)
         /\ HungryAfterCheck(d) = Limit(d) <=> Starves(d)
         /\ TimeAfterCheck(d) = IF HungryAfterCheck(d) = 0 THEN watchDogTimeOut[d]
                                 ELSE Limit(d) - HungryAfterCheck(d)
<1>. /\ watchDogState[d] = "RUN"
     /\ watchDogTimeOut[d] \in 0..TickMod - 1 /\ watchDogTime[d] \in 0..TickMod - 1
     /\ hungry[d] \in Nat /\ TickMod \in Nat \ {0}
     /\ watchDogTime[d] = IF hungry[d] = 0 THEN watchDogTimeOut[d]
                                            ELSE Limit(d) - hungry[d]
     /\ hungry[d] <= Limit(d) /\ hungry[d] # Limit(d)
     /\ Limit(d) \in Nat \ {0}
  BY TickModAssumption
     DEF IInv, TypeOK, Checked, TimeIsRemaining, StopsExactlyWhenDue, Limit
<1>1. CASE Fed(d)
  BY <1>1 DEF HungryAfterCheck, TimeAfterCheck, Starves
<1>2. CASE ~Fed(d)
  <2>1. Decremented(watchDogTime[d]) = Limit(d) - (hungry[d] + 1)
    BY DEF Decremented, Limit
  <2>. QED
    BY <1>2, <2>1 DEF HungryAfterCheck, TimeAfterCheck, Starves
<1>. QED
  BY <1>1, <1>2

LEMMA RemainingStep == IInv /\ [Next]_vars => TimeIsRemaining'
<1>. SUFFICES ASSUME IInv, [Next]_vars PROVE TimeIsRemaining'
  OBVIOUS
<1>. TimeIsRemaining /\ InitInOrder /\ TypeOK
  BY DEF IInv
<1>. USE DEF TimeIsRemaining
<1>1. CASE TickWithCheck
  <2>. SUFFICES ASSUME NEW d \in Dogs, watchDogState[d]' # "IDLE"
                PROVE  watchDogTime[d]' =
                         IF hungry[d]' = 0 THEN watchDogTimeOut[d]'
                                           ELSE Limit(d)' - hungry[d]'
    OBVIOUS
  <2>. /\ ~StopWDTFedMake
       /\ watchDogState' = watchDogState /\ watchDogTimeOut' = watchDogTimeOut
       /\ watchDogTime'[d] =
            IF Checked(d) THEN TimeAfterCheck(d) ELSE watchDogTime[d]
       /\ hungry'[d] = IF Checked(d) THEN HungryAfterCheck(d) ELSE hungry[d]
       /\ Limit(d)' = Limit(d)
    BY <1>1 DEF TickWithCheck, Limit
  <2>1. CASE Checked(d)
    BY <2>1, CheckOne
  <2>2. CASE ~Checked(d)
    BY <2>2
  <2>. QED
    BY <2>1, <2>2
<1>2. CASE BoardReset
  BY <1>2 DEF BoardReset
<1>3. ASSUME NEW d \in Dogs, InitTimeOut(d) PROVE TimeIsRemaining'
  BY <1>3 DEF InitTimeOut, InitInOrder, TypeOK, history, Limit
<1>4. ASSUME NEW d \in Dogs, InitTime(d) PROVE TimeIsRemaining'
  BY <1>4 DEF InitTime, InitInOrder, TypeOK, history, Limit
<1>5. ASSUME NEW d \in Dogs, InitState(d) PROVE TimeIsRemaining'
  BY <1>5 DEF InitState, InitInOrder, TypeOK, history, Limit
<1>6. ASSUME NEW d \in Dogs, SuspenWdt(d) \/ RunWdt(d) PROVE TimeIsRemaining'
  BY <1>6 DEF SuspenWdt, RunWdt, SetState, InitInOrder, TypeOK, history, Limit
<1>7. CASE UNCHANGED <<watchDogState, watchDogTime, watchDogTimeOut, hungry>>
  BY <1>7 DEF Limit
<1>. QED
  BY <1>1, <1>2, <1>3, <1>4, <1>5, <1>6, <1>7
     DEF Next, SoftWdtISR, TaskCall, TickWithoutFeeding, InitEnter, SoftWdtFed, vars,
         dogVars, history

LEMMA DueStep == IInv /\ [Next]_vars => StopsExactlyWhenDue'
<1>. SUFFICES ASSUME IInv, [Next]_vars PROVE StopsExactlyWhenDue'
  OBVIOUS
<1>. StopsExactlyWhenDue /\ InitInOrder /\ TypeOK
  BY DEF IInv
<1>1. CASE TickWithCheck
  <2>. /\ ~StopWDTFedMake
       /\ StopWDTFedMake' = (\E d \in Dogs : Starves(d))
       /\ \A d \in Dogs :
            /\ hungry'[d] = IF Checked(d) THEN HungryAfterCheck(d) ELSE hungry[d]
            /\ Limit(d)' = Limit(d)
    BY <1>1 DEF TickWithCheck, Limit
  <2>1. \A d \in Dogs : hungry'[d] <= Limit(d)
    BY CheckOne DEF StopsExactlyWhenDue
  <2>2. \A d \in Dogs : hungry'[d] = Limit(d) => Starves(d)
    BY CheckOne DEF StopsExactlyWhenDue
  <2>3. ASSUME NEW d \in Dogs, Starves(d)
        PROVE  \E e \in Dogs : hungry'[e] = Limit(e)
    <3>1. PICK e \in Dogs : Starves(e) /\ \A f \in Dogs : f < e => ~Starves(f)
      <4>. DEFINE T == {e \in Dogs : Starves(e)}
      <4>1. T \in SUBSET Nat /\ T # {}
        BY <2>3, DogsAssumption
      <4>. QED
        BY <4>1, SmallestOf
    <3>. QED
      BY <3>1, CheckOne DEF Checked, Starves
  <2>. QED
    BY <2>1, <2>2, <2>3 DEF StopsExactlyWhenDue
<1>2. CASE BoardReset
  BY <1>2, TickModAssumption DEF BoardReset, StopsExactlyWhenDue, Limit, Zero
<1>3. ASSUME NEW d \in Dogs, InitTimeOut(d) PROVE StopsExactlyWhenDue'
  <2>1. /\ hungry[d] = 0 /\ hungry' = hungry /\ StopWDTFedMake' = StopWDTFedMake
        /\ \A e \in Dogs \ {d} : Limit(e)' = Limit(e)
    BY <1>3 DEF InitTimeOut, InitInOrder, history, Limit, TypeOK
  <2>2. Limit(d) \in Nat \ {0} /\ Limit(d)' \in Nat \ {0}
    BY <1>3, TickModAssumption DEF InitTimeOut, Limit, TypeOK
  <2>. QED
    BY <2>1, <2>2 DEF StopsExactlyWhenDue
<1>4. CASE UNCHANGED <<StopWDTFedMake, hungry, watchDogTimeOut>>
  BY <1>4 DEF StopsExactlyWhenDue, Limit
<1>. QED
  BY <1>1, <1>2, <1>3, <1>4
     DEF Next, SoftWdtISR, TaskCall, TickWithoutFeeding, InitEnter, InitTime,
         InitState, SoftWdtFed, SuspenWdt, RunWdt, SetState, vars, dogVars, history

LEMMA Invariance == Spec => []IInv
<1>1. IInv /\ [Next]_vars => IInv'
  BY TypeStep, InitInOrderStep, FeedSeenStep, RemainingStep, DueStep DEF IInv
<1>. QED
  BY <1>1, InitIInv, PTL DEF Spec

-----------------------------------------------------------------------------
(* Counts and times stay within their widths.                              *)
THEOREM TypeCorrect == Spec => []TypeOK
BY Invariance, PTL DEF IInv

(* No number of feeds between two checks makes the count look unchanged.   *)
THEOREM NoFeedMissed == Spec => []FeedSeen
BY Invariance, PTL DEF IInv

(* The timer of a dog is always what is left of its limit.                 *)
THEOREM TimerExact == Spec => []TimeIsRemaining
BY Invariance, PTL DEF IInv

(* The hardware watchdog is given up when a dog reaches its limit, at that *)
(* very tick, and at no other time.                                        *)
THEOREM StopExact == Spec => []StopsExactlyWhenDue
BY Invariance, PTL DEF IInv
=============================================================================
