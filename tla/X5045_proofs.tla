----------------------------- MODULE X5045_proofs -----------------------------
(***************************************************************************)
(* Proofs about X5045 for any tasks, addresses, data and number of polls.  *)
(* The wires of the chip are shared without a lock, so the argument is     *)
(* about who owns a selection: the innermost call that has begun to use    *)
(* the chip.  While its selection was not shared with another call or a    *)
(* feed, the chip has received exactly the bytes the call has sent.        *)
(***************************************************************************)
EXTENDS X5045Script_proofs

USE DEF WREN_INST, WRSR_INST, RDSR_INST, WRITE_INST, READ_INST

IsRead(t) == call[t].op = "Fct_ByteRead"
Script(t) == Steps(call[t].op, call[t].x)
Main(t) == MainBytes(call[t].op, call[t].x)
M(t) == Len(Main(t))
Typed(t) == call[t].op \in Ops /\ call[t].x \in Arguments(call[t].op)

AtStage(t, n, k, p) ==
  /\ Legal(call[t].op, Len(Script(t)), M(t), n, k, p)
  /\ todo[t] = Left(Script(t), n, k, p)
  /\ half[t] => InCall(t) /\ Head(todo[t])[1] = "out"

(* A call that has done nothing yet, and the innermost of the others.      *)
Fresh(t) == todo[t] = Script(t)
Top(t) ==
  /\ InCall(t) /\ ~Fresh(t)
  /\ \A u \in Prios : u < t /\ InCall(u) => Fresh(u)

(* The call is between a select and its deselect.                          *)
Within(read, m, n, k) ==
  \/ k \in {"r2", "r3", "r4"}
  \/ k = "plain" /\ read /\ n \in 2 .. 5
  \/ k = "plain" /\ ~read /\ (n \in {2, 3} \/ n \in 5 .. 5 + m)
Inside(t, n, k) == Within(IsRead(t), M(t), n, k)

(* The first j bytes of B have been received.                              *)
FirstOf(bytes, B, j) == Len(bytes) = j /\ \A i \in 1 .. j : bytes[i] = B[i]

(* The chip has received what the call has sent.                           *)
Heard(bytes, read, B, n, k) ==
  /\ k = "r2" => Len(bytes) = 0
  /\ k = "r3" => Len(bytes) = 1 /\ bytes[1] = RDSR_INST
  /\ k = "r4" => Len(bytes) = 2 /\ bytes[1] = RDSR_INST
  /\ k = "plain" /\ read =>
       /\ n \in 2 .. 4 => FirstOf(bytes, B, n - 2)
       /\ n = 5 => Len(bytes) = 3 /\ bytes[1] = B[1]
  /\ k = "plain" /\ ~read =>
       /\ n = 2 => Len(bytes) = 0
       /\ n = 3 => Len(bytes) = 1 /\ bytes[1] = WREN_INST
       /\ n \in 5 .. 5 + Len(B) => FirstOf(bytes, B, n - 5)
BytesAt(t, n, k) == Heard(chip.bytes, IsRead(t), Main(t), n, k)

Sync(t, n, k) == chip.sel /\ chip.odd = half[t] /\ Top(t) /\ BytesAt(t, n, k)

(* Nobody came into this call, or into one that it interrupts.             *)
Untouched(t) == \E v \in Prios : v >= t /\ InCall(v) /\ ~disturbed[v]

InSync(t, n, k) ==
  /\ Inside(t, n, k) /\ (Untouched(t) \/ ~(cut \/ mixed)) => Sync(t, n, k)
  /\ chip.sel /\ Top(t) /\ (~mixed \/ ~disturbed[t]) => Inside(t, n, k) /\ Sync(t, n, k)

(* Before this item an undisturbed call has not done what it is for, and   *)
(* after it, it has.                                                       *)
WriteAt(t) == IF IsRead(t) THEN 4 ELSE 5 + M(t)
Phase(t, n, k) ==
  ~disturbed[t] =>
    /\ k = "plain" /\ n <= WriteAt(t) => ~chip.busy
    /\ k = "plain" /\ ~IsRead(t) /\ n \in 4 .. 5 + M(t) => chip.wel
    /\ k # "plain" \/ n > WriteAt(t) => Done(t)

(* Calls that come into an undisturbed one only read.                      *)
OnlyReads(t) == ~disturbed[t] => \A u \in Prios : u < t /\ InCall(u) => IsRead(u)

CallAt(t, n, k, p) ==
  Typed(t) /\ OnlyReads(t) /\ AtStage(t, n, k, p) /\ InSync(t, n, k) /\ Phase(t, n, k)
Calls(N, K, P) == \A t \in Prios : InCall(t) => CallAt(t, N[t], K[t], P[t])

Idle == \A t \in Prios : ~InCall(t) => ~half[t]
HasOwner == chip.sel /\ ~mixed => \E t \in Prios : Top(t)

(* The call polls again before it returns.                                 *)
WillPoll(t, n, k) ==
  /\ ~IsRead(t)
  /\ \/ n <= Len(Script(t))
     \/ k \in {"poll", "r1", "r2", "r3"}
     \/ k \in {"r4", "r5"} /\ got[t] % 2 = 1
Watched(N, K) ==
  chip.busy /\ ~(gaveUp \/ cut \/ mixed) =>
    \E t \in Prios : InCall(t) /\ WillPoll(t, N[t], K[t])

(* The inductive invariant, and the same with the stages of the calls.     *)
InvAt(N, K, P) ==
  /\ N \in [Prios -> Nat] /\ K \in [Prios -> Kinds] /\ P \in [Prios -> Nat]
  /\ X5045TypeOK /\ Idle /\ HasOwner /\ NoForeignByte
  /\ Calls(N, K, P) /\ Watched(N, K)
Inv == \E N \in [Prios -> Nat], K \in [Prios -> Kinds], P \in [Prios -> Nat] :
         InvAt(N, K, P)

-----------------------------------------------------------------------------
(* A step of a task.                                                       *)

(* What a step of task t leaves alone.                                     *)
Frame(t) ==
  /\ call' = call
  /\ \A u \in Prios \ {t} : todo'[u] = todo[u] /\ half'[u] = half[u] /\ got'[u] = got[u]
  /\ \A u \in Prios : disturbed[u] => disturbed'[u]
  /\ (cut => cut') /\ (mixed => mixed')

(* Task t goes to a stage, and does no harm to the calls it interrupts.    *)
Moved(N, K, t, n, k, p) ==
  /\ Frame(t)
  /\ AtStage(t, n, k, p)' /\ ~(k = "plain" /\ n = 1)
  /\ InSync(t, n, k)' /\ Phase(t, n, k)'
  /\ ~Fresh(t) \/ (chip.sel => mixed' /\ \A v \in Prios : InCall(v) => disturbed'[v])
  /\ InCall(t)' \/ ~chip'.sel \/ (mixed /\ ~IsRead(t))
  /\ \A u \in Prios : u > t /\ InCall(u) /\ ~disturbed[u] =>
       (chip'.busy => chip.busy) /\ (chip.wel => chip'.wel) /\ mem' = mem /\ wdTime' = wdTime
  /\ chip'.busy /\ ~(gaveUp' \/ cut' \/ mixed') =>
       \/ InCall(t)' /\ WillPoll(t, n, k)'
       \/ chip.busy /\ ~(gaveUp \/ cut \/ mixed) /\ ~WillPoll(t, N[t], K[t])

(* The facts about the call that runs.                                     *)
LEMMA Running ==
  ASSUME NEW N, NEW K, NEW P, InvAt(N, K, P), NEW t \in Prios, Runs(t)
  PROVE  /\ Typed(t) /\ CallAt(t, N[t], K[t], P[t])
         /\ BytesOf(call[t].op, call[t].x, Main(t))
         /\ Script(t) \in Seq(Items) /\ Len(Script(t)) = ScriptLength(call[t].op, Main(t))
         /\ NextIs(call[t].op, call[t].x, N[t], K[t], P[t], Head(todo[t]), Tail(todo[t]))
         /\ Fresh(t) <=> K[t] = "plain" /\ N[t] = 1
         /\ ~Fresh(t) => Top(t) /\ \A u \in Prios : u # t => ~Top(u)
         /\ \A u \in Prios : u # t /\ InCall(u) => u > t
         /\ P[t] \in 0 .. MaxPoll /\ N[t] \in 1 .. Len(Script(t)) + 1 /\ K[t] \in Kinds
         /\ K[t] # "plain" => ~IsRead(t) /\ N[t] \in {7 + M(t), 9 + M(t)}
<1>1. InCall(t) /\ \A u \in Prios : u < t => ~InCall(u)
  BY DEF Runs
<1>2. Typed(t) /\ CallAt(t, N[t], K[t], P[t]) /\ AtStage(t, N[t], K[t], P[t])
  BY <1>1 DEF InvAt, Calls, CallAt
<1>3. /\ BytesOf(call[t].op, call[t].x, Main(t))
      /\ Script(t) \in Seq(Items) /\ Len(Script(t)) = ScriptLength(call[t].op, Main(t))
  BY <1>2, ScriptItems DEF Typed, Script, Main
<1>4. /\ Legal(call[t].op, Len(Script(t)), M(t), N[t], K[t], P[t])
      /\ todo[t] = Left(Script(t), N[t], K[t], P[t])
  BY <1>2 DEF AtStage
<1>5. NextIs(call[t].op, call[t].x, N[t], K[t], P[t], Head(todo[t]), Tail(todo[t]))
  BY <1>1, <1>2, <1>4, NextItem DEF Typed, InCall, Script, M, Main
<1>6. Fresh(t) <=> K[t] = "plain" /\ N[t] = 1
  <2>1. M(t) \in Nat
    BY <1>3 DEF BytesOf, M
  <2>. QED
    BY <1>3, <1>4, <2>1, LeftLength DEF Fresh
<1>7. \A u \in Prios : u # t /\ InCall(u) => u > t
  <2>1. ASSUME NEW u \in Prios, u # t, InCall(u) PROVE u > t
    <3>1. ~(u < t)
      BY <1>1, <2>1
    <3>2. u \in Nat /\ t \in Nat
      BY PriosAssumption
    <3>. QED
      BY <2>1, <3>1, <3>2
  <2>. QED
    BY <2>1
<1>8. ~Fresh(t) => Top(t) /\ \A u \in Prios : u # t => ~Top(u)
  <2>1. \A u \in Prios : u > t => t < u
    BY PriosAssumption
  <2>. QED
    BY <1>1, <1>7, <2>1 DEF Top
<1>. QED
  BY <1>2, <1>3, <1>4, <1>5, <1>6, <1>7, <1>8 DEF Legal, IsRead

(* A step as described keeps the invariant; the types and the cells are    *)
(* seen to below.                                                          *)
LEMMA MovedKeeps ==
  ASSUME NEW N, NEW K, NEW P, InvAt(N, K, P), NEW t \in Prios, Runs(t),
         NEW n, NEW k, NEW p, Moved(N, K, t, n, k, p),
         X5045TypeOK', NoForeignByte'
  PROVE  Inv'
<1>. DEFINE N2 == [N EXCEPT ![t] = n]
            K2 == [K EXCEPT ![t] = k]
            P2 == [P EXCEPT ![t] = p]
<1>1. InCall(t) /\ \A u \in Prios : u # t /\ InCall(u) => u > t
  BY Running DEF Runs
<1>2. /\ Typed(t) /\ BytesOf(call[t].op, call[t].x, Main(t))
      /\ Script(t) \in Seq(Items) /\ M(t) \in Nat
  BY Running DEF BytesOf, M
<1>3. Frame(t) /\ AtStage(t, n, k, p)'
  BY DEF Moved
<1>4. /\ Legal(call[t].op, Len(Script(t)), M(t), n, k, p)
      /\ todo'[t] = Left(Script(t), n, k, p)
      /\ half'[t] => InCall(t)' /\ Head(todo'[t])[1] = "out"
  BY <1>3 DEF Frame, AtStage, Script, M, Main
<1>5. n \in Nat /\ k \in Kinds /\ p \in Nat
  BY <1>2, <1>4, LenProperties DEF Legal
<1>6. ~Fresh(t)'
  <2>1. ~(k = "plain" /\ n = 1)
    BY DEF Moved
  <2>2. Left(Script(t), n, k, p) # Script(t)
    BY <1>2, <1>4, <2>1, LeftLength
  <2>. QED
    BY <1>3, <1>4, <2>2 DEF Fresh, Frame, Script
<1>7. \A u \in Prios \ {t} :
        /\ InCall(u)' <=> InCall(u)
        /\ Fresh(u)' <=> Fresh(u)
        /\ Typed(u)' <=> Typed(u)
        /\ IsRead(u)' <=> IsRead(u)
        /\ N2[u] = N[u] /\ K2[u] = K[u] /\ P2[u] = P[u]
  BY <1>3 DEF Frame, InCall, Fresh, Typed, IsRead, Script, InvAt
<1>8. N2[t] = n /\ K2[t] = k /\ P2[t] = p
  BY DEF InvAt
<1>9. N2 \in [Prios -> Nat] /\ K2 \in [Prios -> Kinds] /\ P2 \in [Prios -> Nat]
  BY <1>5 DEF InvAt
<1>. HIDE DEF N2, K2, P2
<1>10. Idle'
  BY <1>3, <1>4, <1>7 DEF Idle, InvAt, Frame
<1>11. \A u \in Prios : u < t => ~InCall(u)
  BY DEF Runs
<1>12. InCall(t)' => Top(t)'
  BY <1>6, <1>7, <1>11, PriosAssumption DEF Top
<1>13. HasOwner'
  BY <1>3, <1>12 DEF HasOwner, Moved, Frame
<1>14. InCall(t)' => CallAt(t, n, k, p)'
  <2>1. Typed(t)'
    BY <1>2, <1>3 DEF Typed, Frame
  <2>2. OnlyReads(t)'
    BY <1>7, <1>11, PriosAssumption DEF OnlyReads
  <2>. QED
    BY <2>1, <2>2 DEF CallAt, Moved
<1>15. ASSUME NEW u \in Prios \ {t}, InCall(u)
       PROVE  CallAt(u, N[u], K[u], P[u])'
  <2>1. CallAt(u, N[u], K[u], P[u]) /\ u > t
    BY <1>1, <1>15 DEF InvAt, Calls
  <2>2. Typed(u)'
    BY <1>7, <2>1 DEF CallAt
  <2>3. OnlyReads(u)'
    <3>1. IsRead(t)' <=> IsRead(t)
      BY <1>3 DEF Frame, IsRead
    <3>. QED
      BY <1>1, <1>3, <1>7, <2>1, <3>1 DEF OnlyReads, CallAt, Frame
  <2>4. AtStage(u, N[u], K[u], P[u])'
    BY <1>3, <2>1 DEF CallAt, AtStage, Frame, Script, M, Main, InCall
  <2>5. InSync(u, N[u], K[u])'
    <3>1. ~Top(u)' \/ ~InCall(t)'
      BY <1>6, <2>1, PriosAssumption DEF Top
    <3>2. Inside(u, N[u], K[u])' <=> Inside(u, N[u], K[u])
      BY <1>3 DEF Inside, IsRead, M, Main, Frame
    <3>3. Untouched(u)' => Untouched(u)
      <4>1. ASSUME Untouched(u)' PROVE Untouched(u)
        <5>1. PICK v \in Prios : v >= u /\ InCall(v)' /\ ~disturbed'[v]
          BY <4>1 DEF Untouched
        <5>2. v # t
          BY <2>1, <5>1, PriosAssumption
        <5>. QED
          BY <1>3, <1>7, <5>1, <5>2 DEF Untouched, Frame
      <4>. QED
        BY <4>1
    <3>4. ASSUME Inside(u, N[u], K[u])', Untouched(u)' \/ ~(cut \/ mixed)'
          PROVE  FALSE
      <4>1. Sync(u, N[u], K[u])
        BY <1>3, <2>1, <3>2, <3>3, <3>4 DEF CallAt, InSync, Frame
      <4>2. Fresh(t) /\ chip.sel
        BY <1>1, <2>1, <4>1, PriosAssumption DEF Sync, Top
      <4>3. mixed' /\ \A v \in Prios : InCall(v) => disturbed'[v]
        BY <4>2 DEF Moved
      <4>4. PICK v \in Prios : v >= u /\ InCall(v)' /\ ~disturbed'[v]
        BY <3>4, <4>3 DEF Untouched
      <4>5. v # t
        BY <2>1, <4>4, PriosAssumption
      <4>. QED
        BY <1>7, <4>3, <4>4, <4>5
    <3>5. ASSUME chip'.sel, Top(u)', ~mixed' \/ ~disturbed'[u]
          PROVE  FALSE
      <4>1. mixed /\ ~IsRead(t)
        BY <3>1, <3>5 DEF Moved
      <4>2. ~disturbed[u]
        BY <1>3, <3>5, <4>1 DEF Frame
      <4>. QED
        BY <1>1, <2>1, <4>1, <4>2, PriosAssumption DEF CallAt, OnlyReads
    <3>. QED
      BY <3>4, <3>5 DEF InSync
  <2>6. Phase(u, N[u], K[u])'
    <3>1. ASSUME ~disturbed'[u] PROVE ~disturbed[u] /\ Phase(u, N[u], K[u])
      BY <1>3, <2>1, <3>1 DEF Frame, CallAt
    <3>2. ASSUME ~disturbed'[u]
          PROVE  /\ chip'.busy => chip.busy
                 /\ chip.wel => chip'.wel
                 /\ mem' = mem /\ wdTime' = wdTime
      BY <1>15, <2>1, <3>1, <3>2 DEF Moved
    <3>3. /\ IsRead(u)' <=> IsRead(u)
          /\ M(u)' = M(u) /\ WriteAt(u)' = WriteAt(u)
      BY <1>3 DEF Frame, IsRead, M, Main, WriteAt
    <3>4. ASSUME ~disturbed'[u], Done(u) PROVE Done(u)'
      BY <1>3, <3>2, <3>4 DEF Done, Frame
    <3>. QED
      BY <3>1, <3>2, <3>3, <3>4 DEF Phase
  <2>. QED
    BY <2>2, <2>3, <2>4, <2>5, <2>6 DEF CallAt
<1>16. Calls(N2, K2, P2)'
  BY <1>7, <1>8, <1>14, <1>15 DEF Calls
<1>17. Watched(N2, K2)'
  <2>1. ASSUME chip'.busy, ~(gaveUp' \/ cut' \/ mixed'), ~(InCall(t)' /\ WillPoll(t, n, k)')
        PROVE  \E u \in Prios : InCall(u)' /\ WillPoll(u, N2[u], K2[u])'
    <3>1. chip.busy /\ ~(gaveUp \/ cut \/ mixed) /\ ~WillPoll(t, N[t], K[t])
      BY <2>1 DEF Moved
    <3>2. PICK u \in Prios : InCall(u) /\ WillPoll(u, N[u], K[u])
      BY <3>1 DEF InvAt, Watched
    <3>3. u \in Prios \ {t}
      BY <3>1, <3>2
    <3>4. WillPoll(u, N[u], K[u])'
      BY <1>3, <3>2, <3>3 DEF WillPoll, IsRead, Script, Frame
    <3>. QED
      BY <1>7, <3>2, <3>3, <3>4
  <2>2. ASSUME InCall(t)' /\ WillPoll(t, n, k)'
        PROVE  \E u \in Prios : InCall(u)' /\ WillPoll(u, N2[u], K2[u])'
    BY <1>8, <2>2
  <2>. QED
    BY <2>1, <2>2 DEF Watched
<1>18. InvAt(N2, K2, P2)'
  BY <1>9, <1>10, <1>13, <1>16, <1>17 DEF InvAt
<1>. QED
  BY <1>9, <1>18 DEF Inv

(* Where the stages of a call lead when it does one item.                  *)
NextPos(n, k) == IF k = "plain" THEN n + 1 ELSE n
NextKind(k) ==
  CASE k = "r1" -> "r2" [] k = "r2" -> "r3" [] k = "r3" -> "r4" [] k = "r4" -> "r5"
    [] OTHER -> "plain"

(* Where a call is that does item h next.                                  *)
Doing(op, B, n, k, p, h) ==
  LET read == op = "Fct_ByteRead"
  IN /\ h[1] = "select" => \/ k = "plain" /\ (n = 1 \/ (~read /\ n = 4))
                           \/ k = "r1"
     /\ h[1] = "out" =>
          \/ k = "plain" /\ read /\ n \in {2, 3} /\ h[2] = B[n - 1]
          \/ k = "plain" /\ ~read /\ n = 2 /\ h[2] = WREN_INST
          \/ k = "plain" /\ ~read /\ n \in 5 .. 4 + Len(B) /\ h[2] = B[n - 4]
          \/ k = "r2" /\ h[2] = RDSR_INST
     /\ h[1] = "in" => \/ k = "plain" /\ read /\ n = 4
                       \/ k = "r3"
     /\ h[1] = "deselect" =>
          \/ k = "plain" /\ read /\ n = 5
          \/ k = "plain" /\ ~read /\ n \in {3, 5 + Len(B)}
          \/ k = "plain" /\ op = "WDT_SetTime" /\ n = 7 + Len(B)
          \/ k = "r4"
     /\ h[1] = "poll" =>
          \/ /\ k = "plain" /\ ~read /\ h[2] = MaxPoll
             /\ n = 6 + Len(B) \/ (op = "WDT_SetTime" /\ n = 8 + Len(B))
          \/ k = "poll" /\ h[2] = p
     /\ h[1] = "check" => k = "r5" /\ h[2] = p

LEMMA WhatNext ==
  ASSUME NEW op, NEW x, NEW n, NEW k, NEW p, NEW h, NEW r, NextIs(op, x, n, k, p, h, r)
  PROVE  /\ r = Left(Steps(op, x), NextPos(n, k), NextKind(k), p)
         /\ k = "plain" => n <= Len(Steps(op, x))
         /\ Doing(op, MainBytes(op, x), n, k, p, h)
<1>1. r = Left(Steps(op, x), NextPos(n, k), NextKind(k), p)
  BY DEF NextIs, NextPos, NextKind
<1>2. \/ k = "plain" /\ n <= Len(Steps(op, x)) /\ ItemAt(op, MainBytes(op, x), n, h)
      \/ k = "poll" /\ h = <<"poll", p>>
      \/ k = "r1" /\ h = <<"select", 0>>
      \/ k = "r2" /\ h = <<"out", RDSR_INST>>
      \/ k = "r3" /\ h = <<"in", 0>>
      \/ k = "r4" /\ h = <<"deselect", 0>>
      \/ k = "r5" /\ h = <<"check", p>>
  BY DEF NextIs
<1>. DEFINE B == MainBytes(op, x)
<1>. HIDE DEF B
<1>3. CASE k = "plain"
  <2>1. ItemAt(op, B, n, h)
    BY <1>2, <1>3 DEF B
  <2>2. CASE op = "Fct_ByteRead"
    <3>1. \/ n = 1 /\ h = <<"select", 0>>
          \/ n \in {2, 3} /\ h = <<"out", B[n - 1]>>
          \/ n = 4 /\ h = <<"in", 0>>
          \/ n = 5 /\ h = <<"deselect", 0>>
      BY <2>1, <2>2, Zenon DEF ItemAt
    <3>2. \/ n = 1 /\ h[1] = "select"
          \/ n \in {2, 3} /\ h[1] = "out" /\ h[2] = B[n - 1]
          \/ n = 4 /\ h[1] = "in"
          \/ n = 5 /\ h[1] = "deselect"
      BY <3>1
    <3>3. Doing(op, B, n, k, p, h)
      BY <1>3, <2>2, <3>2 DEF Doing
    <3>. QED
      BY <1>1, <1>2, <1>3, <3>3 DEF B
  <2>3. CASE op # "Fct_ByteRead"
    <3>1. \/ n = 1 /\ h = <<"select", 0>>
          \/ n = 2 /\ h = <<"out", WREN_INST>>
          \/ n = 3 /\ h = <<"deselect", 0>>
          \/ n = 4 /\ h = <<"select", 0>>
          \/ n \in 5 .. 4 + Len(B) /\ h = <<"out", B[n - 4]>>
          \/ n = 5 + Len(B) /\ h = <<"deselect", 0>>
          \/ n = 6 + Len(B) /\ h = <<"poll", MaxPoll>>
          \/ op = "WDT_SetTime" /\ n = 7 + Len(B) /\ h = <<"deselect", 0>>
          \/ op = "WDT_SetTime" /\ n = 8 + Len(B) /\ h = <<"poll", MaxPoll>>
      BY <2>1, <2>3, Zenon DEF ItemAt
    <3>2. \/ n = 1 /\ h[1] = "select"
          \/ n = 2 /\ h[1] = "out" /\ h[2] = WREN_INST
          \/ n = 3 /\ h[1] = "deselect"
          \/ n = 4 /\ h[1] = "select"
          \/ n \in 5 .. 4 + Len(B) /\ h[1] = "out" /\ h[2] = B[n - 4]
          \/ n = 5 + Len(B) /\ h[1] = "deselect"
          \/ n = 6 + Len(B) /\ h[1] = "poll" /\ h[2] = MaxPoll
          \/ op = "WDT_SetTime" /\ n = 7 + Len(B) /\ h[1] = "deselect"
          \/ op = "WDT_SetTime" /\ n = 8 + Len(B) /\ h[1] = "poll" /\ h[2] = MaxPoll
      BY <3>1
    <3>3. Doing(op, B, n, k, p, h)
      BY <1>3, <2>3, <3>2 DEF Doing
    <3>. QED
      BY <1>1, <1>2, <1>3, <3>3 DEF B
  <2>. QED
    BY <2>2, <2>3
<1>4. CASE k # "plain"
  <2>1. Doing(op, B, n, k, p, h)
    BY <1>2, <1>4 DEF Doing
  <2>. QED
    BY <1>1, <1>4, <2>1 DEF B
<1>. QED
  BY <1>3, <1>4

(* The call does one item.                                                 *)
LEMMA Advance ==
  ASSUME NEW N, NEW K, NEW P, InvAt(N, K, P), NEW t \in Prios, Runs(t),
         call' = call, Proceed(t, <<>>), ~half'[t]
  PROVE  LET n == NextPos(N[t], K[t])
             k == NextKind(K[t])
         IN /\ AtStage(t, n, k, P[t])' /\ ~(k = "plain" /\ n = 1)
            /\ InCall(t)' <=> ~(k = "plain" /\ n = Len(Script(t)) + 1)
            /\ InCall(t)' => Top(t)'
            /\ \A u \in Prios \ {t} : todo'[u] = todo[u]
<1>. DEFINE n == NextPos(N[t], K[t])
            k == NextKind(K[t])
<1>1. /\ Typed(t) /\ BytesOf(call[t].op, call[t].x, Main(t)) /\ Script(t) \in Seq(Items)
      /\ NextIs(call[t].op, call[t].x, N[t], K[t], P[t], Head(todo[t]), Tail(todo[t]))
      /\ P[t] \in 0 .. MaxPoll /\ N[t] \in 1 .. Len(Script(t)) + 1 /\ K[t] \in Kinds
      /\ K[t] # "plain" => ~IsRead(t) /\ N[t] \in {7 + M(t), 9 + M(t)}
  BY Running
<1>2. Tail(todo[t]) = Left(Script(t), n, k, P[t]) /\ (K[t] = "plain" => N[t] <= Len(Script(t)))
  BY <1>1, WhatNext DEF Script
<1>3. M(t) \in Nat /\ Len(Script(t)) \in Nat
  BY <1>1, LenProperties DEF BytesOf, M
<1>4. Legal(call[t].op, Len(Script(t)), M(t), n, k, P[t]) /\ ~(k = "plain" /\ n = 1)
  BY <1>1, <1>2, <1>3 DEF Legal, NextPos, NextKind, Kinds, IsRead
<1>. HIDE DEF n, k
<1>5. /\ Left(Script(t), n, k, P[t]) \in Seq(Items)
      /\ Left(Script(t), n, k, P[t]) = <<>> <=> k = "plain" /\ n = Len(Script(t)) + 1
      /\ Left(Script(t), n, k, P[t]) # Script(t)
  BY <1>1, <1>3, <1>4, LeftLength
<1>6. todo'[t] = Left(Script(t), n, k, P[t]) /\ \A u \in Prios \ {t} : todo'[u] = todo[u]
  <2>1. <<>> \o Tail(todo[t]) = Left(Script(t), n, k, P[t])
    BY <1>2, <1>5, ConcatEmptySeq
  <2>2. todo \in [Prios -> Seq(ItemKinds \X (0 .. 511))]
    BY DEF InvAt, X5045TypeOK
  <2>. QED
    BY <2>1, <2>2 DEF Proceed
<1>7. AtStage(t, n, k, P[t])'
  BY <1>4, <1>6 DEF AtStage, Script, M, Main
<1>8. InCall(t)' <=> ~(k = "plain" /\ n = Len(Script(t)) + 1)
  BY <1>5, <1>6 DEF InCall
<1>9. InCall(t)' => Top(t)'
  BY <1>5, <1>6, PriosAssumption DEF Top, Fresh, Script, InCall, Runs
<1>. QED
  BY <1>4, <1>6, <1>7, <1>8, <1>9 DEF n, k

LEMMA SelectMoves ==
  ASSUME NEW N, NEW K, NEW P, InvAt(N, K, P), NEW t \in Prios, Select(t)
  PROVE  /\ Runs(t)
         /\ Moved(N, K, t, NextPos(N[t], K[t]), NextKind(K[t]), P[t])
<1>. DEFINE n == NextPos(N[t], K[t])
            k == NextKind(K[t])
<1>1. Runs(t) /\ Head(todo[t])[1] = "select" /\ InCall(t)
  BY DEF Select, Head1, Runs
<1>2. /\ Typed(t) /\ CallAt(t, N[t], K[t], P[t])
      /\ BytesOf(call[t].op, call[t].x, Main(t))
      /\ Len(Script(t)) = ScriptLength(call[t].op, Main(t))
      /\ NextIs(call[t].op, call[t].x, N[t], K[t], P[t], Head(todo[t]), Tail(todo[t]))
      /\ K[t] # "plain" => ~IsRead(t) /\ N[t] \in {7 + M(t), 9 + M(t)}
  BY <1>1, Running
<1>3. \/ K[t] = "plain" /\ (N[t] = 1 \/ (~IsRead(t) /\ N[t] = 4))
      \/ K[t] = "r1"
  <2>1. Doing(call[t].op, Main(t), N[t], K[t], P[t], Head(todo[t]))
    BY <1>2, WhatNext DEF Main
  <2>. QED
    BY <1>1, <2>1 DEF Doing, IsRead
<1>4. M(t) \in Nat /\ M(t) >= 2 /\ Len(Script(t)) >= 5
      /\ (~IsRead(t) => Len(Script(t)) >= 6 + M(t))
  BY <1>2 DEF BytesOf, M, ScriptLength, IsRead
<1>5. /\ chip \in Chip /\ mixed \in BOOLEAN /\ half \in [Prios -> BOOLEAN]
      /\ disturbed \in [Prios -> BOOLEAN]
  BY DEF InvAt, X5045TypeOK
<1>6. ~half[t]
  BY <1>1, <1>2 DEF CallAt, AtStage
<1>7. /\ call' = call /\ half' = half /\ got' = got /\ mem' = mem /\ wdTime' = wdTime
      /\ cut' = cut /\ gaveUp' = gaveUp /\ Proceed(t, <<>>)
      /\ mixed' = (mixed \/ chip.sel) /\ chip' = Selected(chip)
      /\ \A u \in Prios : disturbed'[u] = (disturbed[u] \/ (InCall(u) /\ chip.sel))
  BY DEF Select
<1>8. /\ AtStage(t, n, k, P[t])' /\ ~(k = "plain" /\ n = 1)
      /\ InCall(t)' <=> ~(k = "plain" /\ n = Len(Script(t)) + 1)
      /\ InCall(t)' => Top(t)'
      /\ \A u \in Prios \ {t} : todo'[u] = todo[u]
  BY <1>1, <1>6, <1>7, Advance
<1>9. Frame(t)
  BY <1>5, <1>7, <1>8 DEF Frame
<1>10. \/ k = "plain" /\ n = 2 /\ K[t] = "plain" /\ N[t] = 1
       \/ k = "plain" /\ n = 5 /\ ~IsRead(t) /\ K[t] = "plain" /\ N[t] = 4
       \/ k = "r2" /\ ~IsRead(t) /\ K[t] = "r1" /\ n = N[t] /\ n >= 7 + M(t)
  BY <1>2, <1>3, <1>4 DEF NextPos, NextKind
<1>11. /\ IsRead(t)' = IsRead(t) /\ Main(t)' = Main(t) /\ M(t)' = M(t)
       /\ Script(t)' = Script(t) /\ WriteAt(t)' = WriteAt(t)
       /\ Done(t)' <=> Done(t)
  BY <1>7 DEF IsRead, Main, M, Script, WriteAt, Done
<1>. HIDE DEF n, k
<1>12. InCall(t)' /\ Top(t)'
  BY <1>4, <1>8, <1>10
<1>13. chip'.busy = chip.busy /\ chip'.wel = chip.wel
  BY <1>5, <1>7 DEF Chip, Selected
<1>14. InSync(t, n, k)' /\ Phase(t, n, k)'
  <2>1. CASE chip.sel
    <3>1. mixed' /\ \A u \in Prios : InCall(u)' => disturbed'[u]
      BY <1>1, <1>7, <1>8, <2>1 DEF InCall
    <3>. QED
      BY <1>12, <3>1 DEF InSync, Untouched, Phase
  <2>2. CASE ~chip.sel
    <3>1. chip'.sel /\ chip'.odd = FALSE /\ chip'.bytes = <<>>
      BY <1>5, <1>7, <2>2 DEF Chip, Selected
    <3>2. Len(chip'.bytes) = 0
      BY <3>1
    <3>3. BytesAt(t, n, k)'
      <4>1. Heard(chip'.bytes, IsRead(t), Main(t), n, k)
        BY <1>4, <1>10, <3>2 DEF Heard, FirstOf
      <4>. QED
        BY <1>11, <4>1 DEF BytesAt
    <3>4. Sync(t, n, k)'
      <4>1. half'[t] = FALSE
        BY <1>5, <1>6, <1>7
      <4>. QED
        BY <1>12, <3>1, <3>3, <4>1 DEF Sync
    <3>5. Inside(t, n, k)'
      <4>1. Within(IsRead(t), M(t), n, k)
        BY <1>4, <1>10 DEF Within
      <4>. QED
        BY <1>11, <4>1 DEF Inside
    <3>6. Phase(t, n, k)'
      <4>1. disturbed'[t] = disturbed[t] /\ Phase(t, N[t], K[t])
        BY <1>2, <1>5, <1>7, <2>2 DEF CallAt
      <4>2. n >= 7 + M(t) => n > WriteAt(t)
        BY <1>2, <1>4, <1>10 DEF WriteAt
      <4>3. WriteAt(t) \in Nat /\ WriteAt(t) >= 4 /\ (~IsRead(t) => WriteAt(t) = 5 + M(t))
        BY <1>4 DEF WriteAt
      <4>4. ASSUME ~disturbed[t]
            PROVE  /\ k = "plain" /\ n <= WriteAt(t) => ~chip.busy
                   /\ k = "plain" /\ ~IsRead(t) /\ n \in 4 .. 5 + M(t) => chip.wel
                   /\ k # "plain" \/ n > WriteAt(t) => Done(t)
        <5>1. /\ K[t] = "plain" /\ N[t] <= WriteAt(t) => ~chip.busy
              /\ K[t] = "plain" /\ ~IsRead(t) /\ N[t] \in 4 .. 5 + M(t) => chip.wel
              /\ K[t] # "plain" \/ N[t] > WriteAt(t) => Done(t)
          BY <4>1, <4>4 DEF Phase
        <5>2. CASE k = "r2"
          BY <1>10, <5>1, <5>2
        <5>3. CASE k = "plain" /\ n = 2
          BY <1>4, <1>10, <4>3, <5>1, <5>3
        <5>4. CASE k = "plain" /\ n = 5
          BY <1>4, <1>10, <4>3, <5>1, <5>4
        <5>. QED
          BY <1>10, <5>2, <5>3, <5>4
      <4>. QED
        BY <1>11, <1>13, <4>1, <4>4 DEF Phase
    <3>. QED
      BY <3>4, <3>5, <3>6 DEF InSync
  <2>. QED
    BY <2>1, <2>2
<1>15. WillPoll(t, N[t], K[t]) => WillPoll(t, n, k)'
  BY <1>4, <1>10, <1>11 DEF WillPoll
<1>16. \/ InCall(t)' /\ WillPoll(t, n, k)'
       \/ ~WillPoll(t, N[t], K[t])
  BY <1>12, <1>15
<1>17. Moved(N, K, t, n, k, P[t])
  BY <1>1, <1>7, <1>8, <1>9, <1>12, <1>13, <1>14, <1>16 DEF Moved
<1>. QED
  BY <1>1, <1>17 DEF n, k

LEMMA FirstMore ==
  ASSUME NEW s \in Seq(Bytes), NEW b \in Bytes, NEW B, NEW j \in Nat,
         Len(s) = j, \A i \in 1 .. j : s[i] = B[i], B[j + 1] = b
  PROVE  /\ Append(s, b) \in Seq(Bytes) /\ Len(Append(s, b)) = j + 1
         /\ \A i \in 1 .. j + 1 : Append(s, b)[i] = B[i]
<1>1. /\ Append(s, b) \in Seq(Bytes) /\ Len(Append(s, b)) = j + 1
      /\ \A i \in 1 .. j : Append(s, b)[i] = s[i]
      /\ Append(s, b)[j + 1] = b
  BY AppendProperties
<1>2. \A i \in 1 .. j + 1 : i \in 1 .. j \/ i = j + 1
  OBVIOUS
<1>. QED
  BY <1>1, <1>2

(* A byte to be sent fits.                                                 *)
LEMMA OutByte ==
  ASSUME NEW N, NEW K, NEW P, InvAt(N, K, P), NEW t \in Prios, outbyte(t)
  PROVE  /\ Runs(t) /\ Head(todo[t])[2] \in 0 .. 255
         /\ Doing(call[t].op, Main(t), N[t], K[t], P[t], Head(todo[t]))
         /\ \/ K[t] = "plain" /\ IsRead(t) /\ N[t] \in {2, 3}
                 /\ Head(todo[t])[2] = Main(t)[N[t] - 1]
            \/ K[t] = "plain" /\ ~IsRead(t) /\ N[t] = 2 /\ Head(todo[t])[2] = WREN_INST
            \/ K[t] = "plain" /\ ~IsRead(t) /\ N[t] \in 5 .. 4 + M(t)
                 /\ Head(todo[t])[2] = Main(t)[N[t] - 4]
            \/ K[t] = "r2" /\ ~IsRead(t) /\ Head(todo[t])[2] = RDSR_INST
<1>1. Runs(t) /\ Head(todo[t])[1] = "out"
  BY DEF outbyte, Head1
<1>2. /\ BytesOf(call[t].op, call[t].x, Main(t))
      /\ NextIs(call[t].op, call[t].x, N[t], K[t], P[t], Head(todo[t]), Tail(todo[t]))
      /\ K[t] # "plain" => ~IsRead(t)
  BY <1>1, Running
<1>3. Doing(call[t].op, Main(t), N[t], K[t], P[t], Head(todo[t]))
  BY <1>2, WhatNext DEF Main
<1>4. \/ K[t] = "plain" /\ IsRead(t) /\ N[t] \in {2, 3}
           /\ Head(todo[t])[2] = Main(t)[N[t] - 1]
      \/ K[t] = "plain" /\ ~IsRead(t) /\ N[t] = 2 /\ Head(todo[t])[2] = WREN_INST
      \/ K[t] = "plain" /\ ~IsRead(t) /\ N[t] \in 5 .. 4 + M(t)
           /\ Head(todo[t])[2] = Main(t)[N[t] - 4]
      \/ K[t] = "r2" /\ ~IsRead(t) /\ Head(todo[t])[2] = RDSR_INST
  BY <1>1, <1>2, <1>3 DEF Doing, IsRead, M
<1>5. \A i \in 1 .. Len(Main(t)) : Main(t)[i] \in 0 .. 255
  BY <1>2, ElementOfSeq DEF BytesOf
<1>6. Len(Main(t)) \in Nat /\ (IsRead(t) => Len(Main(t)) = 2)
  BY <1>2 DEF BytesOf, IsRead
<1>7. Head(todo[t])[2] \in 0 .. 255
  <2>1. CASE IsRead(t) /\ N[t] \in {2, 3} /\ Head(todo[t])[2] = Main(t)[N[t] - 1]
    <3>1. N[t] - 1 \in 1 .. Len(Main(t))
      <4>1. (N[t] = 2 \/ N[t] = 3) /\ Len(Main(t)) = 2
        BY <1>6, <2>1
      <4>. QED
        BY <4>1
    <3>. QED
      BY <1>5, <2>1, <3>1
  <2>2. CASE N[t] \in 5 .. 4 + M(t) /\ Head(todo[t])[2] = Main(t)[N[t] - 4]
    <3>1. N[t] - 4 \in 1 .. Len(Main(t))
      BY <1>6, <2>2 DEF M
    <3>. QED
      BY <1>5, <2>2, <3>1
  <2>3. WREN_INST \in 0 .. 255 /\ RDSR_INST \in 0 .. 255
    OBVIOUS
  <2>. QED
    BY <1>4, <2>1, <2>2, <2>3, Zenon
<1>. QED
  BY <1>1, <1>3, <1>4, <1>7

LEMMA HalfByteAt ==
  ASSUME NEW c \in Chip, NEW b
  PROVE  LET d == HalfByte(c, b)
         IN /\ d.busy = c.busy /\ d.wel = c.wel /\ d.sel = c.sel
            /\ ~c.sel => d = c
            /\ c.sel /\ ~c.odd => d.odd = TRUE /\ d.bytes = c.bytes
            /\ c.sel /\ c.odd => d.odd = FALSE /\ d.bytes = Append(c.bytes, b)
            /\ b \in Bytes => d \in Chip
<1>1. /\ c.sel \in BOOLEAN /\ c.odd \in BOOLEAN /\ c.wel \in BOOLEAN
      /\ c.busy \in BOOLEAN /\ c.bytes \in Seq(Bytes)
      /\ Chip = [sel : BOOLEAN, odd : BOOLEAN, wel : BOOLEAN, busy : BOOLEAN,
                 bytes : Seq(Bytes)]
  BY DEF Chip, Bytes
<1>2. CASE ~c.sel
  BY <1>1, <1>2 DEF HalfByte
<1>3. CASE c.sel /\ ~c.odd
  <2>1. HalfByte(c, b) = [c EXCEPT !.odd = TRUE]
    BY <1>3 DEF HalfByte
  <2>. QED
    BY <1>1, <1>3, <2>1 DEF Chip
<1>4. CASE c.sel /\ c.odd
  <2>1. HalfByte(c, b) = [[c EXCEPT !.bytes = Append(c.bytes, b)] EXCEPT !.odd = FALSE]
    BY <1>4 DEF HalfByte, Received
  <2>2. b \in Bytes => Append(c.bytes, b) \in Seq(Bytes)
    BY <1>1, AppendProperties
  <2>. QED
    BY <1>1, <1>4, <2>1, <2>2 DEF Chip
<1>. QED
  BY <1>2, <1>3, <1>4

LEMMA OutMoves ==
  ASSUME NEW N, NEW K, NEW P, InvAt(N, K, P), NEW t \in Prios, outbyte(t)
  PROVE  \E n \in Nat, k \in Kinds, p \in Nat : Moved(N, K, t, n, k, p)
<1>. DEFINE b == Head(todo[t])[2]
<1>1. Runs(t) /\ Head(todo[t])[1] = "out" /\ InCall(t)
  BY DEF outbyte, Head1, Runs
<1>2. /\ Typed(t) /\ CallAt(t, N[t], K[t], P[t])
      /\ BytesOf(call[t].op, call[t].x, Main(t))
      /\ Len(Script(t)) = ScriptLength(call[t].op, Main(t))
      /\ N[t] \in Nat /\ K[t] \in Kinds /\ P[t] \in Nat
      /\ K[t] # "plain" => ~IsRead(t) /\ N[t] \in {7 + M(t), 9 + M(t)}
      /\ Fresh(t) <=> K[t] = "plain" /\ N[t] = 1
      /\ ~Fresh(t) => Top(t)
  BY <1>1, Running
<1>3. /\ b \in 0 .. 255
      /\ \/ K[t] = "plain" /\ IsRead(t) /\ N[t] \in {2, 3} /\ b = Main(t)[N[t] - 1]
         \/ K[t] = "plain" /\ ~IsRead(t) /\ N[t] = 2 /\ b = WREN_INST
         \/ K[t] = "plain" /\ ~IsRead(t) /\ N[t] \in 5 .. 4 + M(t) /\ b = Main(t)[N[t] - 4]
         \/ K[t] = "r2" /\ ~IsRead(t) /\ b = RDSR_INST
  BY OutByte
<1>. HIDE DEF b
<1>4. M(t) \in Nat /\ M(t) >= 2 /\ Len(Script(t)) \in Nat /\ Len(Script(t)) >= 5
      /\ (IsRead(t) => M(t) = 2) /\ (~IsRead(t) => Len(Script(t)) >= 6 + M(t))
  BY <1>2 DEF BytesOf, M, ScriptLength, IsRead
<1>5. /\ chip \in Chip /\ half \in [Prios -> BOOLEAN] /\ chip.bytes \in Seq(Bytes)
      /\ chip.odd \in BOOLEAN /\ todo \in [Prios -> Seq(ItemKinds \X (0 .. 511))]
  BY DEF InvAt, X5045TypeOK, Chip, Bytes
<1>6. /\ call' = call /\ got' = got /\ mem' = mem /\ wdTime' = wdTime
      /\ cut' = cut /\ gaveUp' = gaveUp /\ mixed' = mixed /\ disturbed' = disturbed
      /\ half' = [half EXCEPT ![t] = ~half[t]]
      /\ half[t] => chip' = HalfByte(chip, b) /\ Proceed(t, <<>>)
      /\ ~half[t] => chip' = HalfByte(chip, Garbled) /\ todo' = todo
  BY DEF outbyte, history, b
<1>7. ~Fresh(t) /\ Top(t)
  BY <1>2, <1>3
<1>0. PICK n \in Nat, k \in Kinds :
        /\ half[t] => n = NextPos(N[t], K[t]) /\ k = NextKind(K[t])
        /\ ~half[t] => n = N[t] /\ k = K[t]
  <2>1. NextPos(N[t], K[t]) \in Nat /\ NextKind(K[t]) \in Kinds
    BY <1>2 DEF NextPos, NextKind, Kinds
  <2>. QED
    BY <1>2, <2>1
<1>8. /\ AtStage(t, n, k, P[t])' /\ ~(k = "plain" /\ n = 1)
      /\ \A u \in Prios \ {t} : todo'[u] = todo[u]
      /\ InCall(t)' /\ Top(t)'
  <2>1. CASE half[t]
    <3>1. ~half'[t] /\ n = NextPos(N[t], K[t]) /\ k = NextKind(K[t])
      BY <1>0, <1>5, <1>6, <2>1
    <3>2. ~(k = "plain" /\ n = Len(Script(t)) + 1)
      BY <1>3, <1>4, <3>1 DEF NextPos, NextKind
    <3>3. /\ AtStage(t, NextPos(N[t], K[t]), NextKind(K[t]), P[t])'
          /\ ~(NextKind(K[t]) = "plain" /\ NextPos(N[t], K[t]) = 1)
          /\ InCall(t)' <=> ~(NextKind(K[t]) = "plain"
                                /\ NextPos(N[t], K[t]) = Len(Script(t)) + 1)
          /\ InCall(t)' => Top(t)'
          /\ \A u \in Prios \ {t} : todo'[u] = todo[u]
      BY <1>1, <1>6, <2>1, <3>1, Advance
    <3>. QED
      BY <3>1, <3>2, <3>3
  <2>2. CASE ~half[t]
    <3>1. n = N[t] /\ k = K[t] /\ todo' = todo
      BY <1>0, <1>6, <2>2
    <3>2. AtStage(t, n, k, P[t])'
      <4>1. AtStage(t, n, k, P[t])
        BY <1>2, <3>1 DEF CallAt
      <4>2. InCall(t)' /\ Head(todo'[t])[1] = "out"
        BY <1>1, <3>1 DEF InCall
      <4>. QED
        BY <1>6, <3>1, <4>1, <4>2 DEF AtStage, Script, M, Main
    <3>. QED
      BY <1>1, <1>2, <1>6, <1>7, <3>1, <3>2 DEF Top, InCall, Fresh, Script
  <2>. QED
    BY <2>1, <2>2
<1>9. Frame(t)
  BY <1>5, <1>6, <1>8 DEF Frame
<1>10. /\ IsRead(t)' = IsRead(t) /\ Main(t)' = Main(t) /\ M(t)' = M(t)
       /\ Script(t)' = Script(t) /\ WriteAt(t)' = WriteAt(t)
       /\ Done(t)' <=> Done(t)
  BY <1>6 DEF IsRead, Main, M, Script, WriteAt, Done
<1>11. /\ chip'.busy = chip.busy /\ chip'.wel = chip.wel /\ chip'.sel = chip.sel
       /\ chip.sel /\ ~half[t] /\ ~chip.odd =>
            chip'.odd = TRUE /\ chip'.bytes = chip.bytes
       /\ chip.sel /\ half[t] /\ chip.odd =>
            chip'.odd = FALSE /\ chip'.bytes = Append(chip.bytes, b)
  <2>1. half[t] \in BOOLEAN
    BY <1>5
  <2>2. CASE half[t]
    <3>1. chip' = HalfByte(chip, b) /\ chip \in Chip
      BY <1>5, <1>6, <2>2
    <3>2. /\ HalfByte(chip, b).busy = chip.busy
          /\ HalfByte(chip, b).wel = chip.wel /\ HalfByte(chip, b).sel = chip.sel
          /\ chip.sel /\ ~chip.odd => /\ HalfByte(chip, b).odd = TRUE
                                     /\ HalfByte(chip, b).bytes = chip.bytes
          /\ chip.sel /\ chip.odd =>
               /\ HalfByte(chip, b).odd = FALSE
               /\ HalfByte(chip, b).bytes = Append(chip.bytes, b)
      BY <3>1, HalfByteAt
    <3>. QED
      BY <2>2, <3>1, <3>2
  <2>3. CASE ~half[t]
    <3>1. chip' = HalfByte(chip, Garbled) /\ chip \in Chip
      BY <1>5, <1>6, <2>3
    <3>2. /\ HalfByte(chip, Garbled).busy = chip.busy
          /\ HalfByte(chip, Garbled).wel = chip.wel /\ HalfByte(chip, Garbled).sel = chip.sel
          /\ chip.sel /\ ~chip.odd => /\ HalfByte(chip, Garbled).odd = TRUE
                                     /\ HalfByte(chip, Garbled).bytes = chip.bytes
          /\ chip.sel /\ chip.odd =>
               /\ HalfByte(chip, Garbled).odd = FALSE
               /\ HalfByte(chip, Garbled).bytes = Append(chip.bytes, Garbled)
      BY <3>1, HalfByteAt
    <3>. QED
      BY <2>3, <3>1, <3>2
  <2>. QED
    BY <2>2, <2>3
<1>12. \/ ~half[t] /\ n = N[t] /\ k = K[t]
       \/ half[t] /\ k = "plain" /\ K[t] = "plain" /\ n = N[t] + 1
       \/ half[t] /\ k = "r3" /\ K[t] = "r2" /\ n = N[t]
  BY <1>0, <1>3 DEF NextPos, NextKind
<1>13. Inside(t, N[t], K[t]) /\ Inside(t, n, k)'
  <2>1. Within(IsRead(t), M(t), N[t], K[t])
    BY <1>3, <1>4 DEF Within
  <2>2. Within(IsRead(t), M(t), n, k)
    BY <1>3, <1>4, <1>12 DEF Within
  <2>. QED
    BY <1>10, <2>1, <2>2 DEF Inside
<1>14. ASSUME Sync(t, N[t], K[t]) PROVE Sync(t, n, k)'
  <2>1. chip.sel /\ chip.odd = half[t] /\ Heard(chip.bytes, IsRead(t), Main(t), N[t], K[t])
    BY <1>14 DEF Sync, BytesAt
  <2>2. chip'.sel /\ chip'.odd = half'[t]
    BY <1>5, <1>6, <1>11, <2>1
  <2>3. Heard(chip'.bytes, IsRead(t), Main(t), n, k)
    <3>1. CASE ~half[t]
      <4>1. chip'.bytes = chip.bytes /\ n = N[t] /\ k = K[t]
        BY <1>5, <1>11, <1>12, <2>1, <3>1
      <4>. QED
        BY <2>1, <4>1
    <3>2. CASE half[t]
      <4>1. chip'.bytes = Append(chip.bytes, b) /\ b \in Bytes
        BY <1>3, <1>11, <2>1, <3>2 DEF Bytes
      <4>2. CASE K[t] = "plain" /\ IsRead(t)
        <5>1. /\ N[t] \in {2, 3} /\ b = Main(t)[N[t] - 1] /\ FirstOf(chip.bytes, Main(t), N[t] - 2)
              /\ k = "plain" /\ n = N[t] + 1
          BY <1>3, <1>12, <2>1, <3>2, <4>2 DEF Heard
        <5>2. N[t] - 2 \in Nat /\ (N[t] - 2) + 1 = N[t] - 1 /\ n - 2 = N[t] - 1 /\ n \in 3 .. 4
          BY <5>1
        <5>3. /\ Len(chip'.bytes) = N[t] - 1
              /\ \A i \in 1 .. N[t] - 1 : chip'.bytes[i] = Main(t)[i]
          BY <1>5, <4>1, <5>1, <5>2, FirstMore DEF FirstOf
        <5>. QED
          BY <4>2, <5>1, <5>2, <5>3, SMTT(30) DEF Heard, FirstOf
      <4>3. CASE K[t] = "plain" /\ ~IsRead(t) /\ N[t] = 2
        <5>1. b = WREN_INST /\ Len(chip.bytes) = 0 /\ k = "plain" /\ n = 3
          BY <1>3, <1>12, <2>1, <3>2, <4>3 DEF Heard
        <5>2. Len(chip'.bytes) = 1 /\ chip'.bytes[1] = WREN_INST
          BY <1>5, <4>1, <5>1, AppendProperties
        <5>. QED
          BY <4>3, <5>1, <5>2 DEF Heard
      <4>4. CASE K[t] = "plain" /\ ~IsRead(t) /\ N[t] # 2
        <5>1. /\ N[t] \in 5 .. 4 + M(t) /\ b = Main(t)[N[t] - 4]
              /\ k = "plain" /\ n = N[t] + 1
          BY <1>3, <1>12, <3>2, <4>4
        <5>2. /\ N[t] - 5 \in Nat /\ (N[t] - 5) + 1 = N[t] - 4 /\ n - 5 = N[t] - 4
              /\ N[t] \in 5 .. 5 + M(t) /\ n \in 6 .. 5 + M(t)
          BY <1>4, <5>1
        <5>3. FirstOf(chip.bytes, Main(t), N[t] - 5)
          BY <2>1, <4>4, <5>2 DEF Heard, M
        <5>4. /\ Len(chip'.bytes) = N[t] - 4
              /\ \A i \in 1 .. N[t] - 4 : chip'.bytes[i] = Main(t)[i]
          BY <1>5, <4>1, <5>1, <5>2, <5>3, FirstMore DEF FirstOf
        <5>. QED
          BY <4>4, <5>1, <5>2, <5>4 DEF Heard, FirstOf, M
      <4>5. CASE K[t] = "r2"
        <5>1. b = RDSR_INST /\ Len(chip.bytes) = 0 /\ k = "r3"
          BY <1>3, <1>12, <2>1, <3>2, <4>5 DEF Heard
        <5>2. Len(chip'.bytes) = 1 /\ chip'.bytes[1] = RDSR_INST
          BY <1>5, <4>1, <5>1, AppendProperties
        <5>. QED
          BY <5>1, <5>2 DEF Heard
      <4>. QED
        BY <1>3, <4>2, <4>3, <4>4, <4>5
    <3>. QED
      BY <3>1, <3>2
  <2>. QED
    BY <1>8, <1>10, <2>2, <2>3 DEF Sync, BytesAt
<1>15. InSync(t, n, k)'
  <2>1. InSync(t, N[t], K[t])
    BY <1>2 DEF CallAt
  <2>2. Untouched(t)' => Untouched(t)
    BY <1>1, <1>6, <1>8 DEF Untouched, InCall
  <2>. QED
    BY <1>6, <1>7, <1>11, <1>13, <1>14, <2>1, <2>2 DEF InSync
<1>16. Phase(t, n, k)'
  <2>1. Phase(t, N[t], K[t]) /\ disturbed'[t] = disturbed[t]
    BY <1>2, <1>6 DEF CallAt
  <2>2. WriteAt(t) = IF IsRead(t) THEN 4 ELSE 5 + M(t)
    BY DEF WriteAt
  <2>3. ASSUME ~disturbed[t]
        PROVE  /\ k = "plain" /\ n <= WriteAt(t) => ~chip.busy
               /\ k = "plain" /\ ~IsRead(t) /\ n \in 4 .. 5 + M(t) => chip.wel
               /\ k # "plain" \/ n > WriteAt(t) => Done(t)
    <3>1. /\ K[t] = "plain" /\ N[t] <= WriteAt(t) => ~chip.busy
          /\ K[t] = "plain" /\ ~IsRead(t) /\ N[t] \in 4 .. 5 + M(t) => chip.wel
          /\ K[t] # "plain" \/ N[t] > WriteAt(t) => Done(t)
      BY <2>1, <2>3 DEF Phase
    <3>2. CASE K[t] = "plain" /\ IsRead(t)
      BY <1>3, <1>4, <1>12, <2>2, <3>1, <3>2
    <3>3. CASE K[t] = "plain" /\ ~IsRead(t)
      BY <1>3, <1>4, <1>12, <2>2, <3>1, <3>3
    <3>4. CASE K[t] = "r2"
      BY <1>12, <3>1, <3>4
    <3>. QED
      BY <1>3, <3>2, <3>3, <3>4
  <2>4. /\ k = "plain" /\ n <= WriteAt(t) => ~chip.busy
        /\ k = "plain" /\ ~IsRead(t) /\ n \in 4 .. 5 + M(t) => chip.wel
        /\ k # "plain" \/ n > WriteAt(t) => Done(t)
        \/ disturbed'[t]
    BY <2>1, <2>3
  <2>. QED
    BY <1>10, <1>11, <2>4 DEF Phase
<1>17. WillPoll(t, N[t], K[t]) => WillPoll(t, n, k)'
  <2>1. N[t] <= Len(Script(t)) /\ ~IsRead(t) => n <= Len(Script(t))
    BY <1>2, <1>3, <1>4, <1>12
  <2>2. /\ K[t] \in {"poll", "r1", "r2", "r3"} => k \in {"poll", "r1", "r2", "r3"}
        /\ ~(K[t] \in {"r4", "r5"})
    BY <1>3, <1>12
  <2>. QED
    BY <1>10, <2>1, <2>2 DEF WillPoll
<1>18. \/ InCall(t)' /\ WillPoll(t, n, k)'
       \/ ~WillPoll(t, N[t], K[t])
  BY <1>8, <1>17
<1>19. Moved(N, K, t, n, k, P[t])
  BY <1>1, <1>6, <1>7, <1>8, <1>9, <1>11, <1>15, <1>16, <1>18 DEF Moved
<1>. QED
  BY <1>2, <1>19

LEMMA OneByte ==
  ASSUME NEW s \in Seq(Bytes), NEW b, Len(s) = 1, s[1] = b
  PROVE  s = <<b>>
<1>1. s = [i \in 1 .. Len(s) |-> s[i]]
  OBVIOUS
<1>2. \A i \in 1 .. 1 : s[i] = b
  OBVIOUS
<1>. QED
  BY <1>1, <1>2

LEMMA OwnCell ==
  ASSUME NEW a \in Addrs
  PROVE  a \in Cells
<1>1. 0 \in 0 .. Len(PageData) - 1 /\ a + 0 = a
  BY PageDataAssumption, LenProperties, AddrsAssumption
<1>. QED
  BY <1>1 DEF Cells

LEMMA InMoves ==
  ASSUME NEW N, NEW K, NEW P, InvAt(N, K, P), NEW t \in Prios, inputbyte(t)
  PROVE  /\ Runs(t)
         /\ Moved(N, K, t, NextPos(N[t], K[t]), NextKind(K[t]), P[t])
<1>. DEFINE n == NextPos(N[t], K[t])
            k == NextKind(K[t])
            in == IF chip.odd THEN Garbled ELSE 0
<1>1. Runs(t) /\ Head(todo[t])[1] = "in" /\ InCall(t)
  BY DEF inputbyte, Head1, Runs
<1>2. /\ Typed(t) /\ CallAt(t, N[t], K[t], P[t])
      /\ BytesOf(call[t].op, call[t].x, Main(t))
      /\ Len(Script(t)) = ScriptLength(call[t].op, Main(t))
      /\ NextIs(call[t].op, call[t].x, N[t], K[t], P[t], Head(todo[t]), Tail(todo[t]))
      /\ K[t] # "plain" => ~IsRead(t) /\ N[t] \in {7 + M(t), 9 + M(t)}
      /\ Fresh(t) <=> K[t] = "plain" /\ N[t] = 1
      /\ ~Fresh(t) => Top(t)
  BY <1>1, Running
<1>3. \/ K[t] = "plain" /\ IsRead(t) /\ N[t] = 4
      \/ K[t] = "r3" /\ ~IsRead(t)
  <2>1. Doing(call[t].op, Main(t), N[t], K[t], P[t], Head(todo[t]))
    BY <1>2, WhatNext DEF Main
  <2>. QED
    BY <1>1, <1>2, <2>1 DEF Doing, IsRead
<1>4. M(t) \in Nat /\ M(t) >= 2 /\ Len(Script(t)) \in Nat /\ Len(Script(t)) >= 5
      /\ (IsRead(t) => M(t) = 2 /\ Len(Script(t)) = 5)
  BY <1>2 DEF BytesOf, M, ScriptLength, IsRead
<1>5. /\ chip \in Chip /\ half \in [Prios -> BOOLEAN] /\ chip.bytes \in Seq(Bytes)
      /\ chip.odd \in BOOLEAN /\ chip.busy \in BOOLEAN /\ got \in [Prios -> Bytes]
      /\ chip.sel \in BOOLEAN
  BY DEF InvAt, X5045TypeOK, Chip, Bytes
<1>6. half[t] = FALSE /\ in \in Bytes
  BY <1>1, <1>2, <1>5 DEF CallAt, AtStage, Bytes
<1>7. /\ call' = call /\ half' = half /\ mem' = mem /\ wdTime' = wdTime
      /\ cut' = cut /\ gaveUp' = gaveUp /\ mixed' = mixed /\ disturbed' = disturbed
      /\ Proceed(t, <<>>) /\ chip' = IF ~chip.sel THEN chip ELSE Received(chip, in)
  BY DEF inputbyte, history
<1>8. PICK byte \in Output(chip) : got' = [got EXCEPT ![t] = byte]
  BY DEF inputbyte
<1>9. /\ AtStage(t, n, k, P[t])' /\ ~(k = "plain" /\ n = 1)
      /\ InCall(t)' <=> ~(k = "plain" /\ n = Len(Script(t)) + 1)
      /\ InCall(t)' => Top(t)'
      /\ \A u \in Prios \ {t} : todo'[u] = todo[u]
  BY <1>1, <1>6, <1>7, Advance
<1>10. Frame(t) /\ got'[t] = byte
  BY <1>5, <1>7, <1>8, <1>9 DEF Frame
<1>11. \/ k = "plain" /\ n = 5 /\ IsRead(t) /\ K[t] = "plain" /\ N[t] = 4
       \/ k = "r4" /\ ~IsRead(t) /\ K[t] = "r3" /\ n = N[t]
  BY <1>3 DEF NextPos, NextKind
<1>12. /\ IsRead(t)' = IsRead(t) /\ Main(t)' = Main(t) /\ M(t)' = M(t)
       /\ Script(t)' = Script(t) /\ WriteAt(t)' = WriteAt(t)
       /\ WriteAt(t) = IF IsRead(t) THEN 4 ELSE 5 + M(t)
  BY <1>7 DEF IsRead, Main, M, Script, WriteAt
<1>. HIDE DEF n, k, in
<1>13. InCall(t)' /\ Top(t)' /\ ~Fresh(t) /\ Top(t)
  BY <1>2, <1>4, <1>9, <1>11
<1>14. /\ chip'.busy = chip.busy /\ chip'.wel = chip.wel /\ chip'.sel = chip.sel
       /\ chip'.odd = chip.odd
       /\ chip.sel => chip'.bytes = Append(chip.bytes, in)
  BY <1>5, <1>7 DEF Chip, Received
<1>15. Inside(t, N[t], K[t]) /\ Inside(t, n, k)'
  <2>1. Within(IsRead(t), M(t), N[t], K[t]) /\ Within(IsRead(t), M(t), n, k)
    BY <1>11 DEF Within
  <2>. QED
    BY <1>12, <2>1 DEF Inside
<1>16. ASSUME Sync(t, N[t], K[t]) PROVE Sync(t, n, k)'
  <2>1. chip.sel /\ chip.odd = half[t] /\ Heard(chip.bytes, IsRead(t), Main(t), N[t], K[t])
    BY <1>16 DEF Sync, BytesAt
  <2>2. /\ Len(chip'.bytes) = Len(chip.bytes) + 1
        /\ \A i \in 1 .. Len(chip.bytes) : chip'.bytes[i] = chip.bytes[i]
    BY <1>5, <1>6, <1>14, <2>1, AppendProperties
  <2>3. Heard(chip'.bytes, IsRead(t), Main(t), n, k)
    <3>1. CASE K[t] = "plain"
      <4>1. Len(chip.bytes) = 2 /\ chip.bytes[1] = Main(t)[1]
        <5>1. 4 \in 2 .. 4 /\ 4 - 2 = 2 /\ 1 \in 1 .. 2
          OBVIOUS
        <5>2. FirstOf(chip.bytes, Main(t), 2)
          BY <1>11, <2>1, <3>1, <5>1 DEF Heard
        <5>. QED
          BY <5>1, <5>2 DEF FirstOf
      <4>2. Len(chip'.bytes) = 3 /\ chip'.bytes[1] = Main(t)[1]
        BY <2>2, <4>1
      <4>. QED
        BY <1>11, <3>1, <4>2 DEF Heard
    <3>2. CASE K[t] = "r3"
      <4>1. Len(chip.bytes) = 1 /\ chip.bytes[1] = RDSR_INST
        BY <2>1, <3>2 DEF Heard
      <4>2. Len(chip'.bytes) = 2 /\ chip'.bytes[1] = RDSR_INST
        BY <2>2, <4>1
      <4>. QED
        BY <1>11, <3>2, <4>2 DEF Heard
    <3>. QED
      BY <1>11, <3>1, <3>2
  <2>. QED
    BY <1>7, <1>12, <1>13, <1>14, <2>1, <2>3 DEF Sync, BytesAt
<1>17. InSync(t, N[t], K[t]) /\ Phase(t, N[t], K[t])
  BY <1>2 DEF CallAt
<1>18. InSync(t, n, k)'
  <2>1. Untouched(t)' => Untouched(t)
    BY <1>1, <1>7, <1>9 DEF Untouched, InCall
  <2>. QED
    BY <1>7, <1>13, <1>14, <1>15, <1>16, <1>17, <2>1 DEF InSync
<1>19. ASSUME ~disturbed[t], IsRead(t) PROVE Done(t)'
  <2>1. Untouched(t) /\ ~chip.busy
    <3>1. t >= t
      BY PriosAssumption
    <3>. QED
      BY <1>1, <1>11, <1>12, <1>17, <1>19, <3>1 DEF Untouched, Phase
  <2>2. /\ chip.sel /\ ~chip.odd /\ FirstOf(chip.bytes, Main(t), 2)
    BY <1>6, <1>11, <1>15, <1>17, <1>19, <2>1 DEF InSync, Sync, BytesAt, Heard
  <2>3. /\ call[t].op = "Fct_ByteRead" /\ call[t].x \in Addrs
        /\ Main(t)[1] \in {READ_INST, READ_INST + 8}
        /\ Main(t)[2] + 256 * (Main(t)[1] \div 8) = call[t].x
    BY <1>2, <1>19 DEF Typed, Arguments, BytesOf, IsRead
  <2>4. /\ Len(chip.bytes) = 2 /\ chip.bytes[1] = Main(t)[1] /\ chip.bytes[2] = Main(t)[2]
    BY <2>2 DEF FirstOf
  <2>5. AddressOf(chip.bytes) = call[t].x /\ call[t].x \in Cells /\ Acts(chip)
    BY <2>1, <2>2, <2>3, <2>4, OwnCell DEF AddressOf, Acts
  <2>6. chip.bytes # <<RDSR_INST>>
    BY <2>4
  <2>7. Output(chip) = {mem[call[t].x]}
    BY <2>3, <2>4, <2>5, <2>6 DEF Output
  <2>. QED
    BY <1>7, <1>8, <1>10, <2>3, <2>7 DEF Done
<1>20. Phase(t, n, k)'
  <2>1. ASSUME ~IsRead(t), Done(t) PROVE Done(t)'
    <3>1. call[t].op \in {"Fct_ByteWrite", "page_write", "WDT_SetTime"}
      BY <1>2, <2>1 DEF Typed, Ops, IsRead
    <3>. QED
      BY <1>7, <2>1, <3>1 DEF Done
  <2>2. ASSUME ~disturbed[t]
        PROVE  /\ k = "plain" /\ n <= WriteAt(t) => ~chip.busy
               /\ k = "plain" /\ ~IsRead(t) /\ n \in 4 .. 5 + M(t) => chip.wel
               /\ k # "plain" \/ n > WriteAt(t) => Done(t)'
    BY <1>11, <1>12, <1>17, <1>19, <2>1, <2>2 DEF Phase
  <2>. QED
    BY <1>7, <1>12, <1>14, <2>2 DEF Phase
<1>21. ASSUME chip.busy, ~(gaveUp \/ cut \/ mixed), WillPoll(t, N[t], K[t])
       PROVE  WillPoll(t, n, k)'
  <2>1. k = "r4" /\ K[t] = "r3" /\ ~IsRead(t)
    BY <1>11, <1>21 DEF WillPoll
  <2>2. chip.sel /\ ~chip.odd /\ Len(chip.bytes) = 1 /\ chip.bytes[1] = RDSR_INST
    BY <1>6, <1>15, <1>17, <1>21, <2>1 DEF InSync, Sync, BytesAt, Heard
  <2>3. chip.bytes = <<RDSR_INST>>
    BY <1>5, <2>2, OneByte
  <2>4. Output(chip) = {1}
    BY <1>21, <2>2, <2>3 DEF Output
  <2>5. got'[t] % 2 = 1
    BY <1>8, <1>10, <2>4
  <2>. QED
    BY <1>12, <2>1, <2>5 DEF WillPoll
<1>22. Moved(N, K, t, n, k, P[t])
  BY <1>1, <1>7, <1>9, <1>10, <1>13, <1>14, <1>18, <1>20, <1>21 DEF Moved
<1>. QED
  BY <1>1, <1>22 DEF n, k

-----------------------------------------------------------------------------
(* What raising chip select does.                                          *)

LEMMA DeselectAt ==
  ASSUME chip \in Chip, Deselect
  PROVE  /\ chip'.sel = FALSE
         /\ chip'.busy <=> chip.busy \/ SetsTime(chip) \/ Stores(chip)
         /\ chip'.wel <=> chip.wel \/ Latches(chip)
         /\ ~SetsTime(chip) => wdTime' = wdTime
         /\ ~Stores(chip) => mem' = mem
         /\ SetsTime(chip) => wdTime' = chip.bytes[2]
         /\ ~chip.sel => ~SetsTime(chip) /\ ~Stores(chip) /\ ~Latches(chip)
BY DEF Deselect, Chip, Acts, SetsTime, Stores, Latches

(* A store puts the bytes after the address in the cells from there on.    *)
LEMMA StorePuts ==
  ASSUME NEW op \in Ops, NEW x \in Arguments(op), NEW B, BytesOf(op, x, B),
         op # "WDT_SetTime", NEW j \in 3 .. Len(B), FirstOf(chip.bytes, B, j),
         Stores(chip), Deselect
  PROVE  mem' = [a \in Cells |-> IF a - x \in 0 .. j - 3 THEN B[(a - x) + 3] ELSE mem[a]]
<1>1. Len(B) \in Nat /\ B[2] + 256 * (B[1] \div 8) = x
  BY DEF BytesOf
<1>2. /\ Len(chip.bytes) = j /\ chip.bytes[1] = B[1] /\ chip.bytes[2] = B[2]
      /\ \A i \in 0 .. j - 3 : chip.bytes[i + 3] = B[i + 3]
  <2>1. 1 \in 1 .. j /\ 2 \in 1 .. j /\ \A i \in 0 .. j - 3 : i + 3 \in 1 .. j
    BY <1>1
  <2>. QED
    BY <2>1 DEF FirstOf
<1>3. AddressOf(chip.bytes) = x
  BY <1>1, <1>2 DEF AddressOf
<1>4. mem' = [a \in Cells |->
                LET i == a - AddressOf(chip.bytes)
                IN IF i \in 0 .. Len(chip.bytes) - 3 THEN chip.bytes[i + 3] ELSE mem[a]]
  BY DEF Deselect
<1>5. mem' = [a \in Cells |->
                IF a - x \in 0 .. j - 3 THEN chip.bytes[(a - x) + 3] ELSE mem[a]]
  BY <1>2, <1>3, <1>4
<1>6. \A a \in Cells :
        (IF a - x \in 0 .. j - 3 THEN chip.bytes[(a - x) + 3] ELSE mem[a])
          = (IF a - x \in 0 .. j - 3 THEN B[(a - x) + 3] ELSE mem[a])
  BY <1>2
<1>. QED
  BY <1>5, <1>6

LEMMA HighMoves ==
  ASSUME NEW N, NEW K, NEW P, InvAt(N, K, P), NEW t \in Prios, ChipSelectHigh(t)
  PROVE  /\ Runs(t)
         /\ Moved(N, K, t, NextPos(N[t], K[t]), NextKind(K[t]), P[t])
<1>. DEFINE n == NextPos(N[t], K[t])
            k == NextKind(K[t])
            x == call[t].x
<1>1. Runs(t) /\ Head(todo[t])[1] = "deselect" /\ InCall(t)
  BY DEF ChipSelectHigh, Head1, Runs
<1>2. /\ Typed(t) /\ CallAt(t, N[t], K[t], P[t])
      /\ BytesOf(call[t].op, call[t].x, Main(t))
      /\ Len(Script(t)) = ScriptLength(call[t].op, Main(t))
      /\ NextIs(call[t].op, call[t].x, N[t], K[t], P[t], Head(todo[t]), Tail(todo[t]))
      /\ K[t] # "plain" => ~IsRead(t) /\ N[t] \in {7 + M(t), 9 + M(t)}
      /\ Fresh(t) <=> K[t] = "plain" /\ N[t] = 1
      /\ ~Fresh(t) => Top(t)
      /\ \A u \in Prios : u # t /\ InCall(u) => u > t
  BY <1>1, Running
<1>3. \/ K[t] = "plain" /\ IsRead(t) /\ N[t] = 5
      \/ K[t] = "plain" /\ ~IsRead(t) /\ N[t] = 3
      \/ K[t] = "plain" /\ ~IsRead(t) /\ N[t] = 5 + M(t)
      \/ K[t] = "plain" /\ ~IsRead(t) /\ call[t].op = "WDT_SetTime" /\ N[t] = 7 + M(t)
      \/ K[t] = "r4" /\ ~IsRead(t)
  <2>1. Doing(call[t].op, Main(t), N[t], K[t], P[t], Head(todo[t]))
    BY <1>2, WhatNext DEF Main
  <2>. QED
    BY <1>1, <1>2, <2>1 DEF Doing, IsRead, M
<1>4. /\ M(t) \in Nat /\ M(t) >= 2 /\ Len(Script(t)) \in Nat
      /\ (~IsRead(t) => Len(Script(t)) >= 6 + M(t))
      /\ (call[t].op = "WDT_SetTime" => Len(Script(t)) = 8 + M(t))
  BY <1>2 DEF BytesOf, M, ScriptLength, IsRead
<1>5. /\ chip \in Chip /\ half \in [Prios -> BOOLEAN] /\ chip.bytes \in Seq(Bytes)
      /\ chip.odd \in BOOLEAN /\ chip.busy \in BOOLEAN /\ chip.sel \in BOOLEAN
  BY DEF InvAt, X5045TypeOK, Chip, Bytes
<1>6. half[t] = FALSE
  BY <1>1, <1>2, <1>5 DEF CallAt, AtStage
<1>7. /\ call' = call /\ half' = half /\ got' = got
      /\ cut' = cut /\ gaveUp' = gaveUp /\ mixed' = mixed /\ disturbed' = disturbed
      /\ Proceed(t, <<>>) /\ Deselect
  BY DEF ChipSelectHigh, history
<1>8. /\ AtStage(t, n, k, P[t])' /\ ~(k = "plain" /\ n = 1)
      /\ InCall(t)' <=> ~(k = "plain" /\ n = Len(Script(t)) + 1)
      /\ \A u \in Prios \ {t} : todo'[u] = todo[u]
  BY <1>1, <1>6, <1>7, Advance
<1>9. Frame(t)
  BY <1>7, <1>8 DEF Frame
<1>10. \/ k = "plain" /\ n = 6 /\ IsRead(t) /\ K[t] = "plain" /\ N[t] = 5
       \/ k = "plain" /\ n = 4 /\ ~IsRead(t) /\ K[t] = "plain" /\ N[t] = 3
       \/ k = "plain" /\ n = 6 + M(t) /\ ~IsRead(t) /\ K[t] = "plain" /\ N[t] = 5 + M(t)
       \/ /\ k = "plain" /\ n = 8 + M(t) /\ ~IsRead(t) /\ call[t].op = "WDT_SetTime"
          /\ K[t] = "plain" /\ N[t] = 7 + M(t)
       \/ k = "r5" /\ ~IsRead(t) /\ K[t] = "r4" /\ n = N[t]
  BY <1>3, <1>4 DEF NextPos, NextKind
<1>11. /\ IsRead(t)' = IsRead(t) /\ Main(t)' = Main(t) /\ M(t)' = M(t)
       /\ Script(t)' = Script(t) /\ WriteAt(t)' = WriteAt(t)
       /\ WriteAt(t) = IF IsRead(t) THEN 4 ELSE 5 + M(t)
  BY <1>7 DEF IsRead, Main, M, Script, WriteAt
<1>. HIDE DEF n, k
<1>12. ~Fresh(t) /\ Top(t)
  BY <1>2, <1>4, <1>3
<1>13. /\ chip'.sel = FALSE
       /\ chip'.busy <=> chip.busy \/ SetsTime(chip) \/ Stores(chip)
       /\ chip'.wel <=> chip.wel \/ Latches(chip)
       /\ ~SetsTime(chip) => wdTime' = wdTime
       /\ ~Stores(chip) => mem' = mem
       /\ SetsTime(chip) => wdTime' = chip.bytes[2]
       /\ ~chip.sel => ~SetsTime(chip) /\ ~Stores(chip) /\ ~Latches(chip)
  BY <1>5, <1>7, DeselectAt
<1>14. InSync(t, n, k)'
  <2>1. ~Within(IsRead(t), M(t), n, k)
    BY <1>4, <1>10 DEF Within
  <2>. QED
    BY <1>11, <1>13, <2>1 DEF InSync, Inside
<1>15. InSync(t, N[t], K[t]) /\ Phase(t, N[t], K[t])
  BY <1>2 DEF CallAt
<1>16. Inside(t, N[t], K[t]) <=> ~(K[t] = "plain" /\ ~IsRead(t) /\ N[t] = 7 + M(t))
  BY <1>3, <1>4 DEF Inside, Within
(* What the chip has received if the call is in step with it.              *)
<1>17. ASSUME Sync(t, N[t], K[t])
       PROVE  /\ chip.sel /\ ~chip.odd
              /\ K[t] = "plain" /\ IsRead(t) => Len(chip.bytes) = 3 /\ chip.bytes[1] = Main(t)[1]
              /\ K[t] = "plain" /\ ~IsRead(t) /\ N[t] = 3 =>
                   Len(chip.bytes) = 1 /\ chip.bytes[1] = WREN_INST
              /\ K[t] = "plain" /\ ~IsRead(t) /\ N[t] = 5 + M(t) =>
                   FirstOf(chip.bytes, Main(t), M(t))
              /\ K[t] = "r4" => Len(chip.bytes) = 2 /\ chip.bytes[1] = RDSR_INST
  <2>1. /\ chip.sel /\ chip.odd = half[t]
        /\ Heard(chip.bytes, IsRead(t), Main(t), N[t], K[t])
    BY <1>17 DEF Sync, BytesAt
  <2>2. 5 + M(t) \in 5 .. 5 + M(t) /\ (5 + M(t)) - 5 = M(t)
    BY <1>4
  <2>3. K[t] = "plain" /\ ~IsRead(t) /\ N[t] = 5 + M(t) => FirstOf(chip.bytes, Main(t), M(t))
    BY <2>1, <2>2 DEF Heard, M
  <2>. QED
    BY <1>3, <1>6, <2>1, <2>3 DEF Heard
(* Only the main transaction of a write does anything to the cells or the  *)
(* period.                                                                 *)
<1>18. ASSUME Sync(t, N[t], K[t]), IsRead(t) \/ N[t] = 3 \/ K[t] = "r4"
       PROVE  ~SetsTime(chip) /\ ~Stores(chip)
  <2>1. IsRead(t) => Main(t)[1] \in {READ_INST, READ_INST + 8}
    BY <1>2 DEF BytesOf, IsRead
  <2>2. \/ Len(chip.bytes) = 3 /\ chip.bytes[1] \in {READ_INST, READ_INST + 8}
        \/ Len(chip.bytes) = 1
        \/ Len(chip.bytes) = 2 /\ chip.bytes[1] = RDSR_INST
    BY <1>3, <1>4, <1>17, <1>18, <2>1
  <2>. QED
    BY <2>2, SMTT(30) DEF SetsTime, Stores
<1>19. ASSUME NEW u \in Prios, u > t, InCall(u), ~disturbed[u]
       PROVE  (chip'.busy => chip.busy) /\ (chip.wel => chip'.wel) /\ mem' = mem /\ wdTime' = wdTime
  <2>1. IsRead(t) /\ Untouched(t)
    <3>1. t < u /\ u >= t
      BY <1>19, PriosAssumption
    <3>2. u # t
      BY <1>19, PriosAssumption
    <3>3. OnlyReads(u)
      BY <1>19 DEF InvAt, Calls, CallAt
    <3>. QED
      BY <1>1, <1>19, <3>1, <3>3 DEF OnlyReads, Untouched
  <2>2. ~SetsTime(chip) /\ ~Stores(chip)
    BY <1>15, <1>16, <1>18, <2>1 DEF InSync
  <2>. QED
    BY <1>13, <2>2
<1>20. ASSUME ~disturbed[t] PROVE Untouched(t)
  <2>1. t >= t
    BY PriosAssumption
  <2>. QED
    BY <1>1, <1>20, <2>1 DEF Untouched
<1>21. ASSUME ~disturbed[t]
       PROVE  /\ k = "plain" /\ n <= WriteAt(t) => ~chip'.busy
              /\ k = "plain" /\ ~IsRead(t) /\ n \in 4 .. 5 + M(t) => chip'.wel
              /\ k # "plain" \/ n > WriteAt(t) => Done(t)'
  <2>1. /\ K[t] = "plain" /\ N[t] <= WriteAt(t) => ~chip.busy
        /\ K[t] = "plain" /\ ~IsRead(t) /\ N[t] \in 4 .. 5 + M(t) => chip.wel
        /\ K[t] # "plain" \/ N[t] > WriteAt(t) => Done(t)
    BY <1>15, <1>21 DEF Phase
  <2>2. ASSUME mem' = mem, wdTime' = wdTime, Done(t) PROVE Done(t)'
    BY <1>7, <2>2 DEF Done
  <2>3. CASE K[t] = "plain" /\ IsRead(t)
    <3>1. Sync(t, N[t], K[t]) /\ Done(t)
      BY <1>3, <1>11, <1>15, <1>16, <1>20, <1>21, <2>1, <2>3 DEF InSync
    <3>. QED
      BY <1>10, <1>11, <1>13, <1>18, <2>2, <2>3, <3>1
  <2>4. CASE K[t] = "plain" /\ ~IsRead(t) /\ N[t] = 3
    <3>1. Sync(t, N[t], K[t]) /\ ~chip.busy
      BY <1>4, <1>11, <1>15, <1>16, <1>20, <1>21, <2>1, <2>4 DEF InSync
    <3>2. k = "plain" /\ n = 4
      BY <1>4, <1>10, <2>4
    <3>3. ~SetsTime(chip) /\ ~Stores(chip)
      BY <1>18, <2>4, <3>1
    <3>4. chip.bytes = <<WREN_INST>>
      BY <1>5, <1>17, <2>4, <3>1, OneByte
    <3>5. Latches(chip)
      BY <1>17, <2>4, <3>1, <3>4 DEF Latches, Acts
    <3>. QED
      BY <1>4, <1>11, <1>13, <2>4, <3>1, <3>2, <3>3, <3>5
  <2>5. CASE K[t] = "plain" /\ ~IsRead(t) /\ N[t] = 5 + M(t)
    <3>1. Sync(t, N[t], K[t]) /\ ~chip.busy /\ chip.wel
      BY <1>4, <1>11, <1>15, <1>16, <1>20, <1>21, <2>1, <2>5 DEF InSync
    <3>2. k = "plain" /\ n = 6 + M(t)
      BY <1>4, <1>10, <2>5
    <3>3. FirstOf(chip.bytes, Main(t), M(t)) /\ Acts(chip) /\ Len(chip.bytes) = M(t)
      BY <1>4, <1>17, <2>5, <3>1 DEF Acts, FirstOf
    <3>4. chip.bytes[1] = Main(t)[1] /\ chip.bytes[2] = Main(t)[2]
      BY <1>4, <3>3 DEF FirstOf
    <3>5. CASE call[t].op = "WDT_SetTime"
      <4>1. M(t) = 2 /\ Main(t)[1] = WRSR_INST /\ Main(t)[2] = Period(x)
        BY <1>2, <3>5 DEF BytesOf, M
      <4>2. SetsTime(chip)
        BY <3>1, <3>3, <3>4, <4>1 DEF SetsTime
      <4>. QED
        BY <1>4, <1>7, <1>11, <1>13, <2>5, <3>2, <3>4, <3>5, <4>1, <4>2 DEF Done
    <3>6. CASE call[t].op \in {"Fct_ByteWrite", "page_write"}
      <4>1. /\ x \in Addrs /\ M(t) >= 3 /\ Main(t)[1] \in {WRITE_INST, WRITE_INST + 8}
            /\ call[t].op = "Fct_ByteWrite" => M(t) = 3 /\ Main(t)[3] = ByteData
            /\ call[t].op = "page_write" =>
                 /\ M(t) = 2 + Len(PageData)
                 /\ \A i \in 1 .. Len(PageData) : Main(t)[2 + i] = PageData[i]
        BY <1>2, <3>6, PageDataAssumption, LenProperties DEF BytesOf, M, Typed, Arguments
      <4>2. Stores(chip)
        BY <1>4, <3>1, <3>3, <3>4, <4>1 DEF Stores
      <4>3. /\ call[t].op \in Ops /\ x \in Arguments(call[t].op)
            /\ M(t) \in 3 .. Len(Main(t)) /\ call[t].op # "WDT_SetTime"
        BY <1>2, <1>4, <3>6, <4>1 DEF Typed, M
      <4>4. mem' = [a \in Cells |->
                      IF a - x \in 0 .. M(t) - 3 THEN Main(t)[(a - x) + 3] ELSE mem[a]]
        BY <1>2, <1>7, <3>3, <4>2, <4>3, StorePuts
      <4>5. x \in Nat
        <5>1. x \in 0 .. 511
          BY <4>1, AddrsAssumption, Zenon
        <5>. QED
          BY <5>1
      <4>6. Done(t)'
        <5>1. CASE call[t].op = "Fct_ByteWrite"
          <6>1. x \in Cells /\ x - x \in 0 .. M(t) - 3 /\ (x - x) + 3 = 3
            BY <4>1, <4>5, <5>1, OwnCell
          <6>2. mem'[x] = ByteData
            BY <4>1, <4>4, <5>1, <6>1
          <6>. QED
            BY <1>7, <5>1, <6>2 DEF Done
        <5>2. CASE call[t].op = "page_write"
          <6>1. ASSUME NEW i \in 1 .. Len(PageData)
                PROVE  mem'[x + i - 1] = PageData[i]
            <7>1. Len(PageData) \in Nat
              BY PageDataAssumption, LenProperties
            <7>2. /\ i - 1 \in 0 .. Len(PageData) - 1 /\ x + i - 1 = x + (i - 1)
                  /\ (x + i - 1) - x \in 0 .. M(t) - 3 /\ ((x + i - 1) - x) + 3 = 2 + i
              BY <4>1, <4>5, <5>2, <7>1
            <7>3. x + i - 1 \in Cells
              BY <4>1, <7>2 DEF Cells
            <7>. QED
              BY <4>1, <4>4, <5>2, <7>2, <7>3
          <6>. QED
            BY <1>7, <5>2, <6>1 DEF Done
        <5>. QED
          BY <3>6, <5>1, <5>2
      <4>. QED
        BY <1>4, <1>11, <2>5, <3>2, <4>6
    <3>. QED
      BY <1>2, <2>5, <3>5, <3>6 DEF Typed, Ops, IsRead
  <2>6. CASE K[t] = "plain" /\ ~IsRead(t) /\ N[t] = 7 + M(t)
    <3>1. ~chip.sel /\ Done(t)
      BY <1>4, <1>11, <1>12, <1>15, <1>16, <1>21, <2>1, <2>6 DEF InSync
    <3>2. k = "plain" /\ n = 8 + M(t)
      BY <1>4, <1>10, <2>6
    <3>. QED
      BY <1>4, <1>11, <1>13, <2>2, <2>6, <3>1, <3>2
  <2>7. CASE K[t] = "r4"
    <3>1. Sync(t, N[t], K[t]) /\ Done(t)
      BY <1>15, <1>16, <1>20, <1>21, <2>1, <2>7 DEF InSync
    <3>. QED
      BY <1>10, <1>13, <1>18, <2>2, <2>7, <3>1
  <2>. QED
    BY <1>3, <2>3, <2>4, <2>5, <2>6, <2>7
<1>22. Phase(t, n, k)'
  BY <1>7, <1>11, <1>21 DEF Phase
<1>23. ASSUME chip'.busy, ~(gaveUp' \/ cut' \/ mixed')
       PROVE  \/ InCall(t)' /\ WillPoll(t, n, k)'
              \/ chip.busy /\ ~(gaveUp \/ cut \/ mixed) /\ ~WillPoll(t, N[t], K[t])
  <2>1. CASE K[t] = "plain" /\ ~IsRead(t)
    <3>1. n <= Len(Script(t)) /\ k = "plain"
      BY <1>4, <1>10, <2>1
    <3>. QED
      BY <1>4, <1>8, <1>11, <2>1, <3>1 DEF WillPoll
  <2>2. CASE ~(K[t] = "plain" /\ ~IsRead(t))
    <3>1. chip.busy
      <4>1. ASSUME SetsTime(chip) \/ Stores(chip) PROVE FALSE
        <5>1. chip.sel
          BY <1>13, <4>1
        <5>2. Sync(t, N[t], K[t])
          BY <1>7, <1>12, <1>15, <1>23, <5>1 DEF InSync
        <5>. QED
          BY <1>3, <1>18, <2>2, <4>1, <5>2
      <4>. QED
        BY <1>13, <1>23, <4>1
    <3>2. WillPoll(t, N[t], K[t]) => InCall(t)' /\ WillPoll(t, n, k)'
      BY <1>3, <1>7, <1>8, <1>10, <1>11, <2>2 DEF WillPoll
    <3>. QED
      BY <1>7, <1>23, <3>1, <3>2
  <2>. QED
    BY <2>1, <2>2
<1>24. Moved(N, K, t, n, k, P[t])
  BY <1>8, <1>9, <1>12, <1>13, <1>14, <1>19, <1>22, <1>23 DEF Moved
<1>. QED
  BY <1>1, <1>24 DEF n, k

-----------------------------------------------------------------------------
(* The wait for the end of a write.                                        *)

LEMMA Resume ==
  ASSUME NEW N, NEW K, NEW P, InvAt(N, K, P), NEW t \in Prios, Runs(t),
         call' = call, ~half'[t], ~IsRead(t), NextKind(K[t]) = "plain",
         NEW n \in {7 + M(t), 9 + M(t)}, n = NextPos(N[t], K[t]),
         NEW k \in {"poll", "r1"}, NEW p \in 0 .. MaxPoll, Proceed(t, PollItems(k, p))
  PROVE  /\ AtStage(t, n, k, p)' /\ InCall(t)'
         /\ \A u \in Prios \ {t} : todo'[u] = todo[u]
<1>1. /\ BytesOf(call[t].op, call[t].x, Main(t)) /\ Script(t) \in Seq(Items)
      /\ NextIs(call[t].op, call[t].x, N[t], K[t], P[t], Head(todo[t]), Tail(todo[t]))
      /\ P[t] \in 0 .. MaxPoll /\ N[t] \in 1 .. Len(Script(t)) + 1 /\ K[t] \in Kinds
  BY Running
<1>2. /\ Tail(todo[t]) = Left(Script(t), n, "plain", P[t])
      /\ K[t] = "plain" => N[t] <= Len(Script(t))
  BY <1>1, WhatNext DEF Script
<1>3. M(t) \in Nat /\ Len(Script(t)) \in Nat
  BY <1>1, LenProperties DEF BytesOf, M
<1>4. n \in 1 .. Len(Script(t)) + 1
  BY <1>1, <1>2, <1>3 DEF NextPos
<1>5. Legal(call[t].op, Len(Script(t)), M(t), n, k, p)
  BY <1>4 DEF Legal, Kinds, IsRead
<1>6. Tail(todo[t]) = Rest(Script(t), n)
  BY <1>1, <1>2, <1>4, PlainHead
<1>7. /\ todo'[t] = Left(Script(t), n, k, p)
      /\ \A u \in Prios \ {t} : todo'[u] = todo[u]
  <2>1. todo \in [Prios -> Seq(ItemKinds \X (0 .. 511))]
    BY DEF InvAt, X5045TypeOK
  <2>. QED
    BY <1>6, <2>1 DEF Proceed, Left
<1>8. todo'[t] # <<>>
  BY <1>1, <1>3, <1>5, <1>7, LeftLength
<1>. QED
  BY <1>5, <1>7, <1>8 DEF AtStage, Script, M, Main, InCall

LEMMA PollMoves ==
  ASSUME NEW N, NEW K, NEW P, InvAt(N, K, P), NEW t \in Prios, Poll(t)
  PROVE  /\ Runs(t) /\ ~IsRead(t)
         /\ \E k \in Kinds, p \in 0 .. MaxPoll : Moved(N, K, t, NextPos(N[t], K[t]), k, p)
<1>. DEFINE n == NextPos(N[t], K[t])
            item == Head(todo[t])
<1>1. Runs(t) /\ InCall(t) /\ item[1] \in {"poll", "check"}
  BY DEF Poll, Head1, Runs
<1>2. /\ Typed(t) /\ CallAt(t, N[t], K[t], P[t])
      /\ BytesOf(call[t].op, call[t].x, Main(t))
      /\ Len(Script(t)) = ScriptLength(call[t].op, Main(t))
      /\ NextIs(call[t].op, call[t].x, N[t], K[t], P[t], Head(todo[t]), Tail(todo[t]))
      /\ P[t] \in 0 .. MaxPoll
      /\ K[t] # "plain" => ~IsRead(t) /\ N[t] \in {7 + M(t), 9 + M(t)}
      /\ Fresh(t) <=> K[t] = "plain" /\ N[t] = 1
      /\ ~Fresh(t) => Top(t)
  BY <1>1, Running
<1>3. /\ item[1] = "poll" =>
           /\ item[2] \in 0 .. MaxPoll
           /\ \/ K[t] = "plain" /\ ~IsRead(t) /\ N[t] \in {6 + M(t), 8 + M(t)}
              \/ K[t] = "poll"
      /\ item[1] = "check" => K[t] = "r5" /\ item[2] = P[t]
  <2>1. Doing(call[t].op, Main(t), N[t], K[t], P[t], item)
    BY <1>2, WhatNext DEF Main
  <2>2. MaxPoll \in 0 .. MaxPoll
    BY MaxPollAssumption
  <2>. QED
    BY <1>2, <2>1, <2>2 DEF Doing, IsRead, M
<1>4. /\ M(t) \in Nat /\ M(t) >= 2 /\ Len(Script(t)) \in Nat
  BY <1>2 DEF BytesOf, M, ScriptLength, IsRead
<1>5. half[t] = FALSE
  BY <1>1, <1>2 DEF CallAt, AtStage, InvAt, X5045TypeOK
<1>6. /\ call' = call /\ half' = half /\ got' = got /\ chip' = chip /\ mem' = mem
      /\ wdTime' = wdTime /\ disturbed' = disturbed /\ cut' = cut /\ mixed' = mixed
  BY DEF Poll, chipVars
<1>7. \/ /\ item[1] = "poll"
         /\ Proceed(t, IF item[2] = 0 THEN <<>> ELSE rdsr_cmd(item[2] - 1))
         /\ gaveUp' = (gaveUp \/ (item[2] = 0 /\ chip.busy))
      \/ /\ item[1] = "check"
         /\ Proceed(t, IF got[t] % 2 = 0 THEN <<>> ELSE <<<<"poll", item[2]>>>>)
         /\ gaveUp' = gaveUp
  BY DEF Poll, Head1
<1>8. /\ n \in {7 + M(t), 9 + M(t)} /\ ~IsRead(t) /\ NextKind(K[t]) = "plain"
      /\ K[t] \in {"plain", "poll", "r5"}
      /\ K[t] = "plain" => N[t] \in {6 + M(t), 8 + M(t)}
      /\ K[t] # "plain" => n = N[t]
  <2>1. \/ K[t] = "plain" /\ ~IsRead(t) /\ N[t] \in {6 + M(t), 8 + M(t)}
        \/ K[t] = "poll" \/ K[t] = "r5"
    BY <1>1, <1>3
  <2>. QED
    BY <1>2, <1>4, <2>1 DEF NextPos, NextKind
<1>. HIDE DEF n, item
<1>9. /\ IsRead(t)' = IsRead(t) /\ Main(t)' = Main(t) /\ M(t)' = M(t)
      /\ Script(t)' = Script(t) /\ WriteAt(t)' = WriteAt(t)
      /\ WriteAt(t) = 5 + M(t)
      /\ Done(t)' <=> Done(t)
  BY <1>6, <1>8 DEF IsRead, Main, M, Script, WriteAt, Done
<1>10. ~Fresh(t) /\ Top(t)
  BY <1>2, <1>4, <1>8
<1>11. InSync(t, N[t], K[t]) /\ Phase(t, N[t], K[t])
  BY <1>2 DEF CallAt
<1>12. ~Inside(t, N[t], K[t])
  <2>1. ~Within(IsRead(t), M(t), N[t], K[t])
    BY <1>4, <1>8 DEF Within
  <2>. QED
    BY <2>1 DEF Inside
<1>13. ~chip.sel \/ (mixed /\ disturbed[t])
  BY <1>10, <1>11, <1>12 DEF InSync
(* Whatever the poll comes to, the call is between two transactions and    *)
(* has done what it is for.                                                *)
<1>14. ASSUME NEW k \in {"plain", "poll", "r1"}, NEW p \in 0 .. MaxPoll,
              AtStage(t, n, k, p)', \A u \in Prios \ {t} : todo'[u] = todo[u],
              gaveUp => gaveUp',
              chip.busy /\ ~gaveUp' =>
                (InCall(t)' /\ WillPoll(t, n, k)') \/ ~WillPoll(t, N[t], K[t])
       PROVE  Moved(N, K, t, n, k, p)
  <2>1. Frame(t)
    BY <1>6, <1>14 DEF Frame
  <2>2. ~Within(IsRead(t), M(t), n, k) /\ ~(k = "plain" /\ n = 1) /\ n > 5 + M(t)
    BY <1>4, <1>8, <1>14 DEF Within
  <2>3. InSync(t, n, k)'
    BY <1>6, <1>9, <1>13, <2>2 DEF InSync, Inside
  <2>4. Phase(t, n, k)'
    <3>1. ASSUME ~disturbed[t] PROVE Done(t)
      <4>1. K[t] # "plain" \/ N[t] > WriteAt(t)
        BY <1>4, <1>8, <1>9
      <4>. QED
        BY <1>11, <3>1, <4>1 DEF Phase
    <3>2. n \in Nat /\ ~(n <= 5 + M(t)) /\ ~(n \in 4 .. 5 + M(t))
      BY <1>4, <1>8, <2>2
    <3>. QED
      BY <1>6, <1>9, <3>1, <3>2 DEF Phase
  <2>5. InCall(t)' \/ ~chip'.sel \/ (mixed /\ ~IsRead(t))
    BY <1>6, <1>8, <1>13
  <2>. QED
    BY <1>6, <1>10, <1>14, <2>1, <2>2, <2>3, <2>4, <2>5 DEF Moved
<1>15. ASSUME Proceed(t, <<>>)
       PROVE  /\ AtStage(t, n, "plain", P[t])'
              /\ InCall(t)' <=> ~(n = Len(Script(t)) + 1)
              /\ \A u \in Prios \ {t} : todo'[u] = todo[u]
  <2>1. ~half'[t]
    BY <1>5, <1>6
  <2>. QED
    BY <1>1, <1>6, <1>8, <1>15, <2>1, Advance DEF n
<1>16. ASSUME NEW k \in {"poll", "r1"}, NEW p \in 0 .. MaxPoll, Proceed(t, PollItems(k, p))
       PROVE  /\ AtStage(t, n, k, p)' /\ InCall(t)' /\ WillPoll(t, n, k)'
              /\ \A u \in Prios \ {t} : todo'[u] = todo[u]
  <2>1. ~half'[t] /\ n = NextPos(N[t], K[t])
    BY <1>5, <1>6 DEF n
  <2>2. AtStage(t, n, k, p)' /\ InCall(t)' /\ \A u \in Prios \ {t} : todo'[u] = todo[u]
    BY <1>1, <1>6, <1>8, <1>16, <2>1, Resume
  <2>3. WillPoll(t, n, k)'
    BY <1>8, <1>9 DEF WillPoll
  <2>. QED
    BY <2>2, <2>3
<1>17. CASE item[1] = "poll" /\ item[2] = 0
  <2>1. Proceed(t, <<>>) /\ gaveUp' = (gaveUp \/ chip.busy)
    BY <1>7, <1>17
  <2>2. Moved(N, K, t, n, "plain", P[t])
    BY <1>2, <1>14, <1>15, <2>1
  <2>. QED
    BY <1>1, <1>2, <1>8, <2>2 DEF n, Kinds
<1>18. CASE item[1] = "poll" /\ item[2] # 0
  <2>1. item[2] - 1 \in 0 .. MaxPoll
    BY <1>3, <1>18, MaxPollAssumption
  <2>2. Proceed(t, PollItems("r1", item[2] - 1)) /\ (gaveUp => gaveUp')
    BY <1>7, <1>18 DEF PollItems
  <2>3. PICK p \in 0 .. MaxPoll : Proceed(t, PollItems("r1", p))
    BY <2>1, <2>2
  <2>4. Moved(N, K, t, n, "r1", p)
    BY <1>14, <1>16, <2>2, <2>3
  <2>. QED
    BY <1>1, <1>8, <2>4 DEF n, Kinds
<1>19. CASE item[1] = "check" /\ got[t] % 2 = 0
  <2>1. Proceed(t, <<>>) /\ gaveUp' = gaveUp
    BY <1>7, <1>19
  <2>2. K[t] = "r5" /\ n = N[t]
    BY <1>3, <1>8, <1>19
  <2>3. WillPoll(t, N[t], K[t]) => InCall(t)' /\ WillPoll(t, n, "plain")'
    <3>1. WillPoll(t, N[t], K[t]) => n <= Len(Script(t))
      BY <1>19, <2>2 DEF WillPoll
    <3>2. n <= Len(Script(t)) => ~(n = Len(Script(t)) + 1)
      BY <1>4
    <3>. QED
      BY <1>8, <1>9, <1>15, <2>1, <3>1, <3>2 DEF WillPoll
  <2>4. Moved(N, K, t, n, "plain", P[t])
    BY <1>2, <1>14, <1>15, <2>1, <2>3
  <2>. QED
    BY <1>1, <1>2, <1>8, <2>4 DEF n, Kinds
<1>20. CASE item[1] = "check" /\ got[t] % 2 # 0
  <2>1. Proceed(t, PollItems("poll", P[t])) /\ gaveUp' = gaveUp
    BY <1>3, <1>7, <1>20 DEF PollItems
  <2>2. Moved(N, K, t, n, "poll", P[t])
    BY <1>2, <1>14, <1>16, <2>1
  <2>. QED
    BY <1>1, <1>2, <1>8, <2>2 DEF n, Kinds
<1>. QED
  BY <1>1, <1>17, <1>18, <1>19, <1>20

-----------------------------------------------------------------------------
(* What is stored, and what becomes the period, while no selection was     *)
(* shared by two tasks.                                                    *)

LEMMA OwnerSends ==
  ASSUME NEW N, NEW K, NEW P, InvAt(N, K, P), ~mixed, SetsTime(chip) \/ Stores(chip)
  PROVE  \E t \in Prios : \E j \in 2 .. M(t) :
           /\ Typed(t) /\ ~IsRead(t) /\ BytesOf(call[t].op, call[t].x, Main(t))
           /\ FirstOf(chip.bytes, Main(t), j)
<1>1. /\ chip.sel /\ ~chip.odd
      /\ \/ Len(chip.bytes) = 2 /\ chip.bytes[1] = WRSR_INST
         \/ Len(chip.bytes) > 2 /\ chip.bytes[1] \in {WRITE_INST, WRITE_INST + 8}
  BY DEF SetsTime, Stores, Acts
<1>2. PICK t \in Prios : Top(t)
  BY <1>1 DEF InvAt, HasOwner
<1>3. CallAt(t, N[t], K[t], P[t]) /\ Typed(t)
  BY <1>2 DEF InvAt, Calls, Top, CallAt
<1>4. Within(IsRead(t), M(t), N[t], K[t]) /\ Heard(chip.bytes, IsRead(t), Main(t), N[t], K[t])
  BY <1>1, <1>2, <1>3 DEF CallAt, InSync, Inside, Sync, BytesAt
<1>5. /\ BytesOf(call[t].op, call[t].x, Main(t)) /\ M(t) \in Nat /\ M(t) >= 2
      /\ IsRead(t) => Main(t)[1] \in {READ_INST, READ_INST + 8}
  BY <1>3, ScriptItems DEF Typed, Main, M, BytesOf, IsRead
<1>6. CASE K[t] \in {"r2", "r3", "r4"}
  BY <1>1, <1>4, <1>6 DEF Heard
<1>7. CASE K[t] = "plain" /\ IsRead(t)
  <2>1. N[t] \in 2 .. 5
    BY <1>4, <1>7 DEF Within
  <2>2. CASE N[t] = 5
    BY <1>1, <1>4, <1>5, <1>7, <2>2 DEF Heard
  <2>3. CASE N[t] \in 2 .. 4
    <3>1. FirstOf(chip.bytes, Main(t), N[t] - 2)
      BY <1>4, <1>7, <2>3 DEF Heard
    <3>2. Len(chip.bytes) = N[t] - 2 /\ N[t] - 2 \in 0 .. 2
      BY <2>3, <3>1 DEF FirstOf
    <3>3. Len(chip.bytes) = 2 /\ chip.bytes[1] = WRSR_INST
      BY <1>1, <3>2
    <3>4. N[t] - 2 = 2
      BY <3>2, <3>3
    <3>5. chip.bytes[1] = Main(t)[1]
      BY <3>1, <3>4 DEF FirstOf
    <3>. QED
      BY <1>5, <1>7, <3>3, <3>5
  <2>. QED
    BY <2>1, <2>2, <2>3
<1>8. CASE K[t] = "plain" /\ ~IsRead(t)
  <2>1. N[t] \in {2, 3} \/ N[t] \in 5 .. 5 + M(t)
    BY <1>4, <1>8 DEF Within
  <2>2. CASE N[t] \in {2, 3}
    BY <1>1, <1>4, <1>8, <2>2 DEF Heard
  <2>3. CASE N[t] \in 5 .. 5 + M(t)
    <3>1. FirstOf(chip.bytes, Main(t), N[t] - 5)
      BY <1>4, <1>8, <2>3 DEF Heard, M
    <3>2. Len(chip.bytes) = N[t] - 5 /\ N[t] - 5 \in 0 .. M(t)
      BY <1>5, <2>3, <3>1 DEF FirstOf
    <3>3. N[t] - 5 \in 2 .. M(t)
      BY <1>1, <1>5, <3>2
    <3>. QED
      BY <1>3, <1>5, <1>8, <3>1, <3>3
  <2>. QED
    BY <2>1, <2>2, <2>3
<1>. QED
  BY <1>4, <1>6, <1>7, <1>8 DEF Within

LEMMA PeriodAsked ==
  ASSUME NEW N, NEW K, NEW P, InvAt(N, K, P), ~mixed, SetsTime(chip)
  PROVE  \E x \in Times : chip.bytes[2] = Period(x)
<1>1. PICK t \in Prios : \E j \in 2 .. M(t) :
           /\ Typed(t) /\ ~IsRead(t) /\ BytesOf(call[t].op, call[t].x, Main(t))
           /\ FirstOf(chip.bytes, Main(t), j)
  BY OwnerSends
<1>2. PICK j \in 2 .. M(t) : FirstOf(chip.bytes, Main(t), j)
  BY <1>1
<1>3. /\ j \in Nat /\ j >= 2
      /\ chip.bytes[1] = WRSR_INST
      /\ chip.bytes[1] = Main(t)[1] /\ chip.bytes[2] = Main(t)[2]
  <2>1. j \in Nat /\ j >= 2
    BY <1>1 DEF BytesOf, M
  <2>. QED
    BY <1>2, <2>1 DEF FirstOf, SetsTime
<1>4. call[t].op = "WDT_SetTime"
  BY <1>1, <1>3 DEF Typed, Ops, BytesOf, IsRead
<1>5. call[t].x \in Times /\ Main(t)[2] = Period(call[t].x)
  BY <1>1, <1>4 DEF Typed, Arguments, BytesOf
<1>. QED
  BY <1>3, <1>5

LEMMA StoresMeant ==
  ASSUME NEW N, NEW K, NEW P, InvAt(N, K, P), Deselect, mixed' = mixed
  PROVE  NoForeignByte'
<1>1. CASE mixed
  BY <1>1 DEF NoForeignByte
<1>2. CASE ~mixed /\ ~Stores(chip)
  <2>1. mem' = mem
    BY <1>2 DEF Deselect
  <2>. QED
    BY <1>2, <2>1 DEF NoForeignByte, InvAt, MeantFor
<1>3. CASE ~mixed /\ Stores(chip)
  <2>1. PICK t \in Prios : \E j \in 2 .. M(t) :
             /\ Typed(t) /\ ~IsRead(t) /\ BytesOf(call[t].op, call[t].x, Main(t))
             /\ FirstOf(chip.bytes, Main(t), j)
    BY <1>3, OwnerSends
  <2>2. PICK j \in 2 .. M(t) : FirstOf(chip.bytes, Main(t), j)
    BY <2>1
  <2>3. PICK x : x = call[t].x
    OBVIOUS
  <2>4. PICK op : op = call[t].op
    OBVIOUS
  <2>5. PICK B : B = Main(t)
    OBVIOUS
  <2>6. /\ j \in 3 .. Len(B) /\ Len(B) \in Nat /\ BytesOf(op, x, B)
        /\ FirstOf(chip.bytes, B, j)
    BY <1>3, <2>1, <2>2, <2>4, <2>3, <2>5 DEF Stores, FirstOf, M, BytesOf
  <2>7. op \in {"Fct_ByteWrite", "page_write"} /\ x \in Addrs
    <3>1. op # "WDT_SetTime"
      <4>1. PICK l \in Nat : l = Len(B)
        BY <2>6
      <4>2. l # 2
        BY <2>6, <4>1
      <4>3. op = "WDT_SetTime" => Len(B) = 2
        BY <2>6 DEF BytesOf
      <4>. QED
        BY <4>1, <4>2, <4>3, Zenon
    <3>. QED
      BY <2>1, <2>3, <2>4, <3>1 DEF Typed, Ops, Arguments, IsRead
  <2>8. mem' = [a \in Cells |-> IF a - x \in 0 .. j - 3 THEN B[(a - x) + 3] ELSE mem[a]]
    <3>1. op \in Ops /\ x \in Arguments(op) /\ op # "WDT_SetTime"
      BY <2>7 DEF Ops, Arguments
    <3>. QED
      BY <1>3, <2>6, <3>1, StorePuts
  <2>9. ASSUME NEW a \in Cells PROVE mem'[a] \in MeantFor(a)
    <3>1. CASE ~(a - x \in 0 .. j - 3)
      <4>1. mem[a] \in MeantFor(a)
        BY <1>3 DEF InvAt, NoForeignByte
      <4>. QED
        BY <2>8, <3>1, <4>1
    <3>2. CASE a - x \in 0 .. j - 3
      <4>1. mem'[a] = B[(a - x) + 3]
        BY <2>8, <3>2
      <4>2. a \in Int /\ x \in Int
        <5>1. PICK c \in Addrs, i \in 0 .. Len(PageData) - 1 : a = c + i
          BY DEF Cells
        <5>2. c \in 0 .. 511 /\ x \in 0 .. 511
          BY <2>7, AddrsAssumption
        <5>. QED
          BY <5>1, <5>2
      <4>3. CASE op = "Fct_ByteWrite"
        <5>1. Len(B) = 3 /\ B[3] = ByteData
          BY <2>6, <4>3 DEF BytesOf
        <5>2. a = x /\ (a - x) + 3 = 3
          BY <2>6, <3>2, <4>2, <5>1
        <5>. QED
          BY <2>7, <4>1, <5>1, <5>2 DEF MeantFor
      <4>4. CASE op = "page_write"
        <5>1. /\ Len(B) = 2 + Len(PageData) /\ Len(PageData) \in Nat
              /\ \A i \in 1 .. Len(PageData) : B[2 + i] = PageData[i]
          BY <2>6, <4>4, PageDataAssumption, LenProperties DEF BytesOf
        <5>. DEFINE i == (a - x) + 1
        <5>2. i \in 1 .. Len(PageData) /\ 2 + i = (a - x) + 3 /\ a - i + 1 = x
          BY <2>6, <3>2, <4>2, <5>1
        <5>. HIDE DEF i
        <5>3. mem'[a] = PageData[i]
          BY <4>1, <5>1, <5>2
        <5>4. i \in {k \in 1 .. Len(PageData) : a - k + 1 \in Addrs}
          BY <2>7, <5>2
        <5>. QED
          BY <5>3, <5>4 DEF MeantFor
      <4>. QED
        BY <2>7, <4>3, <4>4
    <3>. QED
      BY <3>1, <3>2
  <2>. QED
    BY <2>9 DEF NoForeignByte, MeantFor
<1>. QED
  BY <1>1, <1>2, <1>3

-----------------------------------------------------------------------------
(* Types.                                                                  *)

LEMMA DeselectTypes ==
  ASSUME X5045TypeOK, Deselect
  PROVE  chip' \in Chip /\ mem' \in [Cells -> Bytes] /\ wdTime' \in Bytes
<1>1. /\ chip.sel \in BOOLEAN /\ chip.odd \in BOOLEAN /\ chip.wel \in BOOLEAN
      /\ chip.busy \in BOOLEAN /\ chip.bytes \in Seq(Bytes) /\ chip \in Chip
      /\ mem \in [Cells -> Bytes] /\ wdTime \in Bytes
  BY DEF X5045TypeOK, Chip, Bytes
<1>2. /\ Latches(chip) \in BOOLEAN /\ SetsTime(chip) \in BOOLEAN /\ Stores(chip) \in BOOLEAN
  BY DEF Latches, SetsTime, Stores
<1>3. chip' \in Chip
  <2>1. <<>> \in Seq(Bytes)
    OBVIOUS
  <2>2. PICK wel \in BOOLEAN : wel = (chip.wel \/ Latches(chip))
    BY <1>1, <1>2
  <2>3. PICK busy \in BOOLEAN : busy = (chip.busy \/ SetsTime(chip) \/ Stores(chip))
    BY <1>1, <1>2
  <2>4. chip' = [chip EXCEPT !.sel = FALSE, !.odd = FALSE, !.bytes = <<>>,
                   !.wel = wel, !.busy = busy]
    BY <2>2, <2>3 DEF Deselect
  <2>. QED
    BY <1>1, <2>1, <2>4, ZenonT(40) DEF Chip, Bytes
<1>4. \A i \in 1 .. Len(chip.bytes) : chip.bytes[i] \in Bytes
  BY <1>1, ElementOfSeq
<1>5. wdTime' \in Bytes
  <2>1. SetsTime(chip) => 2 \in 1 .. Len(chip.bytes)
    BY DEF SetsTime
  <2>. QED
    BY <1>1, <1>4, <2>1 DEF Deselect
<1>6. mem' \in [Cells -> Bytes]
  <2>1. CASE ~Stores(chip)
    BY <1>1, <2>1 DEF Deselect
  <2>2. CASE Stores(chip)
    <3>1. mem' = [a \in Cells |->
                    LET i == a - AddressOf(chip.bytes)
                    IN IF i \in 0 .. Len(chip.bytes) - 3
                       THEN chip.bytes[i + 3] ELSE mem[a]]
      BY <2>2 DEF Deselect
    <3>2. ASSUME NEW i \in 0 .. Len(chip.bytes) - 3 PROVE chip.bytes[i + 3] \in Bytes
      <4>1. i + 3 \in 1 .. Len(chip.bytes)
        BY <1>1, LenProperties
      <4>. QED
        BY <1>4, <4>1
    <3>. QED
      BY <1>1, <3>1, <3>2
  <2>. QED
    BY <2>1, <2>2
<1>. QED
  BY <1>3, <1>5, <1>6

(* What is left of a call is always a sequence of items.                   *)
LEMMA TodoTypes ==
  ASSUME NEW N, NEW K, NEW P, InvAt(N, K, P), NEW t \in Prios, Runs(t),
         NEW n, NEW k, NEW p, Moved(N, K, t, n, k, p), NEW e,
         todo' = [todo EXCEPT ![t] = e]
  PROVE  todo' \in [Prios -> Seq(ItemKinds \X (0 .. 511))]
<1>1. Script(t) \in Seq(Items) /\ BytesOf(call[t].op, call[t].x, Main(t))
  BY Running
<1>2. M(t) \in Nat
  BY <1>1 DEF BytesOf, M
<1>3. /\ Legal(call[t].op, Len(Script(t)), M(t), n, k, p)
      /\ todo'[t] = Left(Script(t), n, k, p)
  BY DEF Moved, Frame, AtStage, Script, M, Main
<1>4. todo'[t] \in Seq(Items)
  BY <1>1, <1>2, <1>3, LeftLength
<1>5. todo \in [Prios -> Seq(Items)]
  BY DEF InvAt, X5045TypeOK, Items
<1>6. todo'[t] = e
  BY <1>5
<1>. QED
  BY <1>4, <1>5, <1>6 DEF Items

(* Every step of a task is one of those described above.                   *)
LEMMA StepMoves ==
  ASSUME NEW N, NEW K, NEW P, InvAt(N, K, P), NEW t \in Prios, TaskStep(t)
  PROVE  /\ Runs(t)
         /\ \E n \in Nat, k \in Kinds, p \in Nat : Moved(N, K, t, n, k, p)
<1>1. /\ N[t] \in Nat /\ K[t] \in Kinds /\ P[t] \in Nat
      /\ NextPos(N[t], K[t]) \in Nat /\ NextKind(K[t]) \in Kinds
  <2>1. N[t] \in Nat /\ K[t] \in Kinds /\ P[t] \in Nat
    BY DEF InvAt
  <2>. QED
    BY <2>1 DEF NextPos, NextKind, Kinds
<1>2. CASE Select(t)
  BY <1>1, <1>2, SelectMoves, Zenon
<1>3. CASE outbyte(t)
  <2>1. Runs(t)
    BY <1>3 DEF outbyte, Head1
  <2>. QED
    BY <1>3, <2>1, OutMoves
<1>4. CASE inputbyte(t)
  BY <1>1, <1>4, InMoves, Zenon
<1>5. CASE ChipSelectHigh(t)
  BY <1>1, <1>5, HighMoves, Zenon
<1>6. CASE Poll(t)
  <2>1. Runs(t) /\ \E k \in Kinds, p \in 0 .. MaxPoll : Moved(N, K, t, NextPos(N[t], K[t]), k, p)
    BY <1>6, PollMoves, Zenon
  <2>2. 0 .. MaxPoll \subseteq Nat
    BY MaxPollAssumption
  <2>. QED
    BY <1>1, <2>1, <2>2, Zenon
<1>. QED
  BY <1>2, <1>3, <1>4, <1>5, <1>6 DEF TaskStep

LEMMA SelectedType ==
  ASSUME NEW c \in Chip
  PROVE  Selected(c) \in Chip
<1>1. /\ c.sel \in BOOLEAN /\ c.odd \in BOOLEAN /\ c.wel \in BOOLEAN
      /\ c.busy \in BOOLEAN
  BY DEF Chip
<1>2. <<>> \in Seq(0 .. 255 \union {Garbled})
  OBVIOUS
<1>3. [c EXCEPT !.sel = TRUE, !.odd = FALSE, !.bytes = <<>>] \in Chip
  BY <1>1, <1>2, ZenonT(40) DEF Chip
<1>. QED
  BY <1>3 DEF Selected

LEMMA TaskTypes ==
  ASSUME NEW N, NEW K, NEW P, InvAt(N, K, P), NEW t \in Prios, TaskStep(t)
  PROVE  X5045TypeOK'
<1>1. /\ call \in [Prios -> [op : Ops \union {"none"}, x : 0 .. 511]]
      /\ todo \in [Prios -> Seq(ItemKinds \X (0 .. 511))]
      /\ half \in [Prios -> BOOLEAN] /\ got \in [Prios -> Bytes] /\ calls \in 0 .. CallMax
      /\ chip \in Chip /\ mem \in [Cells -> Bytes] /\ wdTime \in Bytes
      /\ disturbed \in [Prios -> BOOLEAN]
      /\ cut \in BOOLEAN /\ mixed \in BOOLEAN /\ gaveUp \in BOOLEAN
  BY DEF InvAt, X5045TypeOK
<1>2. todo' \in [Prios -> Seq(ItemKinds \X (0 .. 511))]
  <2>1. PICK n, k, p : Moved(N, K, t, n, k, p)
    BY StepMoves
  <2>2. Runs(t)
    BY StepMoves
  <2>3. todo' = todo \/ \E s : Proceed(t, s)
    BY DEF TaskStep, Select, outbyte, inputbyte, ChipSelectHigh, Poll
  <2>4. ASSUME NEW s, Proceed(t, s) PROVE todo' \in [Prios -> Seq(ItemKinds \X (0 .. 511))]
    <3>1. todo' = [todo EXCEPT ![t] = s \o Tail(todo[t])]
      BY <2>4 DEF Proceed
    <3>. QED
      BY <2>1, <2>2, <3>1, TodoTypes
  <2>. QED
    BY <1>1, <2>3, <2>4
<1>3. /\ chip.sel \in BOOLEAN /\ chip.odd \in BOOLEAN /\ chip.bytes \in Seq(Bytes)
      /\ 0 \in Bytes /\ 1 \in Bytes /\ Garbled \in Bytes
  BY <1>1 DEF Chip, Bytes
<1>4. CASE Select(t)
  <2>1. Selected(chip) \in Chip
    BY <1>1, SelectedType
  <2>2. disturbed' \in [Prios -> BOOLEAN]
    BY <1>1, <1>3, <1>4 DEF Select, InCall
  <2>3. mixed' \in BOOLEAN
    BY <1>1, <1>3, <1>4 DEF Select
  <2>. QED
    BY <1>1, <1>2, <1>4, <2>1, <2>2, <2>3 DEF Select, X5045TypeOK
<1>5. CASE outbyte(t)
  <2>1. Head(todo[t])[2] \in Bytes
    BY <1>5, OutByte DEF Bytes
  <2>2. chip' \in Chip
    <3>1. HalfByte(chip, Head(todo[t])[2]) \in Chip
      BY <1>1, <2>1, HalfByteAt
    <3>2. HalfByte(chip, Garbled) \in Chip
      BY <1>1, <1>3, HalfByteAt
    <3>. QED
      BY <1>5, <3>1, <3>2 DEF outbyte
  <2>3. half' \in [Prios -> BOOLEAN]
    BY <1>1, <1>5 DEF outbyte
  <2>. QED
    BY <1>1, <1>2, <1>5, <2>2, <2>3 DEF outbyte, history, X5045TypeOK
<1>6. CASE inputbyte(t)
  <2>1. ASSUME NEW byte \in Output(chip) PROVE byte \in Bytes
    BY <1>1, <1>3 DEF Output
  <2>2. got' \in [Prios -> Bytes]
    BY <1>1, <1>6, <2>1 DEF inputbyte
  <2>3. chip' \in Chip
    <3>1. PICK b \in Bytes : chip' = IF ~chip.sel THEN chip ELSE Received(chip, b)
      BY <1>3, <1>6 DEF inputbyte
    <3>2. Append(chip.bytes, b) \in Seq(Bytes)
      BY <1>3
    <3>. QED
      BY <1>1, <3>1, <3>2, ZenonT(40) DEF Received, Chip, Bytes
  <2>. QED
    BY <1>1, <1>2, <1>6, <2>2, <2>3 DEF inputbyte, history, X5045TypeOK
<1>7. CASE ChipSelectHigh(t)
  <2>1. chip' \in Chip /\ mem' \in [Cells -> Bytes] /\ wdTime' \in Bytes
    BY <1>7, DeselectTypes DEF ChipSelectHigh, InvAt
  <2>. QED
    BY <1>1, <1>2, <1>7, <2>1 DEF ChipSelectHigh, history, X5045TypeOK
<1>8. CASE Poll(t)
  <2>1. gaveUp' \in BOOLEAN
    BY <1>1, <1>8 DEF Poll
  <2>. QED
    BY <1>1, <1>2, <1>8, <2>1 DEF Poll, chipVars, X5045TypeOK
<1>. QED
  BY <1>4, <1>5, <1>6, <1>7, <1>8 DEF TaskStep

LEMMA TaskCells ==
  ASSUME NEW N, NEW K, NEW P, InvAt(N, K, P), NEW t \in Prios, TaskStep(t)
  PROVE  NoForeignByte'
<1>1. CASE ChipSelectHigh(t)
  BY <1>1, StoresMeant DEF ChipSelectHigh, history
<1>2. CASE ~ChipSelectHigh(t)
  <2>1. mem' = mem /\ (mixed => mixed')
    <3>1. Select(t) \/ outbyte(t) \/ inputbyte(t) \/ Poll(t)
      BY <1>2 DEF TaskStep
    <3>2. Select(t) => mem' = mem /\ (mixed => mixed')
      BY DEF Select
    <3>3. outbyte(t) => mem' = mem /\ (mixed => mixed')
      BY DEF outbyte, history
    <3>4. inputbyte(t) => mem' = mem /\ (mixed => mixed')
      BY DEF inputbyte, history
    <3>5. Poll(t) => mem' = mem /\ (mixed => mixed')
      BY DEF Poll, chipVars
    <3>. QED
      BY <3>1, <3>2, <3>3, <3>4, <3>5
  <2>. QED
    BY <2>1 DEF InvAt, NoForeignByte, MeantFor
<1>. QED
  BY <1>1, <1>2

(* A step of a task keeps the invariant.                                   *)
LEMMA TaskKeeps ==
  ASSUME NEW N, NEW K, NEW P, InvAt(N, K, P), NEW t \in Prios, TaskStep(t)
  PROVE  Inv'
<1>1. PICK n, k, p : Moved(N, K, t, n, k, p)
  BY StepMoves
<1>2. Runs(t) /\ X5045TypeOK' /\ NoForeignByte'
  BY StepMoves, TaskTypes, TaskCells
<1>. QED
  BY <1>1, <1>2, MovedKeeps

-----------------------------------------------------------------------------
(* The other steps.                                                        *)

LEMMA BeginTypes ==
  ASSUME NEW N, NEW K, NEW P, InvAt(N, K, P),
         NEW t \in Prios, NEW op \in Ops, NEW x \in Arguments(op), Begin(t, op, x)
  PROVE  X5045TypeOK'
<1>1. /\ call \in [Prios -> [op : Ops \union {"none"}, x : 0 .. 511]]
      /\ todo \in [Prios -> Seq(ItemKinds \X (0 .. 511))]
      /\ half \in [Prios -> BOOLEAN] /\ got \in [Prios -> Bytes] /\ calls \in 0 .. CallMax
      /\ chip \in Chip /\ mem \in [Cells -> Bytes] /\ wdTime \in Bytes
      /\ disturbed \in [Prios -> BOOLEAN]
      /\ cut \in BOOLEAN /\ mixed \in BOOLEAN /\ gaveUp \in BOOLEAN
  BY DEF InvAt, X5045TypeOK
<1>2. calls' \in 0 .. CallMax
  BY <1>1, CallMaxAssumption DEF Begin
<1>3. call' \in [Prios -> [op : Ops \union {"none"}, x : 0 .. 511]]
  <2>1. x \in 0 .. 511
    BY AddrsAssumption, TimesAssumption DEF Arguments
  <2>. QED
    BY <1>1, <2>1 DEF Begin
<1>4. todo' \in [Prios -> Seq(ItemKinds \X (0 .. 511))]
  <2>1. Steps(op, x) \in Seq(ItemKinds \X (0 .. 511))
    BY ScriptItems DEF Items
  <2>. QED
    BY <1>1, <2>1 DEF Begin
<1>5. disturbed' \in [Prios -> BOOLEAN]
  <2>1. chip.busy \in BOOLEAN
    BY <1>1 DEF Chip
  <2>. QED
    BY <1>1, <2>1 DEF Begin, InCall
<1>. QED
  BY <1>1, <1>2, <1>3, <1>4, <1>5 DEF Begin, chipVars, X5045TypeOK

(* A call that begins is fresh: whoever owned the selection still does.    *)
LEMMA BeginKeeps ==
  ASSUME NEW N, NEW K, NEW P, InvAt(N, K, P),
         NEW t \in Prios, NEW op \in Ops, NEW x \in Arguments(op), Begin(t, op, x)
  PROVE  Inv'
<1>. DEFINE N2 == [N EXCEPT ![t] = 1]
            K2 == [K EXCEPT ![t] = "plain"]
            P2 == [P EXCEPT ![t] = 0]
<1>1. /\ \A u \in Prios : InCall(u) => u > t
      /\ \A u \in Prios : InCall(u) => ~IsRead(u)
  BY PriosAssumption DEF Begin, MayBegin, InCritical, IsRead
<1>2. ~InCall(t) /\ ~half'[t]
  BY <1>1, PriosAssumption DEF InvAt, Idle, Begin
<1>3. /\ call'[t] = [op |-> op, x |-> x] /\ todo'[t] = Steps(op, x)
      /\ half' = half /\ got' = got /\ chip' = chip /\ mem' = mem /\ wdTime' = wdTime
      /\ cut' = cut /\ mixed' = mixed /\ gaveUp' = gaveUp
  BY DEF Begin, chipVars, InvAt, X5045TypeOK
<1>4. \A u \in Prios : /\ u # t => call'[u] = call[u] /\ todo'[u] = todo[u]
                       /\ u # t /\ InCall(u) => (disturbed'[u] <=> disturbed[u] \/ op # "Fct_ByteRead")
                       /\ u # t => (disturbed[u] => disturbed'[u])
  BY ZenonT(40) DEF Begin, InvAt, X5045TypeOK
<1>5. disturbed'[t] <=> chip.busy
  BY DEF Begin
<1>6. /\ Script(t)' = Steps(op, x) /\ Main(t)' = MainBytes(op, x)
      /\ Steps(op, x) \in Seq(Items) /\ Steps(op, x) # <<>>
      /\ M(t)' = Len(MainBytes(op, x)) /\ M(t)' \in Nat
      /\ call'[t].op = op /\ call'[t].x = x
  <2>1. /\ Steps(op, x) \in Seq(Items)
        /\ Len(Steps(op, x)) = ScriptLength(op, MainBytes(op, x))
        /\ Len(MainBytes(op, x)) \in Nat
    BY ScriptItems DEF BytesOf
  <2>2. Len(Steps(op, x)) # 0
    BY <2>1 DEF ScriptLength
  <2>3. Steps(op, x) # <<>>
    BY <2>1, <2>2, EmptySeq
  <2>. QED
    BY <1>3, <2>1, <2>3 DEF Script, Main, M
<1>7. InCall(t)' /\ Fresh(t)'
  BY <1>3, <1>6 DEF InCall, Fresh
<1>8. \A u \in Prios \ {t} :
        /\ InCall(u)' <=> InCall(u)
        /\ Fresh(u)' <=> Fresh(u)
        /\ Typed(u)' <=> Typed(u)
        /\ IsRead(u)' <=> IsRead(u)
        /\ Script(u)' = Script(u) /\ Main(u)' = Main(u) /\ M(u)' = M(u)
        /\ N2[u] = N[u] /\ K2[u] = K[u] /\ P2[u] = P[u]
  BY <1>4 DEF InCall, Fresh, Typed, IsRead, Script, Main, M, InvAt
<1>9. \A u \in Prios : (Top(u)' <=> Top(u)) /\ (Top(u) => u # t)
  BY <1>2, <1>7, <1>8 DEF Top
<1>10. N2[t] = 1 /\ K2[t] = "plain" /\ P2[t] = 0
  BY DEF InvAt
<1>11. N2 \in [Prios -> Nat] /\ K2 \in [Prios -> Kinds] /\ P2 \in [Prios -> Nat]
  BY DEF InvAt, Kinds
<1>. HIDE DEF N2, K2, P2
<1>12. Idle'
  BY <1>3, <1>7, <1>8 DEF Idle, InvAt
<1>13. HasOwner'
  BY <1>3, <1>9 DEF HasOwner, InvAt
<1>14. NoForeignByte'
  BY <1>3 DEF NoForeignByte, MeantFor, InvAt
<1>15. CallAt(t, 1, "plain", 0)'
  <2>1. Typed(t)'
    BY <1>6 DEF Typed
  <2>2. OnlyReads(t)'
    <3>1. ASSUME NEW u \in Prios, u < t PROVE ~InCall(u)'
      <4>1. ~(u > t) /\ u # t
        BY <3>1, PriosAssumption
      <4>. QED
        BY <1>1, <1>8, <4>1
    <3>. QED
      BY <3>1 DEF OnlyReads
  <2>3. AtStage(t, 1, "plain", 0)'
    <3>1. Legal(op, Len(Steps(op, x)), Len(MainBytes(op, x)), 1, "plain", 0)
      <4>1. Len(Steps(op, x)) \in Nat
        BY <1>6, LenProperties
      <4>2. 1 \in 1 .. Len(Steps(op, x)) + 1 /\ 0 \in 0 .. MaxPoll
        BY <4>1, MaxPollAssumption
      <4>. QED
        BY <4>2 DEF Legal, Kinds
    <3>2. Left(Steps(op, x), 1, "plain", 0) = Steps(op, x)
      BY <1>6, <3>1, LeftLength
    <3>. QED
      BY <1>2, <1>3, <1>6, <3>1, <3>2 DEF AtStage
  <2>4. InSync(t, 1, "plain")'
    <3>1. ~Inside(t, 1, "plain")'
      BY <1>6 DEF Inside, Within
    <3>2. ~Top(t)'
      BY <1>9
    <3>. QED
      BY <3>1, <3>2 DEF InSync
  <2>5. Phase(t, 1, "plain")'
    <3>1. ~(1 > WriteAt(t)')
      BY <1>6 DEF WriteAt
    <3>2. ~disturbed'[t] => ~chip'.busy
      BY <1>3, <1>5
    <3>. QED
      BY <1>6, <3>1, <3>2 DEF Phase
  <2>. QED
    BY <2>1, <2>2, <2>3, <2>4, <2>5 DEF CallAt
<1>16. ASSUME NEW u \in Prios \ {t}, InCall(u)
       PROVE  CallAt(u, N[u], K[u], P[u])'
  <2>1. CallAt(u, N[u], K[u], P[u]) /\ u > t
    BY <1>1, <1>16 DEF InvAt, Calls
  <2>2. Typed(u)'
    BY <1>8, <2>1 DEF CallAt
  <2>3. ~disturbed'[u] => ~disturbed[u] /\ op = "Fct_ByteRead"
    BY <1>4, <1>16
  <2>4. OnlyReads(u)'
    <3>1. op = "Fct_ByteRead" => IsRead(t)'
      BY <1>6 DEF IsRead
    <3>. QED
      BY <1>8, <2>1, <2>3, <3>1 DEF OnlyReads, CallAt
  <2>5. AtStage(u, N[u], K[u], P[u])'
    BY <1>3, <1>4, <1>8, <2>1 DEF CallAt, AtStage
  <2>6. InSync(u, N[u], K[u])'
    <3>1. Inside(u, N[u], K[u])' <=> Inside(u, N[u], K[u])
      BY <1>4, <1>8 DEF Inside, IsRead
    <3>2. Untouched(u)' => Untouched(u)
      <4>1. ASSUME Untouched(u)' PROVE Untouched(u)
        <5>1. PICK v \in Prios : v >= u /\ InCall(v)' /\ ~disturbed'[v]
          BY <4>1 DEF Untouched
        <5>2. v # t
          BY <2>1, <5>1, PriosAssumption
        <5>. QED
          BY <1>4, <1>8, <5>1, <5>2 DEF Untouched
      <4>. QED
        BY <4>1
    <3>3. Sync(u, N[u], K[u])' <=> Sync(u, N[u], K[u])
      BY <1>3, <1>4, <1>8, <1>9 DEF Sync, BytesAt, IsRead
    <3>. QED
      BY <1>3, <1>9, <2>1, <2>3, <3>1, <3>2, <3>3 DEF InSync, CallAt
  <2>7. Phase(u, N[u], K[u])'
    <3>1. WriteAt(u)' = WriteAt(u)
      BY <1>8 DEF WriteAt
    <3>2. Done(u)' <=> Done(u)
      BY <1>3, <1>4 DEF Done
    <3>. QED
      BY <1>3, <1>8, <2>1, <2>3, <3>1, <3>2 DEF Phase, CallAt
  <2>. QED
    BY <2>2, <2>4, <2>5, <2>6, <2>7 DEF CallAt
<1>17. Calls(N2, K2, P2)'
  BY <1>8, <1>10, <1>15, <1>16 DEF Calls
<1>18. Watched(N2, K2)'
  <2>1. ASSUME chip'.busy, ~(gaveUp' \/ cut' \/ mixed')
        PROVE  \E u \in Prios : InCall(u)' /\ WillPoll(u, N2[u], K2[u])'
    <3>1. PICK u \in Prios : InCall(u) /\ WillPoll(u, N[u], K[u])
      BY <1>3, <2>1 DEF InvAt, Watched
    <3>2. u \in Prios \ {t}
      BY <1>2, <3>1
    <3>3. WillPoll(u, N[u], K[u])'
      BY <1>3, <1>8, <3>1, <3>2 DEF WillPoll
    <3>. QED
      BY <1>8, <3>1, <3>2, <3>3
  <2>. QED
    BY <2>1 DEF Watched
<1>19. InvAt(N2, K2, P2)'
  BY <1>11, <1>12, <1>13, <1>14, <1>17, <1>18, BeginTypes DEF InvAt
<1>. QED
  BY <1>11, <1>19 DEF Inv

(* The calls stand where they stood.                                       *)
LEMMA Aside ==
  ASSUME taskVars' = taskVars
  PROVE  \A u \in Prios :
           /\ InCall(u)' <=> InCall(u)
           /\ Top(u)' <=> Top(u)
           /\ IsRead(u)' = IsRead(u)
           /\ Typed(u)' <=> Typed(u)
           /\ Script(u)' = Script(u) /\ Main(u)' = Main(u) /\ M(u)' = M(u)
           /\ WriteAt(u)' = WriteAt(u)
           /\ half'[u] = half[u] /\ got'[u] = got[u]
           /\ \A n, k, p : /\ AtStage(u, n, k, p)' <=> AtStage(u, n, k, p)
                           /\ Inside(u, n, k)' <=> Inside(u, n, k)
                           /\ WillPoll(u, n, k)' <=> WillPoll(u, n, k)
<1>1. call' = call /\ todo' = todo /\ half' = half /\ got' = got
  BY DEF taskVars
<1>2. \A u \in Prios :
        /\ InCall(u)' <=> InCall(u)
        /\ IsRead(u)' = IsRead(u)
        /\ Typed(u)' <=> Typed(u)
        /\ Script(u)' = Script(u) /\ Main(u)' = Main(u) /\ M(u)' = M(u)
        /\ Fresh(u)' <=> Fresh(u)
  BY <1>1 DEF InCall, IsRead, Typed, Script, Main, M, Fresh
<1>3. \A u \in Prios : Top(u)' <=> Top(u)
  BY <1>2 DEF Top
<1>4. \A u \in Prios : WriteAt(u)' = WriteAt(u)
  BY <1>2 DEF WriteAt
<1>5. ASSUME NEW u \in Prios, NEW n, NEW k, NEW p
      PROVE  /\ AtStage(u, n, k, p)' <=> AtStage(u, n, k, p)
             /\ Inside(u, n, k)' <=> Inside(u, n, k)
             /\ WillPoll(u, n, k)' <=> WillPoll(u, n, k)
  BY <1>1, <1>2 DEF AtStage, Inside, WillPoll
<1>. QED
  BY <1>1, <1>2, <1>3, <1>4, <1>5

(* A feed ends a selection: it cuts it, or there was none.                 *)
LEMMA FeedKeeps ==
  ASSUME NEW N, NEW K, NEW P, InvAt(N, K, P), WDT_FeedDog
  PROVE  InvAt(N, K, P)'
<1>1. /\ Deselect /\ cut' = (cut \/ chip.sel) /\ mixed' = mixed /\ gaveUp' = gaveUp
      /\ call' = call /\ todo' = todo /\ half' = half /\ got' = got /\ calls' = calls
      /\ \A u \in Prios : disturbed'[u] <=> disturbed[u] \/ (InCall(u) /\ chip.sel)
      /\ taskVars' = taskVars
  BY DEF WDT_FeedDog, taskVars
<1>2. /\ ~chip'.sel
      /\ ~chip.sel =>
           (chip'.busy <=> chip.busy) /\ (chip'.wel <=> chip.wel) /\ mem' = mem /\ wdTime' = wdTime
  BY <1>1, DeselectAt DEF InvAt, X5045TypeOK
<1>3. X5045TypeOK'
  <2>1. /\ disturbed \in [Prios -> BOOLEAN] /\ chip.sel \in BOOLEAN
        /\ cut \in BOOLEAN /\ mixed \in BOOLEAN /\ gaveUp \in BOOLEAN
    BY DEF InvAt, X5045TypeOK, Chip
  <2>2. disturbed' \in [Prios -> BOOLEAN]
    BY <2>1 DEF WDT_FeedDog, InCall
  <2>3. chip' \in Chip /\ mem' \in [Cells -> Bytes] /\ wdTime' \in Bytes
    BY <1>1, DeselectTypes DEF InvAt
  <2>. QED
    BY <1>1, <2>1, <2>2, <2>3 DEF InvAt, X5045TypeOK
<1>4. Idle' /\ HasOwner'
  BY <1>1, <1>2 DEF Idle, HasOwner, InvAt, InCall
<1>5. NoForeignByte'
  BY <1>1, StoresMeant
<1>6. ASSUME NEW u \in Prios, InCall(u)'
      PROVE  CallAt(u, N[u], K[u], P[u])'
  <2>1. InCall(u) /\ CallAt(u, N[u], K[u], P[u])
    BY <1>1, <1>6, Aside DEF InvAt, Calls
  <2>2. Typed(u)' /\ AtStage(u, N[u], K[u], P[u])'
    BY <1>1, <2>1, Aside DEF CallAt
  <2>3. OnlyReads(u)'
    BY <1>1, <2>1, Aside DEF CallAt, OnlyReads
  <2>4. InSync(u, N[u], K[u])'
    <3>1. ASSUME Inside(u, N[u], K[u])', Untouched(u)' \/ ~(cut' \/ mixed')
          PROVE  FALSE
      <4>1. ~chip.sel
        BY <1>1, <3>1, Aside DEF Untouched
      <4>2. Inside(u, N[u], K[u]) /\ (Untouched(u) \/ ~(cut \/ mixed))
        BY <1>1, <3>1, <4>1, Aside DEF Untouched
      <4>. QED
        BY <2>1, <4>1, <4>2 DEF CallAt, InSync, Sync
    <3>. QED
      BY <1>2, <3>1 DEF InSync
  <2>5. Phase(u, N[u], K[u])'
    <3>1. ASSUME ~disturbed'[u] PROVE ~disturbed[u] /\ ~chip.sel
      BY <1>1, <2>1, <3>1
    <3>2. ASSUME ~disturbed'[u] PROVE Done(u)' <=> Done(u)
      BY <1>1, <1>2, <3>1, <3>2 DEF Done
    <3>. QED
      BY <1>1, <1>2, <2>1, <3>1, <3>2, Aside DEF Phase, CallAt
  <2>. QED
    BY <2>2, <2>3, <2>4, <2>5 DEF CallAt
<1>7. Calls(N, K, P)'
  BY <1>6 DEF Calls
<1>8. Watched(N, K)'
  <2>1. ASSUME chip'.busy, ~(gaveUp' \/ cut' \/ mixed')
        PROVE  \E u \in Prios : InCall(u)' /\ WillPoll(u, N[u], K[u])'
    <3>1. chip.busy /\ ~(gaveUp \/ cut \/ mixed)
      BY <1>1, <1>2, <2>1
    <3>2. PICK u \in Prios : InCall(u) /\ WillPoll(u, N[u], K[u])
      BY <3>1 DEF InvAt, Watched
    <3>. QED
      BY <1>1, <3>2, Aside
  <2>. QED
    BY <2>1 DEF Watched
<1>. QED
  BY <1>3, <1>4, <1>5, <1>7, <1>8 DEF InvAt

(* While the chip is busy no undisturbed call is before its write.         *)
LEMMA WriteEndsKeeps ==
  ASSUME NEW N, NEW K, NEW P, InvAt(N, K, P), WriteEnds
  PROVE  InvAt(N, K, P)'
<1>1. /\ chip.busy /\ chip' = [chip EXCEPT !.busy = FALSE, !.wel = FALSE]
      /\ mem' = mem /\ wdTime' = wdTime /\ taskVars' = taskVars
      /\ call' = call /\ todo' = todo /\ half' = half /\ got' = got /\ calls' = calls
      /\ disturbed' = disturbed /\ cut' = cut /\ mixed' = mixed /\ gaveUp' = gaveUp
  BY DEF WriteEnds, taskVars, history
<1>2. /\ chip' \in Chip /\ ~chip'.busy
      /\ chip'.sel = chip.sel /\ chip'.odd = chip.odd /\ chip'.bytes = chip.bytes
  <2>1. chip \in Chip
    BY DEF InvAt, X5045TypeOK
  <2>2. /\ chip.sel \in BOOLEAN /\ chip.odd \in BOOLEAN
        /\ chip.bytes \in Seq(0 .. 255 \union {Garbled})
    BY <2>1 DEF Chip
  <2>. QED
    BY <1>1, <2>1, <2>2, ZenonT(40) DEF Chip
<1>3. X5045TypeOK'
  BY <1>1, <1>2 DEF InvAt, X5045TypeOK
<1>4. Idle' /\ HasOwner' /\ NoForeignByte' /\ Watched(N, K)'
  <2>1. Idle'
    BY <1>1 DEF Idle, InvAt, InCall
  <2>2. HasOwner'
    BY <1>1, <1>2, Aside DEF HasOwner, InvAt
  <2>3. NoForeignByte'
    BY <1>1 DEF NoForeignByte, MeantFor, InvAt
  <2>4. Watched(N, K)'
    BY <1>2 DEF Watched
  <2>. QED
    BY <2>1, <2>2, <2>3, <2>4
<1>5. ASSUME NEW u \in Prios, InCall(u)'
      PROVE  CallAt(u, N[u], K[u], P[u])'
  <2>1. InCall(u) /\ CallAt(u, N[u], K[u], P[u])
    BY <1>1, <1>5, Aside DEF InvAt, Calls
  <2>2. Typed(u)' /\ AtStage(u, N[u], K[u], P[u])'
    BY <1>1, <2>1, Aside DEF CallAt
  <2>3. OnlyReads(u)'
    BY <1>1, <2>1, Aside DEF CallAt, OnlyReads
  <2>4. InSync(u, N[u], K[u])'
    <3>1. Sync(u, N[u], K[u])' <=> Sync(u, N[u], K[u])
      BY <1>1, <1>2, Aside DEF Sync, BytesAt
    <3>2. Untouched(u)' <=> Untouched(u)
      BY <1>1, Aside DEF Untouched
    <3>. QED
      BY <1>1, <1>2, <2>1, <3>1, <3>2, Aside DEF InSync, CallAt
  <2>5. Phase(u, N[u], K[u])'
    <3>1. Done(u)' <=> Done(u)
      BY <1>1 DEF Done
    <3>2. N[u] \in Nat /\ M(u) \in Nat
      BY <2>1, ScriptItems DEF InvAt, CallAt, Typed, M, Main, BytesOf
    <3>3. K[u] = "plain" /\ ~IsRead(u) /\ N[u] \in 4 .. 5 + M(u) => N[u] <= WriteAt(u)
      BY <3>2 DEF WriteAt
    <3>4. ~disturbed[u] => ~(K[u] = "plain" /\ N[u] <= WriteAt(u))
      BY <1>1, <2>1 DEF Phase, CallAt
    <3>. QED
      BY <1>1, <1>2, <2>1, <3>1, <3>3, <3>4, Aside DEF Phase, CallAt
  <2>. QED
    BY <2>2, <2>3, <2>4, <2>5 DEF CallAt
<1>6. Calls(N, K, P)'
  BY <1>5 DEF Calls
<1>. QED
  BY <1>3, <1>4, <1>6 DEF InvAt

LEMMA StutterKeeps ==
  ASSUME NEW N, NEW K, NEW P, InvAt(N, K, P), UNCHANGED vars
  PROVE  InvAt(N, K, P)'
<1>1. /\ call' = call /\ todo' = todo /\ half' = half /\ got' = got /\ calls' = calls
      /\ chip' = chip /\ mem' = mem /\ wdTime' = wdTime
      /\ disturbed' = disturbed /\ cut' = cut /\ mixed' = mixed /\ gaveUp' = gaveUp
      /\ taskVars' = taskVars
  BY DEF vars, taskVars, chipVars, history
<1>2. X5045TypeOK' /\ NoForeignByte'
  BY <1>1 DEF InvAt, X5045TypeOK, NoForeignByte, MeantFor
<1>3. Idle' /\ HasOwner' /\ Watched(N, K)'
  BY <1>1, Aside DEF Idle, HasOwner, Watched, InvAt
<1>4. ASSUME NEW u \in Prios, InCall(u)'
      PROVE  CallAt(u, N[u], K[u], P[u])'
  <2>1. CallAt(u, N[u], K[u], P[u])
    BY <1>1, <1>4, Aside DEF InvAt, Calls
  <2>2. Sync(u, N[u], K[u])' <=> Sync(u, N[u], K[u])
    BY <1>1, Aside DEF Sync, BytesAt
  <2>3. Untouched(u)' <=> Untouched(u)
    BY <1>1, Aside DEF Untouched
  <2>4. InSync(u, N[u], K[u])'
    BY <1>1, <2>1, <2>2, <2>3, Aside DEF InSync, CallAt
  <2>5. Done(u)' <=> Done(u)
    BY <1>1 DEF Done
  <2>6. Phase(u, N[u], K[u])'
    BY <1>1, <2>1, <2>5, Aside DEF Phase, CallAt
  <2>7. OnlyReads(u)'
    BY <1>1, <2>1, Aside DEF CallAt, OnlyReads
  <2>. QED
    BY <1>1, <2>1, <2>4, <2>6, <2>7, Aside DEF CallAt
<1>5. Calls(N, K, P)'
  BY <1>4 DEF Calls
<1>. QED
  BY <1>2, <1>3, <1>5 DEF InvAt

-----------------------------------------------------------------------------
(* The invariant.                                                          *)

LEMMA InvStart ==
  ASSUME Init
  PROVE  Inv
<1>. DEFINE N == [t \in Prios |-> 1]
            K == [t \in Prios |-> "plain"]
            P == [t \in Prios |-> 0]
<1>1. N \in [Prios -> Nat] /\ K \in [Prios -> Kinds] /\ P \in [Prios -> Nat]
  BY DEF Kinds
<1>. HIDE DEF N, K, P
<1>2. X5045TypeOK
  <2>1. chip \in Chip
    <3>1. <<>> \in Seq(0 .. 255 \union {Garbled})
      OBVIOUS
    <3>. QED
      BY <3>1 DEF Init, Chip
  <2>2. todo \in [Prios -> Seq(ItemKinds \X (0 .. 511))]
    BY DEF Init
  <2>3. /\ call \in [Prios -> [op : Ops \union {"none"}, x : 0 .. 511]]
        /\ half \in [Prios -> BOOLEAN] /\ disturbed \in [Prios -> BOOLEAN]
    BY DEF Init
  <2>4. got \in [Prios -> Bytes] /\ mem \in [Cells -> Bytes] /\ wdTime \in Bytes
    BY DEF Init, Bytes
  <2>5. calls = 0 /\ 0 \in 0 .. CallMax
    BY CallMaxAssumption DEF Init
  <2>6. {cut, mixed, gaveUp} \subseteq BOOLEAN
    BY DEF Init
  <2>. QED
    BY <2>1, <2>2, <2>3, <2>4, <2>5, <2>6 DEF X5045TypeOK
<1>3. \A t \in Prios : ~InCall(t)
  BY DEF Init, InCall
<1>4. Idle /\ HasOwner /\ NoForeignByte /\ Calls(N, K, P) /\ Watched(N, K)
  BY <1>3 DEF Init, Idle, HasOwner, NoForeignByte, MeantFor, Calls, Watched
<1>. QED
  BY <1>1, <1>2, <1>4 DEF InvAt, Inv

LEMMA InvKept ==
  ASSUME Inv, [Next]_vars
  PROVE  Inv'
<1>1. PICK N \in [Prios -> Nat], K \in [Prios -> Kinds], P \in [Prios -> Nat] : InvAt(N, K, P)
  BY DEF Inv
<1>2. ASSUME NEW t \in Prios, TaskStep(t) PROVE Inv'
  BY <1>1, <1>2, TaskKeeps
<1>3. ASSUME NEW t \in Prios, NEW op \in Ops, NEW x \in Arguments(op), Begin(t, op, x)
      PROVE  Inv'
  BY <1>1, <1>3, BeginKeeps
<1>4. CASE WDT_FeedDog
  <2>1. InvAt(N, K, P)'
    BY <1>1, <1>4, FeedKeeps
  <2>. QED
    BY <1>1, <2>1 DEF Inv
<1>5. CASE WriteEnds
  <2>1. InvAt(N, K, P)'
    BY <1>1, <1>5, WriteEndsKeeps
  <2>. QED
    BY <1>1, <2>1 DEF Inv
<1>6. CASE UNCHANGED vars
  <2>1. InvAt(N, K, P)'
    BY <1>1, <1>6, StutterKeeps
  <2>. QED
    BY <1>1, <2>1 DEF Inv
<1>. QED
  BY <1>2, <1>3, <1>4, <1>5, <1>6 DEF Next

LEMMA InvHolds == Spec => []Inv
<1>1. Init => Inv
  BY InvStart
<1>2. Inv /\ [Next]_vars => Inv'
  BY InvKept
<1>. QED
  BY <1>1, <1>2, PTL DEF Spec

(* What is left of a call that will poll again holds the poll, or the      *)
(* check of its answer.                                                    *)
LEMMA PollToCome ==
  ASSUME NEW S \in Seq(Items), NEW n \in 1 .. Len(S) + 1, NEW k \in Kinds,
         NEW p \in 0 .. MaxPoll,
         k # "plain" \/ (n <= Len(S) /\ S[Len(S)][1] = "poll")
  PROVE  \E i \in DOMAIN Left(S, n, k, p) : Left(S, n, k, p)[i][1] \in {"poll", "check"}
<1>. DEFINE q == PollItems(k, p)
            r == Rest(S, n)
<1>1. /\ q \in Seq(Items)
      /\ Len(q) = CASE k = "plain" -> 0 [] k = "poll" -> 1 [] k = "r1" -> 5
                    [] k = "r2" -> 4 [] k = "r3" -> 3 [] k = "r4" -> 2 [] k = "r5" -> 1
  BY PollItemsAt
<1>2. r \in Seq(Items) /\ Len(r) = Len(S) - n + 1 /\ Len(S) \in Nat
  BY RestAt
<1>3. k # "plain" => Len(q) > 0 /\ q[Len(q)][1] \in {"poll", "check"}
  <2>1. k = "poll" => Len(q) = 1 /\ q[1][1] = "poll"
    BY <1>1 DEF PollItems
  <2>2. k = "r1" => Len(q) = 5 /\ q[5][1] = "check"
    BY <1>1 DEF PollItems, rdsr_cmd
  <2>3. k = "r2" => Len(q) = 4 /\ q[4][1] = "check"
    BY <1>1 DEF PollItems
  <2>4. k = "r3" => Len(q) = 3 /\ q[3][1] = "check"
    BY <1>1 DEF PollItems
  <2>5. k = "r4" => Len(q) = 2 /\ q[2][1] = "check"
    BY <1>1 DEF PollItems
  <2>6. k = "r5" => Len(q) = 1 /\ q[1][1] = "check"
    BY <1>1 DEF PollItems
  <2>. HIDE DEF q
  <2>. QED
    BY <2>1, <2>2, <2>3, <2>4, <2>5, <2>6 DEF Kinds
<1>4. n <= Len(S) => r[Len(r)] = S[Len(S)]
  BY <1>2 DEF Rest
<1>5. Left(S, n, k, p) = q \o r
  BY DEF Left
<1>. HIDE DEF q, r
<1>6. /\ q \o r \in Seq(Items) /\ Len(q \o r) = Len(q) + Len(r)
      /\ \A i \in 1 .. Len(q) : (q \o r)[i] = q[i]
      /\ \A i \in 1 .. Len(r) : (q \o r)[Len(q) + i] = r[i]
  <2>1. q \in Seq(Items) /\ r \in Seq(Items)
    BY <1>1, <1>2
  <2>. QED
    BY <2>1, ConcatAt
<1>7. DOMAIN (q \o r) = 1 .. Len(q) + Len(r) /\ Len(q) \in Nat /\ Len(r) \in Nat
  BY <1>1, <1>2, <1>6, LenProperties
<1>8. CASE k # "plain"
  <2>1. Len(q) \in 1 .. Len(q) /\ Len(q) \in DOMAIN (q \o r)
    BY <1>3, <1>7, <1>8
  <2>2. (q \o r)[Len(q)] = q[Len(q)]
    BY <1>6, <2>1
  <2>. QED
    BY <1>3, <1>5, <1>8, <2>1, <2>2
<1>9. CASE n <= Len(S) /\ S[Len(S)][1] = "poll"
  <2>1. Len(r) \in 1 .. Len(r) /\ Len(q) + Len(r) \in DOMAIN (q \o r)
    BY <1>2, <1>7, <1>9
  <2>2. (q \o r)[Len(q) + Len(r)] = r[Len(r)]
    BY <1>6, <2>1
  <2>3. (q \o r)[Len(q) + Len(r)][1] = "poll"
    BY <1>4, <1>9, <2>2
  <2>. QED
    BY <1>5, <2>1, <2>3
<1>. QED
  BY <1>8, <1>9

(* The last item of a call that writes is a poll.                          *)
LEMMA EndsWithPoll ==
  ASSUME NEW op \in Ops, NEW x \in Arguments(op), op # "Fct_ByteRead"
  PROVE  Steps(op, x)[Len(Steps(op, x))][1] = "poll"
<1>. DEFINE S == Steps(op, x)
            B == MainBytes(op, x)
<1>1. /\ Len(S) = ScriptLength(op, B) /\ Len(B) \in Nat
      /\ \A n \in 1 .. Len(S) : ItemAt(op, B, n, S[n])
  BY ScriptItems DEF BytesOf
<1>. HIDE DEF S, B
<1>2. Len(S) = IF op = "WDT_SetTime" THEN 8 + Len(B) ELSE 6 + Len(B)
  BY <1>1 DEF ScriptLength
<1>3. Len(S) \in Nat /\ Len(S) \in 1 .. Len(S)
  BY <1>1, <1>2
<1>4. ItemAt(op, B, Len(S), S[Len(S)])
  BY <1>1, <1>3
<1>5. S[Len(S)] = <<"poll", MaxPoll>>
  BY <1>1, <1>2, <1>4 DEF ItemAt
<1>. QED
  BY <1>5 DEF S

-----------------------------------------------------------------------------
(* The theorems.                                                           *)

(* Whatever tasks, interrupts and the chip do, the driver only ever has    *)
(* legal items left and the chip is in a legal state.                      *)
THEOREM TypeCorrect == Spec => []X5045TypeOK
<1>1. Inv => X5045TypeOK
  BY DEF Inv, InvAt
<1>. QED
  BY <1>1, InvHolds, PTL

(* As long as no two tasks shared a selection, every cell holds what it    *)
(* held from the factory or a byte that a call meant for it: a feed that   *)
(* cuts page_write in the middle leaves bytes out but puts none astray.    *)
THEOREM NoByteAstray == Spec => []NoForeignByte
<1>1. Inv => NoForeignByte
  BY DEF Inv, InvAt
<1>. QED
  BY <1>1, InvHolds, PTL

(* While the chip is busy with a write, the call that wrote, or one it was *)
(* interrupted by, still has a poll to come that waits for its end.        *)
THEOREM WritesAreWaitedFor == Spec => []BusyIsPolled
<1>1. Inv => BusyIsPolled
  <2>. SUFFICES ASSUME Inv, chip.busy, ~(gaveUp \/ cut \/ mixed)
                PROVE  \E t \in Prios : \E i \in DOMAIN todo[t] :
                         todo[t][i][1] \in {"poll", "check"}
    BY DEF BusyIsPolled
  <2>1. PICK N \in [Prios -> Nat], K \in [Prios -> Kinds], P \in [Prios -> Nat] : InvAt(N, K, P)
    BY DEF Inv
  <2>2. PICK t \in Prios : InCall(t) /\ WillPoll(t, N[t], K[t])
    BY <2>1 DEF InvAt, Watched
  <2>3. Typed(t) /\ AtStage(t, N[t], K[t], P[t]) /\ call[t].op # "Fct_ByteRead"
    BY <2>1, <2>2 DEF InvAt, Calls, CallAt, WillPoll, IsRead
  <2>4. /\ Script(t) \in Seq(Items) /\ Script(t)[Len(Script(t))][1] = "poll"
        /\ N[t] \in 1 .. Len(Script(t)) + 1 /\ K[t] \in Kinds /\ P[t] \in 0 .. MaxPoll
        /\ todo[t] = Left(Script(t), N[t], K[t], P[t])
    BY <2>3, EndsWithPoll, ScriptItems DEF Typed, AtStage, Script, Legal
  <2>5. K[t] # "plain" \/ N[t] <= Len(Script(t))
    BY <2>2 DEF WillPoll
  <2>6. \E i \in DOMAIN Left(Script(t), N[t], K[t], P[t]) :
          Left(Script(t), N[t], K[t], P[t])[i][1] \in {"poll", "check"}
    <3>1. PICK S \in Seq(Items) : S = Script(t)
      BY <2>4
    <3>2. PICK n \in 1 .. Len(S) + 1 : n = N[t]
      BY <2>4, <3>1
    <3>3. PICK k \in Kinds : k = K[t]
      BY <2>4
    <3>4. PICK p \in 0 .. MaxPoll : p = P[t]
      BY <2>4
    <3>5. k # "plain" \/ (n <= Len(S) /\ S[Len(S)][1] = "poll")
      BY <2>4, <2>5, <3>1, <3>2, <3>3
    <3>6. \E i \in DOMAIN Left(S, n, k, p) : Left(S, n, k, p)[i][1] \in {"poll", "check"}
      BY <3>5, PollToCome
    <3>. QED
      BY <3>1, <3>2, <3>3, <3>4, <3>6, Zenon
  <2>. QED
    BY <2>2, <2>4, <2>6, Zenon
<1>. QED
  BY <1>1, InvHolds, PTL

(* The watchdog period only ever becomes one that a call of WDT_SetTime    *)
(* asks for, as long as no two tasks shared a selection.                   *)
THEOREM PeriodsAreAskedFor == Spec => NoForeignPeriod
<1>1. Inv /\ [Next]_vars =>
        [wdTime' # wdTime /\ ~mixed =>
           wdTime' \in Periods /\ \E x \in Times : wdTime' = Period(x)]_vars
  <2>. SUFFICES ASSUME Inv, Next, wdTime' # wdTime, ~mixed
                PROVE  wdTime' \in Periods /\ \E x \in Times : wdTime' = Period(x)
    OBVIOUS
  <2>1. PICK N \in [Prios -> Nat], K \in [Prios -> Kinds], P \in [Prios -> Nat] : InvAt(N, K, P)
    BY DEF Inv
  <2>2. Deselect
    <3>1. ASSUME NEW t \in Prios, TaskStep(t) PROVE Deselect
      BY <3>1 DEF TaskStep, Select, outbyte, inputbyte, ChipSelectHigh, Poll, chipVars
    <3>2. ASSUME NEW t \in Prios, NEW op, NEW x, Begin(t, op, x) PROVE FALSE
      BY <3>2 DEF Begin, chipVars
    <3>3. ~WriteEnds
      BY DEF WriteEnds
    <3>4. WDT_FeedDog => Deselect
      BY DEF WDT_FeedDog
    <3>. QED
      BY <3>1, <3>2, <3>3, <3>4 DEF Next
  <2>3. SetsTime(chip) /\ wdTime' = chip.bytes[2]
    BY <2>2 DEF Deselect
  <2>4. PICK x \in Times : wdTime' = Period(x)
    BY <2>1, <2>3, PeriodAsked
  <2>5. Period(x) \in Periods
    BY DEF Period, Periods
  <2>. QED
    BY <2>4, <2>5
<1>. QED
  BY <1>1, InvHolds, PTL DEF Spec, NoForeignPeriod

(* A call that nobody disturbed has done what it is for when it returns.   *)
LEMMA Returns ==
  ASSUME Inv, Next, NEW t \in Prios, InCall(t), ~InCall(t)'
  PROVE  Done(t)' \/ disturbed'[t]
<1>1. PICK N \in [Prios -> Nat], K \in [Prios -> Kinds], P \in [Prios -> Nat] : InvAt(N, K, P)
  BY DEF Inv
<1>2. TaskStep(t)
  <2>1. todo'[t] # todo[t]
    BY DEF InCall
  <2>2. ASSUME NEW u \in Prios, TaskStep(u) PROVE u = t
    <3>1. PICK n, k, p : Moved(N, K, u, n, k, p)
      BY <1>1, <2>2, StepMoves
    <3>2. t # u => todo'[t] = todo[t]
      BY <3>1 DEF Moved, Frame
    <3>. QED
      BY <2>1, <3>2
  <2>3. ASSUME NEW u \in Prios, NEW op \in Ops, NEW x \in Arguments(op), Begin(u, op, x)
        PROVE  FALSE
    <3>1. u # t
      BY <2>3, PriosAssumption DEF Begin, MayBegin
    <3>. QED
      BY <1>1, <2>1, <2>3, <3>1 DEF Begin, InvAt, X5045TypeOK
  <2>4. ~WDT_FeedDog /\ ~WriteEnds
    BY <2>1 DEF WDT_FeedDog, WriteEnds, taskVars
  <2>. QED
    BY <2>2, <2>3, <2>4 DEF Next
<1>3. PICK n, k, p : Moved(N, K, t, n, k, p)
  BY <1>1, <1>2, StepMoves
<1>4. call' = call /\ AtStage(t, n, k, p)' /\ Phase(t, n, k)'
  BY <1>3 DEF Moved, Frame
<1>5. Typed(t)
  BY <1>1 DEF InvAt, Calls, CallAt
<1>6. /\ Script(t) \in Seq(Items) /\ M(t) \in Nat
      /\ Len(Script(t)) = ScriptLength(call[t].op, Main(t))
  BY <1>5, ScriptItems DEF Typed, Script, Main, M, BytesOf
<1>7. /\ Legal(call[t].op, Len(Script(t)), M(t), n, k, p)
      /\ Left(Script(t), n, k, p) = <<>>
  BY <1>4 DEF AtStage, InCall, Script, M, Main
<1>8. k = "plain" /\ n = Len(Script(t)) + 1
  BY <1>6, <1>7, LeftLength
<1>9. n > WriteAt(t)
  BY <1>6, <1>8 DEF ScriptLength, WriteAt, IsRead, M
<1>10. WriteAt(t)' = WriteAt(t)
  BY <1>4 DEF WriteAt, IsRead, M, Main
<1>. QED
  BY <1>4, <1>9, <1>10 DEF Phase

(* A write is in its cells, a read has its byte and the period is set when *)
(* the call returns, unless the chip was busy when it began, a call came   *)
(* in that writes, or its selection was shared.                            *)
THEOREM CallsDoTheirWork == Spec => DoneUnlessDisturbed
<1>1. Inv /\ [Next]_vars =>
        [\A t \in Prios :
           InCall(t) /\ ~InCall(t)' => Done(t)' \/ disturbed'[t]]_vars
  BY Returns
<1>. QED
  BY <1>1, InvHolds, PTL DEF Spec, DoneUnlessDisturbed
=============================================================================
