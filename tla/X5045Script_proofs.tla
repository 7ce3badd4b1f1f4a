------------------------- MODULE X5045Script_proofs -------------------------
(***************************************************************************)
(* Lemmas about what the calls of X5045 do on the wires: which item stands *)
(* where in the script of a call, and what is left of it when the call is  *)
(* at an item or waits for the end of a write.                             *)
(***************************************************************************)
EXTENDS X5045, SequenceTheorems, TLAPS

(* What a call sends in its main transaction, after wren_cmd if it writes. *)
MainBytes(op, x) ==
  CASE op = "Fct_ByteWrite" -> Append(Addressed(WRITE_INST, x), ByteData)
    [] op = "Fct_ByteRead" -> Addressed(READ_INST, x)
    [] op = "page_write" -> Addressed(WRITE_INST, x) \o PageData
    [] op = "WDT_SetTime" -> <<WRSR_INST, Period(x)>>

Items == ItemKinds \X (0 .. 511)

USE DEF WREN_INST, WRSR_INST, RDSR_INST, WRITE_INST, READ_INST

-----------------------------------------------------------------------------
(* The layout of the scripts.                                              *)

LEMMA AddressedSplit ==
  ASSUME NEW a \in 0 .. 511, NEW inst \in {WRITE_INST, READ_INST}
  PROVE  /\ Addressed(inst, a) \in Seq(0 .. 255)
         /\ Len(Addressed(inst, a)) = 2
         /\ Addressed(inst, a)[1] \in {inst, inst + 8}
         /\ Addressed(inst, a)[2] + 256 * (Addressed(inst, a)[1] \div 8) = a
<1>1. CASE a >= 256
  <2>1. Addressed(inst, a) = <<inst + 8, a - 256>>
    BY <1>1 DEF Addressed
  <2>2. inst + 8 \in 0 .. 255 /\ a - 256 \in 0 .. 255 /\ (inst + 8) \div 8 = 1
    BY <1>1
  <2>. QED
    BY <2>1, <2>2
<1>2. CASE a < 256
  <2>1. Addressed(inst, a) = <<inst, a>>
    BY <1>2 DEF Addressed
  <2>2. inst \in 0 .. 255 /\ a \in 0 .. 255 /\ inst \div 8 = 0
    BY <1>2
  <2>. QED
    BY <2>1, <2>2
<1>. QED
  BY <1>1, <1>2

LEMMA ConcatAt ==
  ASSUME NEW S, NEW p \in Seq(S), NEW q \in Seq(S)
  PROVE  /\ p \o q \in Seq(S)
         /\ Len(p \o q) = Len(p) + Len(q)
         /\ \A i \in 1 .. Len(p) : (p \o q)[i] = p[i]
         /\ \A i \in 1 .. Len(q) : (p \o q)[Len(p) + i] = q[i]
<1>1. Len(p) \in Nat /\ Len(q) \in Nat
  BY LenProperties
<1>2. /\ p \o q \in Seq(S) /\ Len(p \o q) = Len(p) + Len(q)
      /\ \A i \in 1 .. Len(p) + Len(q) :
           (p \o q)[i] = IF i <= Len(p) THEN p[i] ELSE q[i - Len(p)]
  BY ConcatProperties
<1>3. ASSUME NEW i \in 1 .. Len(p) PROVE (p \o q)[i] = p[i]
  BY <1>1, <1>2
<1>4. ASSUME NEW i \in 1 .. Len(q) PROVE (p \o q)[Len(p) + i] = q[i]
  <2>1. Len(p) + i \in 1 .. Len(p) + Len(q) /\ ~(Len(p) + i <= Len(p))
    BY <1>1
  <2>2. (Len(p) + i) - Len(p) = i
    BY <1>1
  <2>. QED
    BY <1>2, <2>1, <2>2
<1>. QED
  BY <1>2, <1>3, <1>4

LEMMA ConcatOne ==
  ASSUME NEW S, NEW p \in Seq(S), NEW e \in S
  PROVE  /\ p \o <<e>> \in Seq(S)
         /\ Len(p \o <<e>>) = Len(p) + 1
         /\ \A i \in 1 .. Len(p) : (p \o <<e>>)[i] = p[i]
         /\ (p \o <<e>>)[Len(p) + 1] = e
BY AppendProperties, AppendIsConcat, LenProperties

LEMMA TransactionShape ==
  ASSUME NEW b \in Seq(0 .. 255)
  PROVE  /\ Transaction(b) \in Seq(Items)
         /\ Len(b) \in Nat /\ Len(Transaction(b)) = Len(b) + 2
         /\ Transaction(b)[1] = <<"select", 0>>
         /\ \A i \in 1 .. Len(b) : Transaction(b)[1 + i] = <<"out", b[i]>>
         /\ Transaction(b)[Len(b) + 2] = <<"deselect", 0>>
<1>. DEFINE sel == <<<<"select", 0>>>>
            outs == [i \in 1 .. Len(b) |-> <<"out", b[i]>>]
            des == <<<<"deselect", 0>>>>
<1>1. Len(b) \in Nat /\ \A i \in 1 .. Len(b) : b[i] \in 0 .. 255
  BY LenProperties, ElementOfSeq
<1>2. /\ sel \in Seq(Items) /\ Len(sel) = 1 /\ sel[1] = <<"select", 0>>
      /\ des \in Seq(Items) /\ Len(des) = 1 /\ des[1] = <<"deselect", 0>>
  BY DEF Items, ItemKinds
<1>3. /\ outs \in Seq(Items) /\ Len(outs) = Len(b)
      /\ \A i \in 1 .. Len(b) : outs[i] = <<"out", b[i]>>
  <2>1. ASSUME NEW i \in 1 .. Len(b) PROVE <<"out", b[i]>> \in Items
    <3>1. b[i] \in 0 .. 511
      BY <1>1
    <3>. QED
      BY <3>1 DEF Items, ItemKinds
  <2>. QED
    BY <1>1, <2>1
<1>4. Transaction(b) = (sel \o outs) \o des
  BY DEF Transaction, Out
<1>. HIDE DEF sel, outs, des
<1>5. /\ sel \o outs \in Seq(Items) /\ Len(sel \o outs) = 1 + Len(b)
      /\ (sel \o outs)[1] = <<"select", 0>>
      /\ \A i \in 1 .. Len(b) : (sel \o outs)[1 + i] = <<"out", b[i]>>
  <2>1. 1 \in 1 .. Len(sel)
    BY <1>2
  <2>. QED
    BY <1>2, <1>3, <2>1, ConcatAt
<1>6. /\ (sel \o outs) \o des \in Seq(Items)
      /\ Len((sel \o outs) \o des) = (1 + Len(b)) + 1
      /\ \A i \in 1 .. 1 + Len(b) : ((sel \o outs) \o des)[i] = (sel \o outs)[i]
      /\ ((sel \o outs) \o des)[(1 + Len(b)) + 1] = <<"deselect", 0>>
  <2>1. des = <<<<"deselect", 0>>>> /\ <<"deselect", 0>> \in Items
    BY DEF des, Items, ItemKinds
  <2>. DEFINE front == sel \o outs
  <2>2. front \in Seq(Items) /\ Len(front) = 1 + Len(b)
    BY <1>5
  <2>. HIDE DEF front
  <2>3. /\ front \o des \in Seq(Items) /\ Len(front \o des) = Len(front) + 1
        /\ \A i \in 1 .. Len(front) : (front \o des)[i] = front[i]
        /\ (front \o des)[Len(front) + 1] = <<"deselect", 0>>
    BY <2>1, <2>2, ConcatOne
  <2>4. /\ front \o des \in Seq(Items) /\ Len(front \o des) = (1 + Len(b)) + 1
        /\ \A i \in 1 .. 1 + Len(b) : (front \o des)[i] = front[i]
        /\ (front \o des)[(1 + Len(b)) + 1] = <<"deselect", 0>>
    BY <2>2, <2>3
  <2>. QED
    BY <2>4 DEF front
<1>7. /\ 1 \in 1 .. 1 + Len(b) /\ \A i \in 1 .. Len(b) : 1 + i \in 1 .. 1 + Len(b)
      /\ (1 + Len(b)) + 1 = Len(b) + 2
  BY <1>1
<1>8. /\ Transaction(b) \in Seq(Items) /\ Len(Transaction(b)) = Len(b) + 2
      /\ Transaction(b)[Len(b) + 2] = <<"deselect", 0>>
  BY <1>2, <1>4, <1>6, <1>7
<1>9. \A i \in 1 .. 1 + Len(b) : Transaction(b)[i] = (sel \o outs)[i]
  BY <1>4, <1>6
<1>. QED
  BY <1>1, <1>5, <1>7, <1>8, <1>9

(* A script of a call that writes: enable, transaction with the bytes B,   *)
(* poll.  That of WDT_SetTime goes on.                                     *)
WriteLayout(S, B) ==
  /\ S \in Seq(Items) /\ Len(S) >= 6 + Len(B)
  /\ S[1] = <<"select", 0>>
  /\ S[2] = <<"out", WREN_INST>>
  /\ S[3] = <<"deselect", 0>>
  /\ S[4] = <<"select", 0>>
  /\ \A i \in 1 .. Len(B) : S[4 + i] = <<"out", B[i]>>
  /\ S[5 + Len(B)] = <<"deselect", 0>>
  /\ S[6 + Len(B)] = <<"poll", MaxPoll>>

ReadLayout(S, B) ==
  /\ S \in Seq(Items) /\ Len(S) = 5
  /\ S[1] = <<"select", 0>>
  /\ S[2] = <<"out", B[1]>>
  /\ S[3] = <<"out", B[2]>>
  /\ S[4] = <<"in", 0>>
  /\ S[5] = <<"deselect", 0>>

LEMMA WriteShape ==
  ASSUME NEW b \in Seq(0 .. 255)
  PROVE  /\ WriteLayout(wren_cmd \o Transaction(b) \o wip_poll, b)
         /\ Len(wren_cmd \o Transaction(b) \o wip_poll) = 6 + Len(b)
<1>. DEFINE w == wren_cmd
            t == Transaction(b)
            wt == w \o t
            all == wt \o wip_poll
<1>1. /\ w \in Seq(Items) /\ Len(w) = 3 /\ w[1] = <<"select", 0>>
      /\ w[2] = <<"out", WREN_INST>> /\ w[3] = <<"deselect", 0>>
  <2>. DEFINE q == <<WREN_INST>>
  <2>1. q \in Seq(0 .. 255) /\ Len(q) = 1 /\ q[1] = WREN_INST /\ w = Transaction(q)
    BY DEF wren_cmd
  <2>. HIDE DEF q
  <2>2. /\ w \in Seq(Items) /\ Len(w) = Len(q) + 2 /\ w[1] = <<"select", 0>>
        /\ \A i \in 1 .. Len(q) : w[1 + i] = <<"out", q[i]>>
        /\ w[Len(q) + 2] = <<"deselect", 0>>
    BY <2>1, TransactionShape
  <2>3. 1 \in 1 .. Len(q) /\ 1 + 1 = 2
    BY <2>1
  <2>4. w[1 + 1] = <<"out", q[1]>>
    BY <2>2, <2>3
  <2>. HIDE DEF w
  <2>. QED
    BY <2>1, <2>2, <2>3, <2>4
<1>2. /\ t \in Seq(Items) /\ Len(t) = Len(b) + 2 /\ Len(b) \in Nat
      /\ t[1] = <<"select", 0>>
      /\ \A i \in 1 .. Len(b) : t[1 + i] = <<"out", b[i]>>
      /\ t[Len(b) + 2] = <<"deselect", 0>>
  BY TransactionShape
<1>. HIDE DEF w, t
<1>3. /\ wt \in Seq(Items) /\ Len(wt) = Len(w) + Len(t)
      /\ \A i \in 1 .. Len(w) : wt[i] = w[i]
      /\ \A i \in 1 .. Len(t) : wt[Len(w) + i] = t[i]
  <2>1. w \in Seq(Items) /\ t \in Seq(Items)
    BY <1>1, <1>2
  <2>. QED
    BY <2>1, ConcatAt
<1>. HIDE DEF wt
<1>4. /\ wt[1] = <<"select", 0>>
      /\ wt[2] = <<"out", WREN_INST>>
      /\ wt[3] = <<"deselect", 0>>
  BY <1>1, <1>3
<1>5. /\ wt[4] = <<"select", 0>> /\ wt[5 + Len(b)] = <<"deselect", 0>>
      /\ Len(wt) = 5 + Len(b)
  <2>1. 1 \in 1 .. Len(t) /\ Len(b) + 2 \in 1 .. Len(t)
    BY <1>2
  <2>2. 3 + 1 = 4 /\ 3 + (Len(b) + 2) = 5 + Len(b)
    BY <1>2
  <2>3. wt[3 + 1] = t[1] /\ wt[3 + (Len(b) + 2)] = t[Len(b) + 2]
    BY <1>1, <1>3, <2>1
  <2>. QED
    BY <1>1, <1>2, <1>3, <2>2, <2>3
<1>6. ASSUME NEW i \in 1 .. Len(b) PROVE wt[4 + i] = <<"out", b[i]>>
  <2>1. 1 + i \in 1 .. Len(t) /\ 3 + (1 + i) = 4 + i
    BY <1>2
  <2>2. wt[3 + (1 + i)] = t[1 + i]
    BY <1>1, <1>3, <2>1
  <2>. QED
    BY <1>2, <2>1, <2>2
<1>7. /\ all \in Seq(Items) /\ Len(all) = Len(wt) + 1
      /\ \A i \in 1 .. Len(wt) : all[i] = wt[i]
      /\ all[Len(wt) + 1] = <<"poll", MaxPoll>>
  <2>1. wip_poll = <<<<"poll", MaxPoll>>>> /\ <<"poll", MaxPoll>> \in Items
    <3>1. MaxPoll \in 0 .. 511
      BY MaxPollAssumption
    <3>. QED
      BY <3>1 DEF wip_poll, Items, ItemKinds
  <2>. QED
    BY <1>3, <2>1, ConcatOne
<1>. HIDE DEF all
<1>8. /\ Len(all) = 6 + Len(b) /\ all[6 + Len(b)] = <<"poll", MaxPoll>>
      /\ \A i \in 1 .. 5 + Len(b) : all[i] = wt[i]
  <2>1. (5 + Len(b)) + 1 = 6 + Len(b)
    BY <1>2
  <2>. QED
    BY <1>5, <1>7, <2>1
<1>9. /\ 1 \in 1 .. 5 + Len(b) /\ 2 \in 1 .. 5 + Len(b) /\ 3 \in 1 .. 5 + Len(b)
      /\ 4 \in 1 .. 5 + Len(b) /\ 5 + Len(b) \in 1 .. 5 + Len(b)
      /\ \A i \in 1 .. Len(b) : 4 + i \in 1 .. 5 + Len(b)
      /\ 6 + Len(b) >= 6 + Len(b)
  BY <1>2
<1>10. WriteLayout(all, b)
  BY <1>4, <1>5, <1>6, <1>7, <1>8, <1>9 DEF WriteLayout
<1>. QED
  BY <1>8, <1>10 DEF all, wt, t, w

(* The bytes of the four calls.                                            *)
BytesOf(op, x, B) ==
  /\ B \in Seq(0 .. 255) /\ Len(B) \in Nat /\ Len(B) >= 2
  /\ op = "Fct_ByteWrite" => Len(B) = 3 /\ B[3] = ByteData
  /\ op = "Fct_ByteRead" => Len(B) = 2 /\ B[1] \in {READ_INST, READ_INST + 8}
  /\ op = "page_write" =>
       /\ Len(B) = 2 + Len(PageData)
       /\ \A i \in 1 .. Len(PageData) : B[2 + i] = PageData[i]
  /\ op = "WDT_SetTime" => Len(B) = 2 /\ B[1] = WRSR_INST /\ B[2] = Period(x)
  /\ op \in {"Fct_ByteWrite", "page_write"} => B[1] \in {WRITE_INST, WRITE_INST + 8}
  /\ op # "WDT_SetTime" => B[2] + 256 * (B[1] \div 8) = x

LEMMA MainBytesOf ==
  ASSUME NEW op \in Ops, NEW x \in Arguments(op)
  PROVE  BytesOf(op, x, MainBytes(op, x))
<1>1. CASE op = "Fct_ByteWrite"
  <2>. DEFINE ad == Addressed(WRITE_INST, x)
  <2>1. /\ ad \in Seq(0 .. 255) /\ Len(ad) = 2
        /\ ad[1] \in {WRITE_INST, WRITE_INST + 8}
        /\ ad[2] + 256 * (ad[1] \div 8) = x
    <3>1. x \in 0 .. 511
      BY <1>1, AddrsAssumption DEF Arguments
    <3>. QED
      BY <3>1, AddressedSplit, ZenonT(40)
  <2>2. MainBytes(op, x) = Append(ad, ByteData)
    BY <1>1 DEF MainBytes
  <2>. HIDE DEF ad
  <2>. DEFINE B == Append(ad, ByteData)
  <2>3. /\ B \in Seq(0 .. 255) /\ Len(B) = Len(ad) + 1
        /\ \A i \in 1 .. Len(ad) : B[i] = ad[i]
        /\ B[Len(ad) + 1] = ByteData
    <3>1. ad \in Seq(0 .. 255) /\ ByteData \in 0 .. 255
      BY <2>1, ByteDataAssumption
    <3>2. B = ad \o <<ByteData>>
      BY <3>1, AppendIsConcat
    <3>. HIDE DEF B
    <3>. QED
      BY <3>1, <3>2, ConcatOne
  <2>. HIDE DEF B
  <2>4. 1 \in 1 .. Len(ad) /\ 2 \in 1 .. Len(ad)
    BY <2>1
  <2>5. Len(B) = 3 /\ B[3] = ByteData /\ B[1] = ad[1] /\ B[2] = ad[2]
    BY <2>1, <2>3, <2>4
  <2>6. MainBytes(op, x) = B
    BY <2>2 DEF B
  <2>. QED
    BY <1>1, <2>1, <2>3, <2>5, <2>6 DEF BytesOf
<1>2. CASE op = "Fct_ByteRead"
  <2>. DEFINE ad == Addressed(READ_INST, x)
  <2>1. /\ ad \in Seq(0 .. 255) /\ Len(ad) = 2
        /\ ad[1] \in {READ_INST, READ_INST + 8}
        /\ ad[2] + 256 * (ad[1] \div 8) = x
    <3>1. x \in 0 .. 511
      BY <1>2, AddrsAssumption DEF Arguments
    <3>. QED
      BY <3>1, AddressedSplit, ZenonT(40)
  <2>2. MainBytes(op, x) = ad
    BY <1>2 DEF MainBytes
  <2>. HIDE DEF ad
  <2>. QED
    BY <1>2, <2>1, <2>2 DEF BytesOf
<1>3. CASE op = "page_write"
  <2>. DEFINE ad == Addressed(WRITE_INST, x)
  <2>1. /\ ad \in Seq(0 .. 255) /\ Len(ad) = 2
        /\ ad[1] \in {WRITE_INST, WRITE_INST + 8}
        /\ ad[2] + 256 * (ad[1] \div 8) = x
    <3>1. x \in 0 .. 511
      BY <1>3, AddrsAssumption DEF Arguments
    <3>. QED
      BY <3>1, AddressedSplit, ZenonT(40)
  <2>2. MainBytes(op, x) = ad \o PageData
    BY <1>3 DEF MainBytes
  <2>. HIDE DEF ad
  <2>. DEFINE B == ad \o PageData
  <2>3. /\ B \in Seq(0 .. 255) /\ Len(B) = Len(ad) + Len(PageData)
        /\ \A i \in 1 .. Len(ad) : B[i] = ad[i]
        /\ \A i \in 1 .. Len(PageData) : B[Len(ad) + i] = PageData[i]
    <3>1. ad \in Seq(0 .. 255) /\ PageData \in Seq(0 .. 255)
      BY <2>1, PageDataAssumption
    <3>. QED
      BY <3>1, ConcatAt
  <2>4. Len(PageData) \in Nat
    BY PageDataAssumption, LenProperties
  <2>5. MainBytes(op, x) = B
    BY <2>2
  <2>. HIDE DEF B
  <2>6. 1 \in 1 .. Len(ad) /\ 2 \in 1 .. Len(ad)
    BY <2>1
  <2>7. B[1] = ad[1] /\ B[2] = ad[2] /\ Len(B) = 2 + Len(PageData)
        /\ \A i \in 1 .. Len(PageData) : B[2 + i] = PageData[i]
    BY <2>1, <2>3, <2>6
  <2>. QED
    BY <1>3, <2>1, <2>3, <2>4, <2>5, <2>7 DEF BytesOf
<1>4. CASE op = "WDT_SetTime"
  <2>1. Period(x) \in 0 .. 255
    BY <1>4, TimesAssumption DEF Period, Periods, Arguments
  <2>. DEFINE B == <<WRSR_INST, Period(x)>>
  <2>2. MainBytes(op, x) = B
    BY <1>4 DEF MainBytes
  <2>3. B \in Seq(0 .. 255) /\ Len(B) = 2 /\ B[1] = WRSR_INST /\ B[2] = Period(x)
    BY <2>1
  <2>. HIDE DEF B
  <2>. QED
    BY <1>4, <2>2, <2>3 DEF BytesOf
<1>. QED
  BY <1>1, <1>2, <1>3, <1>4 DEF Ops

LEMMA ReadScript ==
  ASSUME NEW x \in Addrs
  PROVE  ReadLayout(Fct_ByteRead(x), MainBytes("Fct_ByteRead", x))
<1>. DEFINE ad == Addressed(READ_INST, x)
            sel == <<<<"select", 0>>>>
            outs == [i \in 1 .. 2 |-> Out(ad[i])]
            last == <<<<"in", 0>>, <<"deselect", 0>>>>
            front == sel \o outs
            all == front \o last
<1>1. MainBytes("Fct_ByteRead", x) = ad /\ Fct_ByteRead(x) = all
  BY DEF MainBytes, Fct_ByteRead
<1>2. ad \in Seq(0 .. 255) /\ Len(ad) = 2
  <2>1. x \in 0 .. 511
    BY AddrsAssumption
  <2>. QED
    BY <2>1, AddressedSplit
<1>. HIDE DEF ad
<1>3. <<"out", ad[1]>> \in Items /\ <<"out", ad[2]>> \in Items
  <2>1. 1 \in 1 .. Len(ad) /\ 2 \in 1 .. Len(ad)
    BY <1>2
  <2>2. ad[1] \in 0 .. 255 /\ ad[2] \in 0 .. 255
    <3>1. ad \in Seq(0 .. 255)
      BY <1>2
    <3>. QED
      BY <2>1, <3>1, ElementOfSeq
  <2>. QED
    BY <2>2 DEF Items, ItemKinds
<1>4. /\ outs \in Seq(Items) /\ Len(outs) = 2
      /\ outs[1] = <<"out", ad[1]>> /\ outs[2] = <<"out", ad[2]>>
  <2>1. outs = << <<"out", ad[1]>>, <<"out", ad[2]>> >>
    BY DEF Out
  <2>. HIDE DEF outs, Items
  <2>. QED
    BY <1>3, <2>1
<1>5. /\ sel \in Seq(Items) /\ Len(sel) = 1 /\ sel[1] = <<"select", 0>>
      /\ last \in Seq(Items) /\ Len(last) = 2
      /\ last[1] = <<"in", 0>> /\ last[2] = <<"deselect", 0>>
  BY DEF Items, ItemKinds
<1>. HIDE DEF sel, outs, last
<1>6. /\ front \in Seq(Items) /\ Len(front) = Len(sel) + Len(outs)
      /\ \A i \in 1 .. Len(sel) : front[i] = sel[i]
      /\ \A i \in 1 .. Len(outs) : front[Len(sel) + i] = outs[i]
  <2>1. sel \in Seq(Items) /\ outs \in Seq(Items)
    BY <1>4, <1>5
  <2>. QED
    BY <2>1, ConcatAt
<1>. HIDE DEF front
<1>7. /\ all \in Seq(Items) /\ Len(all) = Len(front) + Len(last)
      /\ \A i \in 1 .. Len(front) : all[i] = front[i]
      /\ \A i \in 1 .. Len(last) : all[Len(front) + i] = last[i]
  <2>1. front \in Seq(Items) /\ last \in Seq(Items)
    BY <1>5, <1>6
  <2>. QED
    BY <2>1, ConcatAt
<1>. HIDE DEF all
<1>8. /\ Len(front) = 3 /\ front[1] = sel[1]
      /\ front[2] = outs[1] /\ front[3] = outs[2]
  <2>1. 1 \in 1 .. 1 /\ 1 \in 1 .. 2 /\ 2 \in 1 .. 2
    OBVIOUS
  <2>2. front[1 + 1] = outs[1] /\ front[1 + 2] = outs[2] /\ front[1] = sel[1]
    BY <1>4, <1>5, <1>6, <2>1
  <2>. QED
    BY <1>4, <1>5, <1>6, <2>2
<1>9. /\ Len(all) = 5 /\ all[1] = front[1] /\ all[2] = front[2]
      /\ all[3] = front[3] /\ all[4] = last[1] /\ all[5] = last[2]
  <2>1. /\ 1 \in 1 .. 3 /\ 2 \in 1 .. 3 /\ 3 \in 1 .. 3
        /\ 1 \in 1 .. 2 /\ 2 \in 1 .. 2
    OBVIOUS
  <2>2. /\ all[3 + 1] = last[1] /\ all[3 + 2] = last[2]
        /\ all[1] = front[1] /\ all[2] = front[2] /\ all[3] = front[3]
    BY <1>5, <1>7, <1>8, <2>1
  <2>. QED
    BY <1>5, <1>7, <1>8, <2>2
<1>. QED
  BY <1>1, <1>4, <1>5, <1>7, <1>8, <1>9 DEF ReadLayout

LEMMA TimeScript ==
  ASSUME NEW x \in Times
  PROVE  LET B == MainBytes("WDT_SetTime", x)
         IN /\ WriteLayout(WDT_SetTime(x), B)
            /\ Len(WDT_SetTime(x)) = 8 + Len(B)
            /\ WDT_SetTime(x)[7 + Len(B)] = <<"deselect", 0>>
            /\ WDT_SetTime(x)[8 + Len(B)] = <<"poll", MaxPoll>>
<1>. DEFINE B == <<WRSR_INST, Period(x)>>
            front == wren_cmd \o Transaction(B) \o wip_poll
            e == <<"poll", MaxPoll>>
            d == <<"deselect", 0>>
            fd == front \o <<d>>
            S == fd \o <<e>>
<1>1. MainBytes("WDT_SetTime", x) = B /\ WDT_SetTime(x) = S
  BY DEF MainBytes, WDT_SetTime, wip_poll
<1>2. B \in Seq(0 .. 255) /\ Len(B) = 2
  <2>1. Period(x) \in 0 .. 255
    BY TimesAssumption DEF Period, Periods
  <2>. QED
    BY <2>1
<1>. HIDE DEF B
<1>3. WriteLayout(front, B) /\ Len(front) = 6 + Len(B)
  BY <1>2, WriteShape
<1>4. e \in Items /\ d \in Items
  <2>1. MaxPoll \in 0 .. 511
    BY MaxPollAssumption
  <2>. QED
    BY <2>1 DEF Items, ItemKinds
<1>. HIDE DEF front, e, d
<1>5. Len(front) = 8 /\ front \in Seq(Items)
  BY <1>2, <1>3 DEF WriteLayout
<1>6. /\ fd \in Seq(Items) /\ Len(fd) = Len(front) + 1
      /\ \A i \in 1 .. Len(front) : fd[i] = front[i]
      /\ fd[Len(front) + 1] = d
  <2>1. front \in Seq(Items) /\ d \in Items
    BY <1>4, <1>5
  <2>. QED
    BY <2>1, ConcatOne
<1>. HIDE DEF fd
<1>7. /\ S \in Seq(Items) /\ Len(S) = Len(fd) + 1
      /\ \A i \in 1 .. Len(fd) : S[i] = fd[i]
      /\ S[Len(fd) + 1] = e
  BY <1>4, <1>6, ConcatOne
<1>. HIDE DEF S
<1>8. Len(fd) = 9 /\ fd[9] = d /\ \A i \in 1 .. 8 : fd[i] = front[i]
  BY <1>5, <1>6
<1>9. /\ Len(S) = 10 /\ S[9] = d /\ S[10] = e
      /\ \A i \in 1 .. 8 : S[i] = front[i]
  BY <1>7, <1>8
<1>10. WriteLayout(S, B)
  <2>1. /\ front[1] = <<"select", 0>> /\ front[2] = <<"out", WREN_INST>>
        /\ front[3] = <<"deselect", 0>> /\ front[4] = <<"select", 0>>
        /\ \A i \in 1 .. Len(B) : front[4 + i] = <<"out", B[i]>>
        /\ front[5 + Len(B)] = <<"deselect", 0>>
        /\ front[6 + Len(B)] = <<"poll", MaxPoll>>
    BY <1>3 DEF WriteLayout
  <2>2. /\ 1 \in 1 .. 8 /\ 2 \in 1 .. 8 /\ 3 \in 1 .. 8 /\ 4 \in 1 .. 8
        /\ \A i \in 1 .. Len(B) : 4 + i \in 1 .. 8
        /\ 5 + Len(B) \in 1 .. 8 /\ 6 + Len(B) \in 1 .. 8
    BY <1>2
  <2>3. Len(S) >= 6 + Len(B)
    BY <1>2, <1>9
  <2>. QED
    BY <1>7, <1>9, <2>1, <2>2, <2>3, ZenonT(30) DEF WriteLayout
<1>11. 7 + Len(B) = 9 /\ 8 + Len(B) = 10
  BY <1>2
<1>. QED
  BY <1>1, <1>9, <1>10, <1>11 DEF d, e

LEMMA ScriptShape ==
  ASSUME NEW op \in Ops, NEW x \in Arguments(op)
  PROVE  LET S == Steps(op, x)
             B == MainBytes(op, x)
         IN /\ op = "Fct_ByteRead" => ReadLayout(S, B)
            /\ op # "Fct_ByteRead" => WriteLayout(S, B)
            /\ op \in {"Fct_ByteWrite", "page_write"} => Len(S) = 6 + Len(B)
            /\ op = "WDT_SetTime" =>
                 /\ Len(S) = 8 + Len(B)
                 /\ S[7 + Len(B)] = <<"deselect", 0>>
                 /\ S[8 + Len(B)] = <<"poll", MaxPoll>>
<1>. DEFINE B == MainBytes(op, x)
<1>0. B \in Seq(0 .. 255)
  BY MainBytesOf DEF BytesOf
<1>1. CASE op = "Fct_ByteWrite"
  <2>1. Steps(op, x) = wren_cmd \o Transaction(B) \o wip_poll
    BY <1>1 DEF Steps, Fct_ByteWrite, MainBytes
  <2>. HIDE DEF B
  <2>. QED
    BY <1>0, <1>1, <2>1, WriteShape DEF B
<1>2. CASE op = "Fct_ByteRead"
  BY <1>2, ReadScript DEF Steps, Arguments
<1>3. CASE op = "page_write"
  <2>1. Steps(op, x) = wren_cmd \o Transaction(B) \o wip_poll
    BY <1>3 DEF Steps, page_write, MainBytes
  <2>. HIDE DEF B
  <2>. QED
    BY <1>0, <1>3, <2>1, WriteShape DEF B
<1>4. CASE op = "WDT_SetTime"
  BY <1>4, TimeScript DEF Steps, Arguments
<1>. QED
  BY <1>1, <1>2, <1>3, <1>4 DEF Ops

-----------------------------------------------------------------------------
(* Where a call is.  Before item n of its script, or, in the wait for the  *)
(* end of a write, in front of a poll or of an item of its transaction     *)
(* with p polls left.                                                      *)

Kinds == {"plain", "poll", "r1", "r2", "r3", "r4", "r5"}

PollItems(k, p) ==
  CASE k = "plain" -> <<>>
    [] k = "poll" -> <<<<"poll", p>>>>
    [] k = "r1" -> rdsr_cmd(p)
    [] k = "r2" -> <<Out(RDSR_INST), <<"in", 0>>, <<"deselect", 0>>, <<"check", p>>>>
    [] k = "r3" -> <<<<"in", 0>>, <<"deselect", 0>>, <<"check", p>>>>
    [] k = "r4" -> <<<<"deselect", 0>>, <<"check", p>>>>
    [] k = "r5" -> <<<<"check", p>>>>

Rest(S, n) == SubSeq(S, n, Len(S))
Left(S, n, k, p) == PollItems(k, p) \o Rest(S, n)

(* m is the number of bytes of the main transaction.                       *)
Legal(op, L, m, n, k, p) ==
  /\ n \in 1 .. L + 1 /\ k \in Kinds /\ p \in 0 .. MaxPoll
  /\ k # "plain" => op # "Fct_ByteRead" /\ n \in {7 + m, 9 + m}

LEMMA RestAt ==
  ASSUME NEW S \in Seq(Items), NEW n \in 1 .. Len(S) + 1
  PROVE  /\ Len(S) \in Nat
         /\ Rest(S, n) \in Seq(Items) /\ Len(Rest(S, n)) = Len(S) - n + 1
         /\ n <= Len(S) =>
              /\ Rest(S, n) # <<>> /\ S[n] \in Items
              /\ Head(Rest(S, n)) = S[n] /\ Tail(Rest(S, n)) = Rest(S, n + 1)
         /\ n = Len(S) + 1 => Rest(S, n) = <<>>
<1>1. Len(S) \in Nat /\ \A i \in 1 .. Len(S) : S[i] \in Items
  BY LenProperties, ElementOfSeq
<1>2. /\ Rest(S, n) \in Seq(Items)
      /\ Len(Rest(S, n)) = IF n <= Len(S) THEN Len(S) - n + 1 ELSE 0
  <2>1. n \in Int /\ Len(S) \in Int /\ \A i \in n .. Len(S) : S[i] \in Items
    BY <1>1
  <2>. QED
    BY <2>1, SubSeqProperties DEF Rest
<1>3. ASSUME n <= Len(S)
      PROVE  /\ Rest(S, n) # <<>> /\ S[n] \in Items
             /\ Head(Rest(S, n)) = S[n] /\ Tail(Rest(S, n)) = Rest(S, n + 1)
  <2>1. n \in 1 .. Len(S) /\ Len(S) \in n .. Len(S)
    BY <1>1, <1>3
  <2>2. Head(Rest(S, n)) = S[n] /\ Tail(Rest(S, n)) = Rest(S, n + 1)
    BY <2>1, HeadTailOfSubSeq DEF Rest
  <2>3. Len(Rest(S, n)) > 0
    BY <1>1, <1>2, <1>3
  <2>4. Rest(S, n) # <<>>
    BY <1>2, <2>3
  <2>. QED
    BY <1>1, <2>1, <2>2, <2>4
<1>4. ASSUME n = Len(S) + 1 PROVE Rest(S, n) = <<>>
  <2>1. n \in Int /\ Len(S) \in Int /\ Len(S) < n
    BY <1>1, <1>4
  <2>. QED
    BY <2>1, SubSeqEmpty DEF Rest
<1>. QED
  BY <1>1, <1>2, <1>3, <1>4

HeadsOf(a, b, c, d, e, q) ==
  /\ <<e>> \o q # <<>> /\ Head(<<e>> \o q) = e
  /\ Tail(<<e>> \o q) = q
  /\ <<d, e>> \o q # <<>> /\ Head(<<d, e>> \o q) = d
  /\ Tail(<<d, e>> \o q) = <<e>> \o q
  /\ <<c, d, e>> \o q # <<>> /\ Head(<<c, d, e>> \o q) = c
  /\ Tail(<<c, d, e>> \o q) = <<d, e>> \o q
  /\ <<b, c, d, e>> \o q # <<>> /\ Head(<<b, c, d, e>> \o q) = b
  /\ Tail(<<b, c, d, e>> \o q) = <<c, d, e>> \o q
  /\ <<a, b, c, d, e>> \o q # <<>> /\ Head(<<a, b, c, d, e>> \o q) = a
  /\ Tail(<<a, b, c, d, e>> \o q) = <<b, c, d, e>> \o q

LEMMA LiteralHead ==
  ASSUME NEW A, NEW a \in A, NEW b \in A, NEW c \in A, NEW d \in A, NEW e \in A,
         NEW q \in Seq(A)
  PROVE  HeadsOf(a, b, c, d, e, q)
<1>1. /\ <<e>> \o q # <<>> /\ Head(<<e>> \o q) = e
      /\ Tail(<<e>> \o q) = q
  OBVIOUS
<1>2. /\ <<d, e>> \o q # <<>> /\ Head(<<d, e>> \o q) = d
      /\ Tail(<<d, e>> \o q) = <<e>> \o q
  OBVIOUS
<1>3. /\ <<c, d, e>> \o q # <<>> /\ Head(<<c, d, e>> \o q) = c
      /\ Tail(<<c, d, e>> \o q) = <<d, e>> \o q
  OBVIOUS
<1>4. /\ <<b, c, d, e>> \o q # <<>> /\ Head(<<b, c, d, e>> \o q) = b
      /\ Tail(<<b, c, d, e>> \o q) = <<c, d, e>> \o q
  OBVIOUS
<1>5. /\ <<a, b, c, d, e>> \o q # <<>> /\ Head(<<a, b, c, d, e>> \o q) = a
      /\ Tail(<<a, b, c, d, e>> \o q) = <<b, c, d, e>> \o q
  OBVIOUS
<1>. QED
  BY <1>1, <1>2, <1>3, <1>4, <1>5, Zenon DEF HeadsOf

LEMMA ItemsIn ==
  ASSUME NEW p \in 0 .. MaxPoll
  PROVE  /\ <<"poll", p>> \in Items /\ <<"check", p>> \in Items
         /\ <<"select", 0>> \in Items /\ <<"in", 0>> \in Items
         /\ <<"deselect", 0>> \in Items /\ <<"out", RDSR_INST>> \in Items
<1>1. p \in 0 .. 511 /\ 0 \in 0 .. 511 /\ RDSR_INST \in 0 .. 511
  BY MaxPollAssumption
<1>. QED
  BY <1>1, Zenon DEF Items, ItemKinds

LEMMA PollItemsAt ==
  ASSUME NEW k \in Kinds, NEW p \in 0 .. MaxPoll
  PROVE  /\ PollItems(k, p) \in Seq(Items)
         /\ Len(PollItems(k, p)) =
              CASE k = "plain" -> 0 [] k = "poll" -> 1 [] k = "r1" -> 5
                [] k = "r2" -> 4 [] k = "r3" -> 3 [] k = "r4" -> 2 [] k = "r5" -> 1
<1>1. /\ <<"poll", p>> \in Items /\ <<"check", p>> \in Items
      /\ <<"select", 0>> \in Items /\ <<"in", 0>> \in Items
      /\ <<"deselect", 0>> \in Items /\ Out(RDSR_INST) \in Items
  BY ItemsIn DEF Out
<1>. HIDE DEF Items
<1>2. CASE k = "plain"
  BY <1>2 DEF PollItems
<1>3. CASE k = "poll"
  BY <1>1, <1>3 DEF PollItems
<1>4. CASE k = "r1"
  BY <1>1, <1>4 DEF PollItems, rdsr_cmd
<1>5. CASE k = "r2"
  BY <1>1, <1>5 DEF PollItems
<1>6. CASE k = "r3"
  BY <1>1, <1>6 DEF PollItems
<1>7. CASE k = "r4"
  BY <1>1, <1>7 DEF PollItems
<1>8. CASE k = "r5"
  BY <1>1, <1>8 DEF PollItems
<1>. QED
  BY <1>2, <1>3, <1>4, <1>5, <1>6, <1>7, <1>8 DEF Kinds

LEMMA PlainHead ==
  ASSUME NEW S \in Seq(Items), NEW n \in 1 .. Len(S) + 1, NEW p
  PROVE  /\ Left(S, n, "plain", p) = Rest(S, n)
         /\ n <= Len(S) =>
              /\ Left(S, n, "plain", p) # <<>>
              /\ Head(Left(S, n, "plain", p)) = S[n]
              /\ Tail(Left(S, n, "plain", p)) = Left(S, n + 1, "plain", p)
         /\ n = Len(S) + 1 => Left(S, n, "plain", p) = <<>>
<1>1. \A j \in 1 .. Len(S) + 1 : Left(S, j, "plain", p) = Rest(S, j)
  <2>1. ASSUME NEW j \in 1 .. Len(S) + 1 PROVE Left(S, j, "plain", p) = Rest(S, j)
    <3>1. Rest(S, j) \in Seq(Items)
      BY RestAt
    <3>2. Left(S, j, "plain", p) = <<>> \o Rest(S, j)
      BY DEF Left, PollItems
    <3>. QED
      BY <3>1, <3>2, ConcatEmptySeq
  <2>. QED
    BY <2>1
<1>2. /\ Len(S) \in Nat
      /\ n <= Len(S) =>
           /\ Rest(S, n) # <<>> /\ Head(Rest(S, n)) = S[n]
           /\ Tail(Rest(S, n)) = Rest(S, n + 1)
      /\ n = Len(S) + 1 => Rest(S, n) = <<>>
  BY RestAt
<1>3. n <= Len(S) => Left(S, n + 1, "plain", p) = Rest(S, n + 1)
  <2>1. n <= Len(S) => n + 1 \in 1 .. Len(S) + 1
    BY <1>2
  <2>. QED
    BY <1>1, <2>1
<1>4. Left(S, n, "plain", p) = Rest(S, n)
  BY <1>1
<1>. QED
  BY <1>2, <1>3, <1>4

LEMMA PollHead ==
  ASSUME NEW S \in Seq(Items), NEW n \in 1 .. Len(S) + 1, NEW p \in 0 .. MaxPoll,
         NEW k \in Kinds \ {"plain"}
  PROVE  LET T == Left(S, n, k, p)
         IN /\ T # <<>>
            /\ k = "poll" => Head(T) = <<"poll", p>> /\ Tail(T) = Rest(S, n)
            /\ k = "r1" => Head(T) = <<"select", 0>> /\ Tail(T) = Left(S, n, "r2", p)
            /\ k = "r2" => Head(T) = <<"out", RDSR_INST>>
                             /\ Tail(T) = Left(S, n, "r3", p)
            /\ k = "r3" => Head(T) = <<"in", 0>> /\ Tail(T) = Left(S, n, "r4", p)
            /\ k = "r4" => Head(T) = <<"deselect", 0>> /\ Tail(T) = Left(S, n, "r5", p)
            /\ k = "r5" => Head(T) = <<"check", p>> /\ Tail(T) = Rest(S, n)
<1>. DEFINE q == Rest(S, n)
            T == Left(S, n, k, p)
<1>1. q \in Seq(Items)
  BY RestAt
<1>2. /\ <<"poll", p>> \in Items /\ <<"check", p>> \in Items
      /\ <<"select", 0>> \in Items /\ <<"in", 0>> \in Items
      /\ <<"deselect", 0>> \in Items /\ <<"out", RDSR_INST>> \in Items
  BY ItemsIn
<1>. DEFINE pl == <<"poll", p>>
            se == <<"select", 0>>
            ou == <<"out", RDSR_INST>>
            in == <<"in", 0>>
            de == <<"deselect", 0>>
            ch == <<"check", p>>
<1>3. /\ PollItems("poll", p) = <<pl>>
      /\ PollItems("r1", p) = <<se, ou, in, de, ch>>
      /\ PollItems("r2", p) = <<ou, in, de, ch>>
      /\ PollItems("r3", p) = <<in, de, ch>>
      /\ PollItems("r4", p) = <<de, ch>>
      /\ PollItems("r5", p) = <<ch>>
  BY Zenon DEF PollItems, rdsr_cmd, Out
<1>. HIDE DEF pl, se, ou, in, de, ch, q, T, Items
<1>4. /\ pl \in Items /\ se \in Items /\ ou \in Items /\ in \in Items
      /\ de \in Items /\ ch \in Items
  BY <1>2 DEF pl, se, ou, in, de, ch
<1>5. /\ <<pl>> \o q # <<>> /\ Head(<<pl>> \o q) = pl /\ Tail(<<pl>> \o q) = q
      /\ <<ch>> \o q # <<>> /\ Head(<<ch>> \o q) = ch /\ Tail(<<ch>> \o q) = q
      /\ <<de, ch>> \o q # <<>> /\ Head(<<de, ch>> \o q) = de
      /\ Tail(<<de, ch>> \o q) = <<ch>> \o q
      /\ <<in, de, ch>> \o q # <<>> /\ Head(<<in, de, ch>> \o q) = in
      /\ Tail(<<in, de, ch>> \o q) = <<de, ch>> \o q
      /\ <<ou, in, de, ch>> \o q # <<>> /\ Head(<<ou, in, de, ch>> \o q) = ou
      /\ Tail(<<ou, in, de, ch>> \o q) = <<in, de, ch>> \o q
      /\ <<se, ou, in, de, ch>> \o q # <<>> /\ Head(<<se, ou, in, de, ch>> \o q) = se
      /\ Tail(<<se, ou, in, de, ch>> \o q) = <<ou, in, de, ch>> \o q
  <2>1. HeadsOf(se, ou, in, de, ch, q) /\ HeadsOf(se, ou, in, de, pl, q)
    BY <1>1, <1>4, LiteralHead
  <2>. QED
    BY <2>1, Zenon DEF HeadsOf
<1>6. T = PollItems(k, p) \o q
  BY DEF T, Left, q
<1>. USE DEF Left
<1>7. CASE k = "poll"
  BY <1>3, <1>5, <1>6, <1>7, Zenon DEF q, pl, T
<1>8. CASE k = "r1"
  BY <1>3, <1>5, <1>6, <1>8, Zenon DEF q, se, T
<1>9. CASE k = "r2"
  BY <1>3, <1>5, <1>6, <1>9, Zenon DEF q, ou, T
<1>10. CASE k = "r3"
  BY <1>3, <1>5, <1>6, <1>10, Zenon DEF q, in, T
<1>11. CASE k = "r4"
  BY <1>3, <1>5, <1>6, <1>11, Zenon DEF q, de, T
<1>12. CASE k = "r5"
  BY <1>3, <1>5, <1>6, <1>12, Zenon DEF q, ch, T
<1>. QED
  BY <1>7, <1>8, <1>9, <1>10, <1>11, <1>12, Zenon DEF Kinds, T

LEMMA LeftLength ==
  ASSUME NEW S \in Seq(Items), NEW m \in Nat, NEW op, NEW n, NEW k, NEW p,
         Legal(op, Len(S), m, n, k, p)
  PROVE  /\ Left(S, n, k, p) \in Seq(Items)
         /\ Left(S, n, k, p) = <<>> <=> k = "plain" /\ n = Len(S) + 1
         /\ Left(S, n, k, p) = S <=> k = "plain" /\ n = 1
<1>1. n \in 1 .. Len(S) + 1 /\ k \in Kinds /\ p \in 0 .. MaxPoll
      /\ (k # "plain" => n >= 7)
  BY DEF Legal
<1>2. /\ Rest(S, n) \in Seq(Items) /\ Len(Rest(S, n)) = Len(S) - n + 1
      /\ Len(S) \in Nat
  BY <1>1, RestAt
<1>3. Left(S, n, k, p) \in Seq(Items)
      /\ Len(Left(S, n, k, p)) = Len(PollItems(k, p)) + Len(Rest(S, n))
  <2>1. PollItems(k, p) \in Seq(Items)
    BY <1>1, PollItemsAt
  <2>. QED
    BY <1>2, <2>1, ConcatAt DEF Left
<1>4. CASE k = "plain"
  <2>1. Left(S, n, k, p) = Rest(S, n)
    BY <1>1, <1>4, PlainHead
  <2>2. n = 1 => Rest(S, n) = S
    BY SubSeqFull DEF Rest
  <2>3. n # 1 => Len(Rest(S, n)) # Len(S)
    BY <1>1, <1>2
  <2>4. Rest(S, n) = <<>> <=> n = Len(S) + 1
    <3>1. n # Len(S) + 1 => n <= Len(S)
      BY <1>1, <1>2
    <3>. QED
      BY <1>1, <3>1, RestAt
  <2>. QED
    BY <1>3, <1>4, <2>1, <2>2, <2>3, <2>4
<1>5. CASE k # "plain"
  <2>1. Left(S, n, k, p) # <<>>
    BY <1>1, <1>5, PollHead
  <2>2. Len(PollItems(k, p)) \in 0 .. 5
    BY <1>1, PollItemsAt DEF Kinds
  <2>3. Len(Left(S, n, k, p)) # Len(S)
    <3>. DEFINE c == Len(PollItems(k, p))
    <3>1. c \in 0 .. 5 /\ Len(Left(S, n, k, p)) = c + (Len(S) - n + 1)
      BY <1>2, <1>3, <2>2
    <3>2. n >= 7 /\ n \in Nat
      BY <1>1, <1>2, <1>5
    <3>. HIDE DEF c
    <3>. QED
      BY <1>2, <3>1, <3>2
  <2>. QED
    BY <1>3, <1>5, <2>1, <2>3
<1>. QED
  BY <1>4, <1>5

(* Item n of a script, e, if the main transaction sends the bytes B.       *)
ItemAt(op, B, n, e) ==
  \/ n = 1 /\ e = <<"select", 0>>
  \/ /\ op = "Fct_ByteRead"
     /\ \/ n \in {2, 3} /\ e = <<"out", B[n - 1]>>
        \/ n = 4 /\ e = <<"in", 0>>
        \/ n = 5 /\ e = <<"deselect", 0>>
  \/ /\ op # "Fct_ByteRead"
     /\ \/ n = 2 /\ e = <<"out", WREN_INST>>
        \/ n = 3 /\ e = <<"deselect", 0>>
        \/ n = 4 /\ e = <<"select", 0>>
        \/ n \in 5 .. 4 + Len(B) /\ e = <<"out", B[n - 4]>>
        \/ n = 5 + Len(B) /\ e = <<"deselect", 0>>
        \/ n = 6 + Len(B) /\ e = <<"poll", MaxPoll>>
        \/ op = "WDT_SetTime" /\ n = 7 + Len(B) /\ e = <<"deselect", 0>>
        \/ op = "WDT_SetTime" /\ n = 8 + Len(B) /\ e = <<"poll", MaxPoll>>

ScriptLength(op, B) ==
  IF op = "Fct_ByteRead" THEN 5
  ELSE IF op = "WDT_SetTime" THEN 8 + Len(B) ELSE 6 + Len(B)

LEMMA ScriptItems ==
  ASSUME NEW op \in Ops, NEW x \in Arguments(op)
  PROVE  LET S == Steps(op, x)
             B == MainBytes(op, x)
         IN /\ S \in Seq(Items) /\ Len(S) = ScriptLength(op, B)
            /\ BytesOf(op, x, B)
            /\ \A n \in 1 .. Len(S) : ItemAt(op, B, n, S[n])
<1>. DEFINE S == Steps(op, x)
            B == MainBytes(op, x)
<1>1. BytesOf(op, x, B)
  BY MainBytesOf
<1>2. /\ op = "Fct_ByteRead" => ReadLayout(S, B)
      /\ op # "Fct_ByteRead" => WriteLayout(S, B)
      /\ op \in {"Fct_ByteWrite", "page_write"} => Len(S) = 6 + Len(B)
      /\ op = "WDT_SetTime" =>
           /\ Len(S) = 8 + Len(B)
           /\ S[7 + Len(B)] = <<"deselect", 0>>
           /\ S[8 + Len(B)] = <<"poll", MaxPoll>>
  BY ScriptShape
<1>. HIDE DEF S, B
<1>3. Len(B) \in Nat
  BY <1>1 DEF BytesOf
<1>4. CASE op = "Fct_ByteRead"
  <2>1. S \in Seq(Items) /\ Len(S) = ScriptLength(op, B)
    BY <1>2, <1>4 DEF ReadLayout, ScriptLength
  <2>2. /\ S[1] = <<"select", 0>> /\ S[2] = <<"out", B[1]>> /\ S[3] = <<"out", B[2]>>
        /\ S[4] = <<"in", 0>> /\ S[5] = <<"deselect", 0>> /\ Len(S) = 5
    BY <1>2, <1>4 DEF ReadLayout
  <2>3. ASSUME NEW n \in 1 .. Len(S) PROVE ItemAt(op, B, n, S[n])
    <3>1. n = 1 \/ n = 2 \/ n = 3 \/ n = 4 \/ n = 5
      BY <2>2
    <3>2. n = 2 => S[n] = <<"out", B[n - 1]>>
      BY <2>2
    <3>3. n = 3 => S[n] = <<"out", B[n - 1]>>
      BY <2>2
    <3>. QED
      BY <1>4, <2>2, <3>1, <3>2, <3>3, Zenon DEF ItemAt
  <2>. QED
    BY <1>1, <2>1, <2>3 DEF S, B
<1>5. CASE op # "Fct_ByteRead"
  <2>1. op \in {"Fct_ByteWrite", "page_write", "WDT_SetTime"}
    BY <1>5 DEF Ops
  <2>2. S \in Seq(Items) /\ Len(S) = ScriptLength(op, B)
    BY <1>2, <1>5, <2>1 DEF WriteLayout, ScriptLength
  <2>3. /\ S[1] = <<"select", 0>> /\ S[2] = <<"out", WREN_INST>>
        /\ S[3] = <<"deselect", 0>> /\ S[4] = <<"select", 0>>
        /\ \A i \in 1 .. Len(B) : S[4 + i] = <<"out", B[i]>>
        /\ S[5 + Len(B)] = <<"deselect", 0>> /\ S[6 + Len(B)] = <<"poll", MaxPoll>>
        /\ op = "WDT_SetTime" => /\ S[7 + Len(B)] = <<"deselect", 0>>
                                 /\ S[8 + Len(B)] = <<"poll", MaxPoll>>
    BY <1>2, <1>5 DEF WriteLayout
  <2>4. ASSUME NEW n \in 1 .. Len(S) PROVE ItemAt(op, B, n, S[n])
    <3>1. \/ n = 1 \/ n = 2 \/ n = 3 \/ n = 4 \/ n \in 5 .. 4 + Len(B)
          \/ n = 5 + Len(B) \/ n = 6 + Len(B)
          \/ op = "WDT_SetTime" /\ (n = 7 + Len(B) \/ n = 8 + Len(B))
      BY <1>3, <1>5, <2>2 DEF ScriptLength
    <3>2. ASSUME n \in 5 .. 4 + Len(B) PROVE S[n] = <<"out", B[n - 4]>>
      <4>1. n - 4 \in 1 .. Len(B) /\ 4 + (n - 4) = n
        BY <1>3, <3>2
      <4>2. S[4 + (n - 4)] = <<"out", B[n - 4]>>
        BY <2>3, <4>1
      <4>. QED
        BY <4>1, <4>2
    <3>. QED
      BY <1>5, <2>3, <3>1, <3>2, Zenon DEF ItemAt
  <2>. QED
    BY <1>1, <2>2, <2>4 DEF S, B
<1>. QED
  BY <1>4, <1>5

(* What a call does next, and where it is then.                            *)
NextIs(op, x, n, k, p, h, r) ==
  LET S == Steps(op, x)
      B == MainBytes(op, x)
  IN \/ /\ k = "plain" /\ n <= Len(S) /\ ItemAt(op, B, n, h)
        /\ r = Left(S, n + 1, "plain", p)
     \/ k = "poll" /\ h = <<"poll", p>> /\ r = Left(S, n, "plain", p)
     \/ k = "r1" /\ h = <<"select", 0>> /\ r = Left(S, n, "r2", p)
     \/ k = "r2" /\ h = <<"out", RDSR_INST>> /\ r = Left(S, n, "r3", p)
     \/ k = "r3" /\ h = <<"in", 0>> /\ r = Left(S, n, "r4", p)
     \/ k = "r4" /\ h = <<"deselect", 0>> /\ r = Left(S, n, "r5", p)
     \/ k = "r5" /\ h = <<"check", p>> /\ r = Left(S, n, "plain", p)

LEMMA NextItem ==
  ASSUME NEW op \in Ops, NEW x \in Arguments(op), NEW n, NEW k, NEW p,
         Legal(op, Len(Steps(op, x)), Len(MainBytes(op, x)), n, k, p),
         NEW T, T = Left(Steps(op, x), n, k, p), T # <<>>
  PROVE  NextIs(op, x, n, k, p, Head(T), Tail(T))
<1>. DEFINE S == Steps(op, x)
            B == MainBytes(op, x)
<1>1. /\ S \in Seq(Items) /\ \A j \in 1 .. Len(S) : ItemAt(op, B, j, S[j])
      /\ Len(B) \in Nat
  BY ScriptItems DEF BytesOf
<1>2. n \in 1 .. Len(S) + 1 /\ k \in Kinds /\ p \in 0 .. MaxPoll
  BY DEF Legal
<1>3. T = Left(S, n, k, p)
  OBVIOUS
<1>4. Legal(op, Len(S), Len(B), n, k, p)
  OBVIOUS
<1>5. NextIs(op, x, n, k, p, Head(T), Tail(T)) <=>
       \/ /\ k = "plain" /\ n <= Len(S) /\ ItemAt(op, B, n, Head(T))
          /\ Tail(T) = Left(S, n + 1, "plain", p)
       \/ k = "poll" /\ Head(T) = <<"poll", p>> /\ Tail(T) = Left(S, n, "plain", p)
       \/ k = "r1" /\ Head(T) = <<"select", 0>> /\ Tail(T) = Left(S, n, "r2", p)
       \/ k = "r2" /\ Head(T) = <<"out", RDSR_INST>> /\ Tail(T) = Left(S, n, "r3", p)
       \/ k = "r3" /\ Head(T) = <<"in", 0>> /\ Tail(T) = Left(S, n, "r4", p)
       \/ k = "r4" /\ Head(T) = <<"deselect", 0>> /\ Tail(T) = Left(S, n, "r5", p)
       \/ k = "r5" /\ Head(T) = <<"check", p>> /\ Tail(T) = Left(S, n, "plain", p)
  BY Zenon DEF NextIs
<1>. HIDE DEF S, B
<1>6. CASE k = "plain"
  <2>1. n # Len(S) + 1
    BY <1>1, <1>2, <1>3, <1>6, PlainHead
  <2>2. n \in 1 .. Len(S) /\ n <= Len(S)
    BY <1>1, <1>2, <2>1, LenProperties
  <2>3. Head(T) = S[n] /\ Tail(T) = Left(S, n + 1, "plain", p)
    BY <1>1, <1>2, <1>3, <1>6, <2>2, PlainHead
  <2>4. ItemAt(op, B, n, Head(T))
    BY <1>1, <2>2, <2>3
  <2>. QED
    BY <1>5, <1>6, <2>2, <2>3, <2>4
<1>7. CASE k # "plain"
  <2>1. k \in Kinds \ {"plain"}
    BY <1>2, <1>7
  <2>2. /\ k = "poll" => Head(T) = <<"poll", p>> /\ Tail(T) = Rest(S, n)
        /\ k = "r1" => Head(T) = <<"select", 0>> /\ Tail(T) = Left(S, n, "r2", p)
        /\ k = "r2" => Head(T) = <<"out", RDSR_INST>> /\ Tail(T) = Left(S, n, "r3", p)
        /\ k = "r3" => Head(T) = <<"in", 0>> /\ Tail(T) = Left(S, n, "r4", p)
        /\ k = "r4" => Head(T) = <<"deselect", 0>> /\ Tail(T) = Left(S, n, "r5", p)
        /\ k = "r5" => Head(T) = <<"check", p>> /\ Tail(T) = Rest(S, n)
    BY <1>1, <1>2, <1>3, <2>1, PollHead
  <2>3. Rest(S, n) = Left(S, n, "plain", p)
    BY <1>1, <1>2, PlainHead
  <2>. QED
    BY <1>5, <2>1, <2>2, <2>3, Zenon DEF Kinds
<1>. QED
  BY <1>6, <1>7
=============================================================================
