---------------------------- MODULE SendTest_proofs ----------------------------
(***************************************************************************)
(* Proofs about the test transmitter.  In the order of the comments its    *)
(* frame goes through phases that Phases lists with what is so in each;    *)
(* with registers it is two machines that take turns (Twins).              *)
(***************************************************************************)
EXTENDS SendTest, SequenceTheorems, TLAPS

(* The machine and its states.                                             *)

LEMMA PathIs ==
  /\ Len(Path) = 20
  /\ Path[1] = "IDLE" /\ Path[2] = "WAIT_IFG" /\ Path[3] = "SEND_START"
  /\ Path[4] = "SEND_PRE_NUM" /\ Path[5] = "SEND_START_NUM"
  /\ Path[6] = "SEND_1DATA" /\ Path[7] = "SEND_2DATA" /\ Path[8] = "SEND_3DATA"
  /\ Path[9] = "SEND_4DATA"
  /\ Path[10] = "SEND_1CRC" /\ Path[11] = "SEND_2CRC" /\ Path[12] = "SEND_3CRC"
  /\ Path[13] = "SEND_4CRC" /\ Path[14] = "SEND_5CRC" /\ Path[15] = "SEND_6CRC"
  /\ Path[16] = "SEND_7CRC" /\ Path[17] = "SEND_8CRC"
  /\ Path[18] = "SEND_OVER" /\ Path[19] = "SEND_OVER_DLY" /\ Path[20] = "IDLE"
BY DEF Path, DataStates, CrcStates

LEMMA Follows ==
  /\ Following("IDLE") = "WAIT_IFG" /\ Following("WAIT_IFG") = "SEND_START"
  /\ Following("SEND_START") = "SEND_PRE_NUM"
  /\ Following("SEND_PRE_NUM") = "SEND_START_NUM"
  /\ Following("SEND_START_NUM") = "SEND_1DATA"
  /\ Following("SEND_1DATA") = "SEND_2DATA"
  /\ Following("SEND_2DATA") = "SEND_3DATA"
  /\ Following("SEND_3DATA") = "SEND_4DATA"
  /\ Following("SEND_4DATA") = "SEND_1CRC"
  /\ Following("SEND_1CRC") = "SEND_2CRC"
  /\ Following("SEND_2CRC") = "SEND_3CRC"
  /\ Following("SEND_3CRC") = "SEND_4CRC"
  /\ Following("SEND_4CRC") = "SEND_5CRC"
  /\ Following("SEND_5CRC") = "SEND_6CRC"
  /\ Following("SEND_6CRC") = "SEND_7CRC"
  /\ Following("SEND_7CRC") = "SEND_8CRC"
  /\ Following("SEND_8CRC") = "SEND_OVER"
  /\ Following("SEND_OVER") = "SEND_OVER_DLY"
  /\ Following("SEND_OVER_DLY") = "IDLE"
<1>1. ASSUME NEW i \in 1 .. 19, NEW j \in 1 .. 19, Path[i] = Path[j]
      PROVE  i = j
  BY <1>1, PathIs, SMTT(30)
<1>2. ASSUME NEW i \in 1 .. 19 PROVE Following(Path[i]) = Path[1 + i]
  <2>. DEFINE c == CHOOSE j \in 1 .. Len(Path) - 1 : Path[j] = Path[i]
  <2>1. c \in 1 .. 19 /\ Path[c] = Path[i]
    BY PathIs
  <2>. HIDE DEF c
  <2>2. c = i
    BY <1>1, <2>1
  <2>. QED
    BY <2>2 DEF Following, c
<1>3. /\ Following(Path[1]) = Path[2] /\ Following(Path[2]) = Path[3]
      /\ Following(Path[3]) = Path[4] /\ Following(Path[4]) = Path[5]
      /\ Following(Path[5]) = Path[6] /\ Following(Path[6]) = Path[7]
      /\ Following(Path[7]) = Path[8] /\ Following(Path[8]) = Path[9]
      /\ Following(Path[9]) = Path[10] /\ Following(Path[10]) = Path[11]
      /\ Following(Path[11]) = Path[12] /\ Following(Path[12]) = Path[13]
      /\ Following(Path[13]) = Path[14] /\ Following(Path[14]) = Path[15]
      /\ Following(Path[15]) = Path[16] /\ Following(Path[16]) = Path[17]
      /\ Following(Path[17]) = Path[18] /\ Following(Path[18]) = Path[19]
      /\ Following(Path[19]) = Path[20]
  BY <1>2
<1>. QED
  BY <1>3, PathIs

LEMMA StateSets ==
  /\ Range(DataStates) = {"SEND_1DATA", "SEND_2DATA", "SEND_3DATA", "SEND_4DATA"}
  /\ Range(CrcStates) =
       {"SEND_1CRC", "SEND_2CRC", "SEND_3CRC", "SEND_4CRC",
        "SEND_5CRC", "SEND_6CRC", "SEND_7CRC", "SEND_8CRC"}
  /\ States =
       {"IDLE", "WAIT_IFG", "SEND_START", "SEND_OVER", "SEND_OVER_DLY"} \union Writes
<1>1. /\ \A s : s \in Range(DataStates) <=> \E i \in 1 .. 4 : s = DataStates[i]
      /\ \A s : s \in Range(CrcStates) <=> \E i \in 1 .. 8 : s = CrcStates[i]
  BY DEF Range, DataStates, CrcStates
<1>2. \A s : s \in States <=> \E i \in 1 .. 20 : s = Path[i]
  BY PathIs DEF States, Range
<1>3. Range(DataStates) = {"SEND_1DATA", "SEND_2DATA", "SEND_3DATA", "SEND_4DATA"}
  BY <1>1 DEF DataStates
<1>4. Range(CrcStates) =
       {"SEND_1CRC", "SEND_2CRC", "SEND_3CRC", "SEND_4CRC",
        "SEND_5CRC", "SEND_6CRC", "SEND_7CRC", "SEND_8CRC"}
  BY <1>1 DEF CrcStates
<1>. QED
  BY <1>2, <1>3, <1>4, PathIs DEF Writes

LEMMA NibbleOf ==
  /\ \A k \in 1 .. 4 : NibbleFor(DataStates[k]) = DataNibble(send_data, NibbleOrder[k])
  /\ \A k \in 1 .. 8 : NibbleFor(CrcStates[k]) = CrcNibble(fed, k)
<1>1. ASSUME NEW k \in 1 .. 4
      PROVE  NibbleFor(DataStates[k]) = DataNibble(send_data, NibbleOrder[k])
  <2>. DEFINE c == CHOOSE i \in 1 .. 4 : DataStates[i] = DataStates[k]
  <2>1. c \in 1 .. 4 /\ DataStates[c] = DataStates[k]
    OBVIOUS
  <2>2. \A i \in 1 .. 4 : DataStates[i] = DataStates[k] => i = k
    BY DEF DataStates
  <2>3. DataStates[k] \in Range(DataStates) /\ DataStates[k] \notin {"SEND_PRE_NUM", "SEND_START_NUM"}
    BY StateSets DEF DataStates
  <2>4. NibbleFor(DataStates[k]) = DataNibble(send_data, NibbleOrder[c])
    BY <2>3 DEF NibbleFor
  <2>. HIDE DEF c
  <2>. QED
    BY <2>1, <2>2, <2>4
<1>2. ASSUME NEW k \in 1 .. 8
      PROVE  NibbleFor(CrcStates[k]) = CrcNibble(fed, k)
  <2>. DEFINE c == CHOOSE i \in 1 .. 8 : CrcStates[i] = CrcStates[k]
  <2>1. c \in 1 .. 8 /\ CrcStates[c] = CrcStates[k]
    OBVIOUS
  <2>2. \A i \in 1 .. 8 : CrcStates[i] = CrcStates[k] => i = k
    BY SMTT(30) DEF CrcStates
  <2>3. /\ CrcStates[k] \in Range(CrcStates) /\ CrcStates[k] \notin Range(DataStates)
        /\ CrcStates[k] \notin {"SEND_PRE_NUM", "SEND_START_NUM"}
    BY StateSets DEF CrcStates
  <2>4. NibbleFor(CrcStates[k]) = CrcNibble(fed, c)
    BY <2>3 DEF NibbleFor
  <2>. HIDE DEF c
  <2>. QED
    BY <2>1, <2>2, <2>4
<1>. QED
  BY <1>1, <1>2

-----------------------------------------------------------------------------
(* Types.                                                                  *)

LEMMA WordIn ==
  ASSUME NEW i \in Nat
  PROVE  Word(i) \in -3 .. WORDS - 1
BY WordsAssumption DEF Word, Unknown

LEMMA NibbleIn ==
  ASSUME send_data \in -3 .. WORDS - 1, o_send_data_3 \in Nibbles, NEW s
  PROVE  NibbleFor(s) \in Nibbles
<1>1. Preamble \in Nibbles /\ Start \in Nibbles /\ Blank \in Nibbles
  BY DEF Preamble, Start, Blank, Nibbles
<1>2. CASE s \in Range(DataStates)
  <2>1. PICK k \in 1 .. 4 : s = DataStates[k]
    BY <1>2 DEF Range, DataStates
  <2>2. NibbleOrder[k] \in 0 .. 8
    BY DEF NibbleOrder
  <2>3. DataNibble(send_data, NibbleOrder[k]) \in Nibbles
    BY <2>2 DEF DataNibble, Nibbles
  <2>. QED
    BY <2>1, <2>3, NibbleOf
<1>3. CASE s \in Range(CrcStates)
  <2>1. PICK k \in 1 .. 8 : s = CrcStates[k]
    BY <1>3 DEF Range, CrcStates
  <2>2. CrcNibble(fed, k) \in Nibbles
    <3>1. CrcNibble(fed, k) = <<-7, k>> \/ CrcNibble(fed, k) = <<-8, k>>
      BY DEF CrcNibble
    <3>. QED
      BY <3>1 DEF Nibbles
  <2>. QED
    BY <2>1, <2>2, NibbleOf
<1>. QED
  BY <1>1, <1>2, <1>3 DEF NibbleFor

LEMMA FollowingIn ==
  ASSUME NEW s \in States
  PROVE  Following(s) \in States
BY StateSets, Follows DEF Writes

LEMMA TypeStart == Init => SendTestTypeOK
<1>. SUFFICES ASSUME Init PROVE SendTestTypeOK
  OBVIOUS
<1>1. "IDLE" \in States /\ Blank \in Nibbles
  BY StateSets DEF Blank, Nibbles
<1>2. /\ early \subseteq Readers
      /\ {fsm_cs, fsm_ns} \subseteq States
      /\ {sendIrq, ram_wrEn, wren, rden, tx_en_2, o_sendDn, o_sendIdl, owed} \subseteq BOOLEAN
  BY <1>1 DEF Init
<1>3. /\ sendIrq_num \in 0 .. IRQ + 1 /\ pre_num_counter \in 0 .. 15 /\ ram_rdNum \in 0 .. 1023
      /\ {dly_counter, ifg_num, address, NUM_2} \subseteq 0 .. 255
      /\ resets \in 0 .. ResetMax
  BY IrqAssumption, ResetAssumption DEF Init
<1>4. {send_data, CRC_data} \subseteq -3 .. WORDS - 1
  BY WordsAssumption DEF Init, Zero, Filler
<1>5. o_send_data_3 \in Nibbles /\ ram_data \in [0 .. RAM_SIZE - 1 -> Nibbles]
  BY <1>1 DEF Init
<1>6. fed \in Seq(-3 .. WORDS - 1) /\ sent \in Seq(Nibbles)
  BY DEF Init
<1>. QED
  BY <1>2, <1>3, <1>4, <1>5, <1>6 DEF SendTestTypeOK

LEMMA JudgedType ==
  ASSUME SendTestTypeOK, Judgement
  PROVE  fsm_ns' \in States
<1>1. "SEND_1DATA" \in States /\ fsm_cs \in States
  BY StateSets DEF Writes, SendTestTypeOK
<1>. QED
  BY <1>1, FollowingIn DEF Judgement

LEMMA ClkTypes ==
  ASSUME SendTestTypeOK, Clk
  PROVE  SendTestTypeOK'
<1>. /\ sendIrq \in BOOLEAN /\ ram_wrEn \in BOOLEAN /\ wren \in BOOLEAN
     /\ rden \in BOOLEAN /\ tx_en_2 \in BOOLEAN /\ owed \in BOOLEAN
     /\ o_sendDn \in BOOLEAN /\ o_sendIdl \in BOOLEAN
     /\ fsm_cs \in States /\ fsm_ns \in States
     /\ dly_counter \in 0 .. 255 /\ ifg_num \in 0 .. 255 /\ address \in 0 .. 255
     /\ NUM_2 \in 0 .. 255 /\ pre_num_counter \in 0 .. 15 /\ ram_rdNum \in 0 .. 1023
     /\ sendIrq_num \in 0 .. IRQ + 1
     /\ send_data \in -3 .. WORDS - 1 /\ CRC_data \in -3 .. WORDS - 1
     /\ early \subseteq Readers /\ resets \in 0 .. ResetMax
     /\ o_send_data_3 \in Nibbles /\ ram_data \in [0 .. RAM_SIZE - 1 -> Nibbles]
     /\ fed \in Seq(-3 .. WORDS - 1) /\ sent \in Seq(Nibbles)
  BY DEF SendTestTypeOK
<1>1. {fsm_cs, fsm_ns}' \subseteq States
  <2>1. fsm_ns' \in States
    BY JudgedType DEF Clk
  <2>2. fsm_cs' \in {fsm_ns, fsm_ns'}
    BY DEF Clk, Transition, Seen
  <2>. QED
    BY <2>1, <2>2
<1>2. sendIrq_num' \in 0 .. IRQ + 1 /\ sendIrq' \in BOOLEAN
  BY IrqAssumption DEF Clk, Request
<1>3. dly_counter' \in 0 .. 255 /\ pre_num_counter' \in 0 .. 15
  BY DEF Clk, Counters
<1>4. address' \in 0 .. 255 /\ ifg_num' \in 0 .. 255 /\ ram_rdNum' \in 0 .. 1023
  BY DEF Clk, Outputs
<1>5. {wren, rden, o_sendDn, o_sendIdl}' \subseteq BOOLEAN
  BY DEF Clk, Outputs
<1>6. o_send_data_3' \in Nibbles
  BY NibbleIn DEF Clk, Outputs
<1>7. {send_data, CRC_data}' \subseteq -3 .. WORDS - 1
  <2>1. Word(ifg_num) \in -3 .. WORDS - 1 /\ Word(ram_rdNum) \in -3 .. WORDS - 1
    <3>1. ifg_num \in Nat /\ ram_rdNum \in Nat
      OBVIOUS
    <3>. QED
      BY <3>1, WordIn
  <2>2. Filler \in -3 .. WORDS - 1 /\ Zero \in -3 .. WORDS - 1
    BY WordsAssumption DEF Filler, Zero
  <2>. QED
    BY <2>1, <2>2 DEF Clk, CrcWord, FrameWord
<1>8. fed' \in Seq(-3 .. WORDS - 1)
  <2>1. <<>> \in Seq(-3 .. WORDS - 1) /\ fed \in Seq(-3 .. WORDS - 1)
    OBVIOUS
  <2>2. Append(fed, CRC_data) \in Seq(-3 .. WORDS - 1)
    BY <2>1
  <2>. QED
    BY <2>1, <2>2 DEF Clk, CrcTakes
<1>9. ram_data' \in [0 .. RAM_SIZE - 1 -> Nibbles]
  BY DEF Clk, RamWrite
<1>10. NUM_2' \in 0 .. 255 /\ tx_en_2' \in BOOLEAN /\ sent' \in Seq(Nibbles)
  <2>1. NUM_2' \in 0 .. 255 /\ tx_en_2' \in BOOLEAN
    BY RamAssumption DEF Clk, ReadOut
  <2>2. rden /\ NUM_2 < RAM_SIZE => ram_data[NUM_2] \in Nibbles
    BY RamAssumption
  <2>3. PICK s \in Seq(Nibbles) : s = IF tx_en_2 THEN sent ELSE <<>>
    <3>1. <<>> \in Seq(Nibbles) /\ sent \in Seq(Nibbles)
      OBVIOUS
    <3>. QED
      BY <3>1
  <2>4. sent' = IF rden /\ NUM_2 < RAM_SIZE THEN Append(s, ram_data[NUM_2]) ELSE sent
    BY <2>3 DEF Clk, ReadOut
  <2>5. sent' \in Seq(Nibbles)
    BY <2>2, <2>4
  <2>. QED
    BY <2>1, <2>5
<1>11. ram_wrEn' \in BOOLEAN /\ owed' \in BOOLEAN /\ early' = early /\ resets' = resets
  BY DEF Clk, CrcEnable
<1>. QED
  BY <1>1, <1>2, <1>3, <1>4, <1>5, <1>6, <1>7, <1>8, <1>9, <1>10, <1>11 DEF SendTestTypeOK

LEMMA ResetTypes ==
  ASSUME SendTestTypeOK, Reset
  PROVE  SendTestTypeOK'
<1>. USE DEF SendTestTypeOK
<1>1. {fsm_cs, fsm_ns}' \subseteq States
  <2>1. "IDLE" \in States
    BY StateSets
  <2>. QED
    BY <2>1, JudgedType DEF Reset
<1>2. /\ sendIrq_num' \in 0 .. IRQ + 1 /\ pre_num_counter' \in 0 .. 15 /\ ram_rdNum' \in 0 .. 1023
      /\ {dly_counter, ifg_num, address, NUM_2}' \subseteq 0 .. 255
      /\ resets' \in 0 .. ResetMax /\ early' \subseteq Readers
  BY ResetAssumption DEF Reset
<1>3. {sendIrq, ram_wrEn, wren, rden, tx_en_2, o_sendDn, o_sendIdl, owed}' \subseteq BOOLEAN
  BY DEF Reset
<1>4. {send_data, CRC_data}' \subseteq -3 .. WORDS - 1
  BY WordsAssumption DEF Reset, Zero, Filler
<1>5. o_send_data_3' \in Nibbles /\ ram_data' \in [0 .. RAM_SIZE - 1 -> Nibbles]
  BY DEF Reset, Blank, Nibbles
<1>6. fed' \in Seq(-3 .. WORDS - 1) /\ sent' \in Seq(Nibbles)
  BY DEF Reset
<1>. QED
  BY <1>1, <1>2, <1>3, <1>4, <1>5, <1>6

(* The counters of the transmitter stay within their widths, and its       *)
(* machine within its states, in every order of evaluation.                *)
THEOREM TypeCorrect == Spec => []SendTestTypeOK
<1>1. SendTestTypeOK /\ [Next]_vars => SendTestTypeOK'
  <2>1. SendTestTypeOK /\ UNCHANGED vars => SendTestTypeOK'
    BY DEF SendTestTypeOK, vars
  <2>. QED
    BY <2>1, ClkTypes, ResetTypes DEF Next
<1>. QED
  BY <1>1, TypeStart, PTL DEF Spec

-----------------------------------------------------------------------------
(* The numbers fit each other: 144 = 14 + 4 * 30 + 10 nibbles, 71 + 1 =    *)
(* 144 / 2 clocks of read-out, and a period of 125002 clocks, which is     *)
(* even and leaves time for the frame.                                     *)

FrameFits == RAM_SIZE = PRE + 4 * WORDS + 10
ReadOutFits == DLY + 1 = RAM_SIZE \div 2
RequestsApart == WORDS + RAM_SIZE + DLY + 6 <= IRQ
Fits == FrameFits /\ ReadOutFits /\ RequestsApart
Alternates == IRQ % 2 = 0 /\ PRE > 0

(* The phases of a frame, in the order of the comments.                    *)

InFrame(i) == Frame[i + 1]
Written(n) == \A a \in 0 .. n - 1 : ram_data[a] = InFrame(a)

(* The first m words of the CRC: a filler and then the frame.              *)
FedUpTo(m) == [i \in 1 .. m |-> IF i = 1 THEN Filler ELSE i - 2]
CrcMade == ~ram_wrEn /\ fed = FedUpTo(WORDS + 1)

Quiet == ~wren /\ ~rden /\ ~tx_en_2 /\ NUM_2 = 1

InIdle ==
  /\ fsm_cs = "IDLE" /\ Quiet /\ ~owed
  /\ sendIrq => address = 255 /\ ifg_num = 255 /\ ram_rdNum = 0
InWait ==
  /\ fsm_cs = "WAIT_IFG" /\ fsm_ns = "WAIT_IFG" /\ Quiet
  /\ ifg_num \in 0 .. WORDS + 2 /\ sendIrq_num = ifg_num
  /\ address = 255 /\ ram_rdNum = 0
  /\ ram_wrEn <=> ifg_num <= WORDS
  /\ CRC_data = IF ifg_num \in 1 .. WORDS THEN ifg_num - 1 ELSE Filler
  /\ fed = FedUpTo(IF ifg_num <= WORDS THEN ifg_num ELSE WORDS + 1)
InStart ==
  /\ fsm_cs = "SEND_START" /\ Quiet /\ CrcMade
  /\ sendIrq_num = WORDS + 3 /\ address = 255 /\ ram_rdNum = 0

(* Nibble n is about to be written.                                        *)
Writing(n) ==
  /\ wren /\ ~rden /\ ~tx_en_2 /\ NUM_2 = 1 /\ CrcMade
  /\ n < RAM_SIZE /\ address = n /\ sendIrq_num = WORDS + 4 + n
  /\ o_send_data_3 = InFrame(n) /\ Written(n)
InPreamble ==
  /\ fsm_cs = "SEND_PRE_NUM" /\ ram_rdNum = 0
  /\ pre_num_counter <= PRE /\ Writing(pre_num_counter)
InStartNum ==
  fsm_cs = "SEND_START_NUM" /\ ram_rdNum = 0 /\ send_data = 0 /\ Writing(PRE + 1)
InData(k, w) ==
  /\ fsm_cs = DataStates[k] /\ Writing(PRE + 1 + 4 * w + k)
  /\ ram_rdNum = IF k < 3 THEN w ELSE w + 1
  /\ k < 4 => send_data = w
  /\ k = 4 /\ w + 1 < WORDS => send_data = w + 1
InCrc(k) == fsm_cs = CrcStates[k] /\ Writing(PRE + 1 + 4 * WORDS + k)

(* d pairs of nibbles are read out.                                        *)
InOver(d) ==
  /\ fsm_cs = "SEND_OVER" /\ ~wren /\ rden /\ ~owed /\ Written(RAM_SIZE)
  /\ dly_counter = d /\ sendIrq_num = WORDS + 4 + RAM_SIZE + d
  /\ NUM_2 = 2 * d + 1
  /\ tx_en_2 <=> d > 0
  /\ d > 0 => Len(sent) = d /\ \A i \in 1 .. d : sent[i] = Frame[2 * i]
InOverDly ==
  /\ fsm_cs = "SEND_OVER_DLY" /\ Quiet /\ ~owed
  /\ sendIrq_num = WORDS + RAM_SIZE + DLY + 6

Phases ==
  \/ InIdle \/ InWait \/ InStart \/ InPreamble \/ InStartNum
  \/ \E k \in 1 .. 4, w \in 0 .. WORDS - 1 : InData(k, w)
  \/ \E k \in 1 .. 8 : InCrc(k)
  \/ \E d \in 0 .. DLY + 1 : InOver(d)
  \/ InOverDly

Timely == sendIrq => sendIrq_num = IRQ + 1
Inv == SendTestTypeOK /\ Timely /\ (AsCommented => Phases)

-----------------------------------------------------------------------------
(* The frame.                                                              *)

LEMMA ConcatAt ==
  ASSUME NEW S, NEW p \in Seq(S), NEW q \in Seq(S)
  PROVE  /\ p \o q \in Seq(S)
         /\ Len(p \o q) = Len(p) + Len(q)
         /\ \A i \in 1 .. Len(p) : (p \o q)[i] = p[i]
         /\ \A i \in 1 .. Len(q) : (p \o q)[Len(p) + i] = q[i]
<1>1. Len(p) \in Nat /\ Len(q) \in Nat
  BY LenProperties
<1>2. /\ p \o q \in Seq(S) /\ Len(p \o q) = Len(p) + Len(q)
      /\ \A i \in 1 .. Len(p) + Len(q) :
           (p \o q)[i] = IF i <= Len(p) THEN p[i] ELSE q[i - Len(p)]
  BY ConcatProperties
<1>3. ASSUME NEW i \in 1 .. Len(p) PROVE (p \o q)[i] = p[i]
  BY <1>1, <1>2
<1>4. ASSUME NEW i \in 1 .. Len(q) PROVE (p \o q)[Len(p) + i] = q[i]
  <2>1. Len(p) + i \in 1 .. Len(p) + Len(q) /\ ~(Len(p) + i <= Len(p))
    BY <1>1
  <2>2. (Len(p) + i) - Len(p) = i
    BY <1>1
  <2>. QED
    BY <1>2, <2>1, <2>2
<1>. QED
  BY <1>2, <1>3, <1>4

LEMMA FrameAt ==
  ASSUME FrameFits
  PROVE  /\ \A i \in 0 .. PRE : InFrame(i) = Preamble
         /\ InFrame(PRE + 1) = Start
         /\ \A w \in 0 .. WORDS - 1, k \in 1 .. 4 :
              InFrame(PRE + 1 + 4 * w + k) = DataNibble(w, NibbleOrder[k])
         /\ \A k \in 1 .. 8 : InFrame(PRE + 1 + 4 * WORDS + k) = <<-7, k>>
<1>. DEFINE p == [i \in 1 .. PRE + 1 |-> Preamble]
            s == <<Start>>
            d == [i \in 1 .. 4 * WORDS |->
                    DataNibble((i - 1) \div 4, NibbleOrder[((i - 1) % 4) + 1])]
            c == [k \in 1 .. 8 |-> <<-7, k>>]
<1>1. PRE \in Nat /\ WORDS \in Nat
  BY CountersAssumption, WordsAssumption
<1>2. /\ Len(p) = PRE + 1 /\ Len(s) = 1 /\ Len(d) = 4 * WORDS /\ Len(c) = 8
  BY <1>1
<1>3. /\ p \in Seq(Nibbles) /\ s \in Seq(Nibbles) /\ d \in Seq(Nibbles) /\ c \in Seq(Nibbles)
  <2>1. Preamble \in Nibbles /\ Start \in Nibbles
    BY DEF Preamble, Start, Nibbles
  <2>2. ASSUME NEW i \in 1 .. 4 * WORDS
        PROVE  DataNibble((i - 1) \div 4, NibbleOrder[((i - 1) % 4) + 1]) \in Nibbles
    <3>1. (i - 1) \div 4 \in Int /\ ((i - 1) % 4) + 1 \in 1 .. 4
      BY <1>1
    <3>2. \A k \in 1 .. 4 : NibbleOrder[k] \in 0 .. 8
      BY DEF NibbleOrder
    <3>. QED
      BY <3>1, <3>2 DEF DataNibble, Nibbles
  <2>3. \A k \in 1 .. 8 : <<-7, k>> \in Nibbles
    BY DEF Nibbles
  <2>. QED
    BY <1>1, <2>1, <2>2, <2>3
<1>4. Frame = ((p \o s) \o d) \o c
  BY DEF Frame
<1>5. \A i \in 1 .. PRE + 1 : p[i] = Preamble
  OBVIOUS
<1>6. s[1] = Start
  OBVIOUS
<1>7. \A w \in 0 .. WORDS - 1, k \in 1 .. 4 :
        4 * w + k \in 1 .. 4 * WORDS /\ d[4 * w + k] = DataNibble(w, NibbleOrder[k])
  <2>1. SUFFICES ASSUME NEW w \in 0 .. WORDS - 1, NEW k \in 1 .. 4
                 PROVE  4 * w + k \in 1 .. 4 * WORDS /\ d[4 * w + k] = DataNibble(w, NibbleOrder[k])
    OBVIOUS
  <2>2. /\ 4 * w + k \in 1 .. 4 * WORDS
        /\ (4 * w + k - 1) \div 4 = w /\ ((4 * w + k - 1) % 4) + 1 = k
    BY <1>1
  <2>. QED
    BY <2>2
<1>8. \A k \in 1 .. 8 : c[k] = <<-7, k>>
  OBVIOUS
<1>. HIDE DEF p, s, d, c
<1>. DEFINE ps == p \o s
            psd == ps \o d
<1>9. /\ ps \in Seq(Nibbles) /\ Len(ps) = PRE + 2
      /\ \A i \in 1 .. PRE + 1 : ps[i] = p[i]
      /\ ps[PRE + 2] = s[1]
  <2>1. /\ ps \in Seq(Nibbles) /\ Len(ps) = Len(p) + Len(s)
        /\ \A i \in 1 .. Len(p) : ps[i] = p[i]
        /\ \A i \in 1 .. Len(s) : ps[Len(p) + i] = s[i]
    BY <1>3, ConcatAt
  <2>2. 1 \in 1 .. Len(s) /\ Len(p) + 1 = PRE + 2 /\ Len(p) + Len(s) = PRE + 2
    BY <1>1, <1>2
  <2>3. ps[Len(p) + 1] = s[1]
    BY <2>1, <2>2
  <2>. HIDE DEF ps
  <2>. QED
    BY <1>2, <2>1, <2>2, <2>3
<1>. HIDE DEF ps
<1>10. /\ psd \in Seq(Nibbles) /\ Len(psd) = PRE + 2 + 4 * WORDS
       /\ \A i \in 1 .. PRE + 2 : psd[i] = ps[i]
       /\ \A i \in 1 .. 4 * WORDS : psd[PRE + 2 + i] = d[i]
  <2>1. /\ psd \in Seq(Nibbles) /\ Len(psd) = Len(ps) + Len(d)
        /\ \A i \in 1 .. Len(ps) : psd[i] = ps[i]
        /\ \A i \in 1 .. Len(d) : psd[Len(ps) + i] = d[i]
    <3>1. ps \in Seq(Nibbles) /\ d \in Seq(Nibbles)
      BY <1>3, <1>9
    <3>. QED
      BY <3>1, ConcatAt
  <2>. HIDE DEF psd
  <2>. QED
    BY <1>2, <1>9, <2>1
<1>. HIDE DEF psd
<1>11. /\ \A i \in 1 .. PRE + 2 + 4 * WORDS : Frame[i] = psd[i]
       /\ \A k \in 1 .. 8 : Frame[PRE + 2 + 4 * WORDS + k] = c[k]
  <2>1. Frame = psd \o c
    BY <1>4 DEF psd, ps
  <2>2. /\ \A i \in 1 .. Len(psd) : Frame[i] = psd[i]
        /\ \A i \in 1 .. Len(c) : Frame[Len(psd) + i] = c[i]
    BY <1>3, <1>10, <2>1, ConcatAt
  <2>. QED
    BY <1>2, <1>10, <2>2
<1>12. ASSUME NEW i \in 0 .. PRE PROVE InFrame(i) = Preamble
  <2>1. i + 1 \in 1 .. PRE + 1 /\ i + 1 \in 1 .. PRE + 2 /\ i + 1 \in 1 .. PRE + 2 + 4 * WORDS
    BY <1>1
  <2>2. Frame[i + 1] = psd[i + 1] /\ psd[i + 1] = ps[i + 1] /\ ps[i + 1] = p[i + 1]
    BY <1>9, <1>10, <1>11, <2>1
  <2>. QED
    BY <1>5, <2>1, <2>2 DEF InFrame
<1>13. InFrame(PRE + 1) = Start
  <2>1. /\ (PRE + 1) + 1 = PRE + 2 /\ PRE + 2 \in 1 .. PRE + 2
        /\ PRE + 2 \in 1 .. PRE + 2 + 4 * WORDS
    BY <1>1
  <2>2. Frame[PRE + 2] = psd[PRE + 2] /\ psd[PRE + 2] = ps[PRE + 2]
    BY <1>10, <1>11, <2>1
  <2>. QED
    BY <1>6, <1>9, <2>1, <2>2 DEF InFrame
<1>14. ASSUME NEW w \in 0 .. WORDS - 1, NEW k \in 1 .. 4
       PROVE  InFrame(PRE + 1 + 4 * w + k) = DataNibble(w, NibbleOrder[k])
  <2>1. /\ 4 * w + k \in 1 .. 4 * WORDS
        /\ PRE + 2 + (4 * w + k) \in 1 .. PRE + 2 + 4 * WORDS
        /\ (PRE + 1 + 4 * w + k) + 1 = PRE + 2 + (4 * w + k)
    BY <1>1
  <2>2. Frame[PRE + 2 + (4 * w + k)] = d[4 * w + k]
    BY <1>10, <1>11, <2>1
  <2>. QED
    BY <1>7, <2>1, <2>2 DEF InFrame
<1>15. ASSUME NEW k \in 1 .. 8
       PROVE  InFrame(PRE + 1 + 4 * WORDS + k) = <<-7, k>>
  <2>1. (PRE + 1 + 4 * WORDS + k) + 1 = PRE + 2 + 4 * WORDS + k
    BY <1>1
  <2>. QED
    BY <1>8, <1>11, <2>1 DEF InFrame
<1>. QED
  BY <1>12, <1>13, <1>14, <1>15

LEMMA FedNext ==
  ASSUME NEW m \in Nat
  PROVE  Append(FedUpTo(m), IF m = 0 THEN Filler ELSE m - 1) = FedUpTo(m + 1)
BY DEF FedUpTo

LEMMA FedAll ==
  /\ FedUpTo(0) = <<>>
  /\ FedUpTo(WORDS + 1) = <<Filler>> \o [i \in 1 .. WORDS |-> i - 1]
BY WordsAssumption DEF FedUpTo

-----------------------------------------------------------------------------
(* Clocks in the order of the comments: the blocks see where fsm_cs goes.  *)

LEMMA InOrder ==
  ASSUME AsCommented, Clk
  PROVE  /\ fsm_cs' = fsm_ns'
         /\ send_data' = IF fsm_cs' = "SEND_4DATA" /\ ram_rdNum >= WORDS THEN Zero
                         ELSE IF fsm_cs' \in {"SEND_START_NUM", "SEND_4DATA"}
                         THEN Word(ram_rdNum) ELSE send_data
         /\ o_send_data_3' = NibbleFor(fsm_cs')
         /\ wren' = (fsm_cs' \in Writes \/ (wren /\ fsm_cs' \notin {"IDLE", "SEND_OVER"}))
         /\ rden' = (fsm_cs' = "SEND_OVER" \/ (rden /\ fsm_cs' # "SEND_OVER_DLY"))
         /\ address' = IF fsm_cs' = "IDLE" THEN 255
                       ELSE IF fsm_cs' \in Writes THEN (address + 1) % 256
                       ELSE address
         /\ ifg_num' = IF fsm_cs' \in {"IDLE", "SEND_START", "SEND_OVER"} THEN 255
                       ELSE IF fsm_cs' = "WAIT_IFG" THEN (ifg_num + 1) % 256
                       ELSE ifg_num
         /\ ram_rdNum' =
              IF fsm_cs' \in {"IDLE", "WAIT_IFG", "SEND_START", "SEND_OVER_DLY"} THEN 0
              ELSE IF fsm_cs' = "SEND_3DATA" THEN (ram_rdNum + 1) % 1024
              ELSE ram_rdNum
<1>1. "fsm_cs" \in early /\ "send_data" \in early /\ "out" \in early
  BY DEF AsCommented
<1>2. /\ Seen("fsm_cs") = fsm_ns' /\ Seen("send_data") = fsm_ns' /\ Seen("out") = fsm_ns'
  BY <1>1 DEF Seen
<1>3. fsm_cs' = fsm_ns'
  BY <1>2 DEF Clk, Transition
<1>. QED
  BY <1>2, <1>3 DEF Clk, FrameWord, Outputs

LEMMA Moves ==
  ASSUME SendTestTypeOK, AsCommented, Clk
  PROVE  /\ fsm_cs = "IDLE" => fsm_cs' = IF sendIrq THEN "WAIT_IFG" ELSE "IDLE"
         /\ fsm_cs = "WAIT_IFG" =>
              fsm_cs' = IF ifg_num < WORDS + 2 THEN "WAIT_IFG" ELSE "SEND_START"
         /\ fsm_cs = "SEND_START" => fsm_cs' = "SEND_PRE_NUM"
         /\ fsm_cs = "SEND_PRE_NUM" =>
              fsm_cs' = IF pre_num_counter < PRE THEN "SEND_PRE_NUM" ELSE "SEND_START_NUM"
         /\ fsm_cs = "SEND_START_NUM" => fsm_cs' = DataStates[1]
         /\ \A k \in 1 .. 3 : fsm_cs = DataStates[k] => fsm_cs' = DataStates[k + 1]
         /\ fsm_cs = DataStates[4] =>
              fsm_cs' = IF ram_rdNum < WORDS THEN DataStates[1] ELSE CrcStates[1]
         /\ \A k \in 1 .. 7 : fsm_cs = CrcStates[k] => fsm_cs' = CrcStates[k + 1]
         /\ fsm_cs = CrcStates[8] => fsm_cs' = "SEND_OVER"
         /\ fsm_cs = "SEND_OVER" =>
              fsm_cs' = IF dly_counter <= DLY THEN "SEND_OVER" ELSE "SEND_OVER_DLY"
         /\ fsm_cs = "SEND_OVER_DLY" => fsm_cs' = "IDLE"
<1>1. fsm_cs' = IF Stays THEN fsm_cs
                ELSE IF fsm_cs = "SEND_4DATA" /\ ram_rdNum < WORDS
                THEN "SEND_1DATA" ELSE Following(fsm_cs)
  BY InOrder DEF Clk, Judgement
<1>2. /\ fsm_cs = "IDLE" => fsm_cs' = IF sendIrq THEN "WAIT_IFG" ELSE "IDLE"
      /\ fsm_cs = "WAIT_IFG" =>
           fsm_cs' = IF ifg_num < WORDS + 2 THEN "WAIT_IFG" ELSE "SEND_START"
      /\ fsm_cs = "SEND_START" => fsm_cs' = "SEND_PRE_NUM"
      /\ fsm_cs = "SEND_PRE_NUM" =>
           fsm_cs' = IF pre_num_counter < PRE THEN "SEND_PRE_NUM" ELSE "SEND_START_NUM"
      /\ fsm_cs = "SEND_OVER" =>
           fsm_cs' = IF dly_counter <= DLY THEN "SEND_OVER" ELSE "SEND_OVER_DLY"
      /\ fsm_cs = "SEND_OVER_DLY" => fsm_cs' = "IDLE"
  BY <1>1, Follows DEF Stays
<1>3. fsm_cs \in Range(DataStates) \union Range(CrcStates) \union {"SEND_START_NUM"} => ~Stays
  BY StateSets DEF Stays
<1>4. /\ fsm_cs = "SEND_START_NUM" => fsm_cs' = DataStates[1]
      /\ \A k \in 1 .. 3 : fsm_cs = DataStates[k] => fsm_cs' = DataStates[k + 1]
      /\ fsm_cs = DataStates[4] =>
           fsm_cs' = IF ram_rdNum < WORDS THEN DataStates[1] ELSE CrcStates[1]
  BY <1>1, <1>3, StateSets, Follows DEF DataStates, CrcStates
<1>5. /\ \A k \in 1 .. 7 : fsm_cs = CrcStates[k] => fsm_cs' = CrcStates[k + 1]
      /\ fsm_cs = CrcStates[8] => fsm_cs' = "SEND_OVER"
  BY <1>1, <1>3, StateSets, Follows DEF CrcStates
<1>. QED
  BY <1>2, <1>4, <1>5

(* While nothing is read, no read-out begins but in SEND_OVER.             *)
LEMMA StaysQuiet ==
  ASSUME AsCommented, Clk, ~rden, fsm_cs' # "SEND_OVER"
  PROVE  ~rden' /\ ~tx_en_2' /\ NUM_2' = 1
BY InOrder DEF Clk, ReadOut

(* The CRC stays as it was made.                                           *)
LEMMA CrcStays ==
  ASSUME Clk, ~sendIrq, CrcMade
  PROVE  CrcMade'
BY DEF Clk, CrcEnable, CrcTakes, CrcMade

(* Between the requests the count goes up.                                 *)
LEMMA CountsUp ==
  ASSUME Clk, sendIrq_num <= IRQ
  PROVE  sendIrq_num' = sendIrq_num + 1
BY DEF Clk, Request

LEMMA NextNibble ==
  ASSUME SendTestTypeOK, AsCommented, Clk, ~sendIrq, RequestsApart,
         NEW n \in Nat, Writing(n), n + 1 < RAM_SIZE,
         fsm_cs' \in Writes, NibbleFor(fsm_cs') = InFrame(n + 1)
  PROVE  Writing(n + 1)'
<1>1. /\ wren /\ ~rden /\ CrcMade /\ address = n /\ sendIrq_num = WORDS + 4 + n
      /\ o_send_data_3 = InFrame(n) /\ \A a \in 0 .. n - 1 : ram_data[a] = InFrame(a)
  BY DEF Writing, Written
<1>2. fsm_cs' \notin {"IDLE", "SEND_OVER"}
  BY StateSets DEF Writes
<1>3. ~rden' /\ ~tx_en_2' /\ NUM_2' = 1 /\ CrcMade'
  BY <1>1, <1>2, StaysQuiet, CrcStays
<1>4. sendIrq_num' = WORDS + 4 + (n + 1)
  <2>1. sendIrq_num <= IRQ
    BY <1>1, CountersAssumption, WordsAssumption, RamAssumption, IrqAssumption
    DEF RequestsApart
  <2>. QED
    BY <1>1, <2>1, CountsUp, WordsAssumption
<1>5. wren' /\ address' = n + 1 /\ o_send_data_3' = InFrame(n + 1)
  <2>1. wren' = TRUE /\ address' = (address + 1) % 256 /\ o_send_data_3' = InFrame(n + 1)
    BY <1>2, InOrder
  <2>2. (n + 1) % 256 = n + 1
    BY RamAssumption
  <2>. QED
    BY <1>1, <2>1, <2>2
<1>6. \A a \in 0 .. (n + 1) - 1 : ram_data'[a] = InFrame(a)
  <2>1. SUFFICES ASSUME NEW a \in 0 .. (n + 1) - 1 PROVE ram_data'[a] = InFrame(a)
    OBVIOUS
  <2>2. a \in 0 .. RAM_SIZE - 1 /\ (a = n \/ a \in 0 .. n - 1)
    BY RamAssumption
  <2>3. ram_data'[a] = IF a = n THEN o_send_data_3 ELSE ram_data[a]
    BY <1>1, <2>2 DEF Clk, RamWrite, SendTestTypeOK
  <2>. QED
    BY <1>1, <2>2, <2>3
<1>. QED
  BY <1>3, <1>4, <1>5, <1>6 DEF Writing, Written

-----------------------------------------------------------------------------
(* The phases follow each other.                                           *)

(* A request comes once in IRQ + 2 clocks, and no phase lasts that long.   *)
LEMMA NotAskedYet ==
  ASSUME Timely, sendIrq_num <= IRQ
  PROVE  ~sendIrq
BY IrqAssumption DEF Timely

LEMMA TimelyStays ==
  ASSUME SendTestTypeOK, Timely, Clk \/ Reset \/ UNCHANGED vars
  PROVE  Timely'
<1>1. sendIrq_num \in 0 .. IRQ + 1
  BY DEF SendTestTypeOK
<1>2. CASE Clk
  <2>1. /\ sendIrq' = (sendIrq_num = IRQ)
        /\ sendIrq_num' = IF sendIrq_num <= IRQ THEN sendIrq_num + 1 ELSE 0
    BY <1>2 DEF Clk, Request
  <2>2. sendIrq_num = IRQ => sendIrq_num' = IRQ + 1
    BY <2>1, IrqAssumption
  <2>. QED
    BY <2>1, <2>2 DEF Timely
<1>3. CASE Reset
  BY <1>3 DEF Timely, Reset
<1>. QED
  BY <1>2, <1>3 DEF Timely, vars

LEMMA FromIdle ==
  ASSUME SendTestTypeOK, Timely, AsCommented, Clk, InIdle
  PROVE  InIdle' \/ InWait'
<1>1. fsm_cs = "IDLE" /\ ~wren /\ ~rden /\ ~owed
  BY DEF InIdle, Quiet
<1>2. CASE ~sendIrq
  <2>1. fsm_cs' = "IDLE"
    BY <1>1, <1>2, Moves
  <2>2. ~rden' /\ ~tx_en_2' /\ NUM_2' = 1
    BY <1>1, <2>1, StaysQuiet
  <2>3. ~wren' /\ address' = 255 /\ ifg_num' = 255 /\ ram_rdNum' = 0
    BY <1>1, <2>1, InOrder, StateSets DEF Writes
  <2>4. ~owed'
    BY <1>1, <1>2 DEF Clk
  <2>. QED
    BY <2>1, <2>2, <2>3, <2>4 DEF InIdle, Quiet
<1>3. CASE sendIrq
  <2>1. fsm_cs' = "WAIT_IFG" /\ fsm_ns' = "WAIT_IFG"
    BY <1>1, <1>3, Moves, InOrder
  <2>2. ~rden' /\ ~tx_en_2' /\ NUM_2' = 1
    BY <1>1, <2>1, StaysQuiet
  <2>3. /\ sendIrq_num = IRQ + 1 /\ address = 255 /\ ifg_num = 255 /\ ram_rdNum = 0
    BY <1>3 DEF InIdle, Timely
  <2>4. ~wren' /\ address' = 255 /\ ram_rdNum' = 0
    BY <1>1, <2>1, <2>3, InOrder, StateSets DEF Writes
  <2>5. ifg_num' = 0
    <3>1. ifg_num' = (ifg_num + 1) % 256
      BY <2>1, InOrder
    <3>. QED
      BY <2>3, <3>1
  <2>6. sendIrq_num' = 0
    BY <2>3, IrqAssumption DEF Clk, Request
  <2>7. ram_wrEn' /\ fed' = FedUpTo(0) /\ CRC_data' = Filler
    <3>1. ram_wrEn' = TRUE /\ fed' = <<>>
      BY <1>3 DEF Clk, CrcEnable, CrcTakes
    <3>2. CRC_data' = Filler
      BY <2>3, WordsAssumption DEF Clk, CrcWord
    <3>. QED
      BY <3>1, <3>2, FedAll
  <2>8. InWait'
    BY <2>1, <2>2, <2>4, <2>5, <2>6, <2>7, WordsAssumption DEF InWait, Quiet
  <2>. QED
    BY <2>8
<1>. QED
  BY <1>2, <1>3

LEMMA FromWait ==
  ASSUME SendTestTypeOK, Timely, AsCommented, RequestsApart, Clk, InWait
  PROVE  InWait' \/ InStart'
<1>1. /\ fsm_cs = "WAIT_IFG" /\ fsm_ns = "WAIT_IFG" /\ ~wren /\ ~rden
      /\ ifg_num \in 0 .. WORDS + 2 /\ sendIrq_num = ifg_num
      /\ address = 255 /\ ram_rdNum = 0
  BY DEF InWait, Quiet
<1>2. /\ ram_wrEn <=> ifg_num <= WORDS
      /\ CRC_data = IF ifg_num \in 1 .. WORDS THEN ifg_num - 1 ELSE Filler
      /\ fed = FedUpTo(IF ifg_num <= WORDS THEN ifg_num ELSE WORDS + 1)
  BY DEF InWait
<1>3. sendIrq_num <= IRQ
  BY <1>1, WordsAssumption, RamAssumption, CountersAssumption, IrqAssumption
  DEF RequestsApart
<1>4. ~sendIrq /\ sendIrq_num' = sendIrq_num + 1
  BY <1>3, NotAskedYet, CountsUp
<1>5. CASE ifg_num < WORDS + 2
  <2>1. fsm_cs' = "WAIT_IFG" /\ fsm_ns' = "WAIT_IFG"
    BY <1>1, <1>5, Moves, InOrder
  <2>2. ~rden' /\ ~tx_en_2' /\ NUM_2' = 1
    BY <1>1, <2>1, StaysQuiet
  <2>3. ~wren' /\ address' = 255 /\ ram_rdNum' = 0
    BY <1>1, <2>1, InOrder, StateSets DEF Writes
  <2>4. ifg_num' = ifg_num + 1
    <3>1. ifg_num' = (ifg_num + 1) % 256
      BY <2>1, InOrder
    <3>. QED
      BY <1>1, <1>5, <3>1, WordsAssumption
  <2>5. ram_wrEn' <=> ifg_num' <= WORDS
    <3>1. ram_wrEn' = (ram_wrEn /\ ifg_num < WORDS)
      BY <1>4 DEF Clk, CrcEnable
    <3>2. ifg_num < WORDS <=> ifg_num' <= WORDS
      BY <1>1, <2>4, WordsAssumption
    <3>3. ifg_num < WORDS => ram_wrEn
      BY <1>1, <1>2, WordsAssumption
    <3>. QED
      BY <3>1, <3>2, <3>3
  <2>6. CRC_data' = IF ifg_num' \in 1 .. WORDS THEN ifg_num' - 1 ELSE Filler
    <3>1. CRC_data' = IF ifg_num < WORDS THEN Word(ifg_num) ELSE Filler
      BY <1>1, <2>1 DEF Clk, CrcWord, Seen
    <3>. QED
      BY <1>1, <2>4, <3>1, WordsAssumption DEF Word
  <2>7. fed' = FedUpTo(IF ifg_num' <= WORDS THEN ifg_num' ELSE WORDS + 1)
    <3>1. fed' = IF ram_wrEn THEN Append(fed, CRC_data) ELSE fed
      BY <1>4 DEF Clk, CrcTakes
    <3>2. CASE ifg_num <= WORDS
      <4>1. /\ fed = FedUpTo(ifg_num)
            /\ CRC_data = IF ifg_num = 0 THEN Filler ELSE ifg_num - 1
        BY <1>1, <1>2, <3>2, WordsAssumption
      <4>2. fed' = FedUpTo(ifg_num + 1)
        <5>1. ifg_num \in Nat
          BY <1>1, WordsAssumption
        <5>2. fed' = Append(FedUpTo(ifg_num), IF ifg_num = 0 THEN Filler ELSE ifg_num - 1)
          BY <1>2, <3>1, <3>2, <4>1
        <5>. QED
          BY <5>1, <5>2, FedNext
      <4>3. (IF ifg_num + 1 <= WORDS THEN ifg_num + 1 ELSE WORDS + 1) = ifg_num + 1
        BY <1>1, <3>2, WordsAssumption
      <4>. QED
        BY <2>4, <4>2, <4>3
    <3>3. CASE ~(ifg_num <= WORDS)
      <4>1. fed' = FedUpTo(WORDS + 1) /\ ~(ifg_num + 1 <= WORDS)
        BY <1>1, <1>2, <3>1, <3>3, WordsAssumption
      <4>. QED
        BY <2>4, <4>1
    <3>. QED
      BY <3>2, <3>3
  <2>8. ifg_num' \in 0 .. WORDS + 2 /\ sendIrq_num' = ifg_num'
    BY <1>1, <1>4, <1>5, <2>4, WordsAssumption
  <2>9. InWait'
    BY <2>1, <2>2, <2>3, <2>5, <2>6, <2>7, <2>8 DEF InWait, Quiet
  <2>. QED
    BY <2>9
<1>6. CASE ~(ifg_num < WORDS + 2)
  <2>1. fsm_cs' = "SEND_START" /\ ifg_num = WORDS + 2
    BY <1>1, <1>6, Moves, WordsAssumption
  <2>2. ~rden' /\ ~tx_en_2' /\ NUM_2' = 1
    BY <1>1, <2>1, StaysQuiet
  <2>3. ~wren' /\ address' = 255 /\ ram_rdNum' = 0
    BY <1>1, <2>1, InOrder, StateSets DEF Writes
  <2>4. CrcMade
    BY <1>2, <2>1, WordsAssumption DEF CrcMade
  <2>5. CrcMade'
    BY <1>4, <2>4, CrcStays
  <2>6. sendIrq_num' = WORDS + 3
    BY <1>1, <1>4, <2>1, WordsAssumption
  <2>7. InStart'
    BY <2>1, <2>2, <2>3, <2>5, <2>6 DEF InStart, Quiet
  <2>. QED
    BY <2>7
<1>. QED
  BY <1>5, <1>6

LEMMA FromStart ==
  ASSUME SendTestTypeOK, Timely, AsCommented, Fits, Clk, InStart
  PROVE  InPreamble'
<1>1. /\ fsm_cs = "SEND_START" /\ ~wren /\ ~rden /\ CrcMade
      /\ sendIrq_num = WORDS + 3 /\ address = 255 /\ ram_rdNum = 0
  BY DEF InStart, Quiet
<1>2. sendIrq_num <= IRQ
  BY <1>1, WordsAssumption, RamAssumption, CountersAssumption, IrqAssumption
  DEF Fits, RequestsApart
<1>3. ~sendIrq /\ sendIrq_num' = WORDS + 4 + 0
  BY <1>1, <1>2, NotAskedYet, CountsUp, WordsAssumption
<1>4. fsm_cs' = "SEND_PRE_NUM"
  BY <1>1, Moves
<1>5. ~rden' /\ ~tx_en_2' /\ NUM_2' = 1 /\ CrcMade'
  BY <1>1, <1>3, <1>4, StaysQuiet, CrcStays
<1>6. wren' = TRUE /\ address' = 0 /\ ram_rdNum' = 0
  <2>1. wren' = TRUE /\ address' = (address + 1) % 256 /\ ram_rdNum' = ram_rdNum
    BY <1>4, InOrder DEF Writes
  <2>. QED
    BY <1>1, <2>1
<1>7. o_send_data_3' = InFrame(0)
  <2>1. o_send_data_3' = Preamble
    BY <1>4, InOrder DEF NibbleFor
  <2>2. InFrame(0) = Preamble
    BY FrameAt, CountersAssumption DEF Fits
  <2>. QED
    BY <2>1, <2>2
<1>8. pre_num_counter' = 0
  BY <1>1 DEF Clk, Counters
<1>9. \A a \in 0 .. 0 - 1 : ram_data'[a] = InFrame(a)
  OBVIOUS
<1>10. Writing(0)'
  BY <1>3, <1>5, <1>6, <1>7, <1>9, RamAssumption DEF Writing, Written
<1>. QED
  BY <1>4, <1>6, <1>8, <1>10, CountersAssumption DEF InPreamble

(* A nibble is written long before the next request.                       *)
LEMMA WritingIsEarly ==
  ASSUME Timely, Fits, NEW n \in Nat, Writing(n)
  PROVE  ~sendIrq /\ sendIrq_num <= IRQ
<1>1. sendIrq_num <= IRQ
  BY WordsAssumption, RamAssumption, CountersAssumption, IrqAssumption
  DEF Fits, RequestsApart, Writing
<1>. QED
  BY <1>1, NotAskedYet

LEMMA FromPreamble ==
  ASSUME SendTestTypeOK, Timely, AsCommented, Fits, Clk, InPreamble
  PROVE  InPreamble' \/ InStartNum'
<1>1. PICK n \in 0 .. PRE : n = pre_num_counter
  BY CountersAssumption DEF InPreamble, SendTestTypeOK
<1>2. fsm_cs = "SEND_PRE_NUM" /\ ram_rdNum = 0 /\ Writing(n)
  BY <1>1 DEF InPreamble
<1>3. ~sendIrq /\ n \in Nat
  BY <1>2, WritingIsEarly, CountersAssumption
<1>4. CASE n < PRE
  <2>1. fsm_cs' = "SEND_PRE_NUM"
    BY <1>1, <1>2, <1>4, Moves
  <2>2. pre_num_counter' = n + 1
    <3>1. pre_num_counter' = (n + 1) % 16
      BY <1>1, <1>2 DEF Clk, Counters
    <3>. QED
      BY <1>4, <3>1, CountersAssumption
  <2>3. n + 1 \in 0 .. PRE /\ n + 1 < RAM_SIZE
    BY <1>4, CountersAssumption, WordsAssumption DEF Fits, FrameFits
  <2>4. NibbleFor(fsm_cs') = InFrame(n + 1)
    <3>1. NibbleFor(fsm_cs') = Preamble
      BY <2>1 DEF NibbleFor
    <3>. QED
      BY <2>3, <3>1, FrameAt DEF Fits
  <2>5. fsm_cs' \in Writes /\ ram_rdNum' = 0
    BY <1>2, <2>1, InOrder DEF Writes
  <2>6. Writing(n + 1)'
    BY <1>2, <1>3, <2>3, <2>4, <2>5, NextNibble DEF Fits
  <2>7. pre_num_counter' <= PRE /\ Writing(pre_num_counter)'
    <3>1. n + 1 <= PRE
      BY <2>3, CountersAssumption
    <3>. QED
      BY <2>2, <2>6, <3>1 DEF Writing, Written
  <2>. QED
    BY <2>1, <2>5, <2>7 DEF InPreamble
<1>5. CASE ~(n < PRE)
  <2>1. n = PRE
    BY <1>5, CountersAssumption
  <2>2. fsm_cs' = "SEND_START_NUM"
    BY <1>1, <1>2, <1>5, Moves
  <2>3. PRE \in Nat /\ PRE + 1 < RAM_SIZE
    BY CountersAssumption, WordsAssumption DEF Fits, FrameFits
  <2>4. NibbleFor(fsm_cs') = InFrame(PRE + 1)
    <3>1. NibbleFor(fsm_cs') = Start
      BY <2>2 DEF NibbleFor
    <3>. QED
      BY <3>1, FrameAt DEF Fits
  <2>5. fsm_cs' \in Writes /\ ram_rdNum' = 0
    BY <1>2, <2>2, InOrder DEF Writes
  <2>6. send_data' = 0
    BY <1>2, <2>2, InOrder, WordsAssumption DEF Word
  <2>7. Writing(PRE + 1)'
    BY <1>2, <1>3, <2>1, <2>3, <2>4, <2>5, NextNibble DEF Fits
  <2>. QED
    BY <2>2, <2>5, <2>6, <2>7 DEF InStartNum
<1>. QED
  BY <1>4, <1>5

LEMMA FromStartNum ==
  ASSUME SendTestTypeOK, Timely, AsCommented, Fits, Clk, InStartNum
  PROVE  InData(1, 0)'
<1>1. /\ fsm_cs = "SEND_START_NUM" /\ ram_rdNum = 0 /\ send_data = 0 /\ Writing(PRE + 1)
  BY DEF InStartNum
<1>2. /\ PRE + 1 \in Nat /\ PRE + 1 + 4 * 0 + 1 = (PRE + 1) + 1
      /\ (PRE + 1) + 1 < RAM_SIZE /\ 0 \in 0 .. WORDS - 1
  BY CountersAssumption, WordsAssumption DEF Fits, FrameFits
<1>3. ~sendIrq
  BY <1>1, <1>2, WritingIsEarly
<1>4. fsm_cs' = DataStates[1] /\ fsm_cs' = "SEND_1DATA"
  BY <1>1, Moves DEF DataStates
<1>5. NibbleFor(fsm_cs') = InFrame((PRE + 1) + 1)
  <2>1. NibbleFor(fsm_cs') = DataNibble(0, NibbleOrder[1])
    <3>1. NibbleFor(DataStates[1]) = DataNibble(send_data, NibbleOrder[1])
      BY NibbleOf
    <3>. QED
      BY <1>1, <1>4, <3>1
  <2>2. InFrame(PRE + 1 + 4 * 0 + 1) = DataNibble(0, NibbleOrder[1])
    BY <1>2, FrameAt DEF Fits
  <2>. QED
    BY <1>2, <2>1, <2>2
<1>6. fsm_cs' \in Writes
  BY <1>4, StateSets DEF Writes
<1>7. ram_rdNum' = 0 /\ send_data' = 0
  BY <1>1, <1>4, InOrder
<1>8. Writing((PRE + 1) + 1)'
  BY <1>1, <1>2, <1>3, <1>5, <1>6, NextNibble DEF Fits
<1>9. Writing(PRE + 1 + 4 * 0 + 1)'
  BY <1>2, <1>8
<1>. QED
  BY <1>4, <1>7, <1>9 DEF InData

LEMMA FromData ==
  ASSUME SendTestTypeOK, Timely, AsCommented, Fits, Clk,
         NEW k \in 1 .. 4, NEW w \in 0 .. WORDS - 1, InData(k, w)
  PROVE  \/ k < 4 /\ InData(k + 1, w)'
         \/ k = 4 /\ w + 1 \in 0 .. WORDS - 1 /\ InData(1, w + 1)'
         \/ InCrc(1)'
<1>. DEFINE n == PRE + 1 + 4 * w + k
<1>1. /\ fsm_cs = DataStates[k] /\ Writing(n)
      /\ ram_rdNum = IF k < 3 THEN w ELSE w + 1
      /\ k < 4 => send_data = w
      /\ k = 4 /\ w + 1 < WORDS => send_data = w + 1
  BY DEF InData
<1>2. n \in Nat /\ n + 1 < RAM_SIZE /\ w \in Nat /\ w < 253
  BY CountersAssumption, WordsAssumption DEF Fits, FrameFits
<1>3. ~sendIrq
  BY <1>1, <1>2, WritingIsEarly
<1>4. CASE k < 4
  <2>1. k \in 1 .. 3 /\ k + 1 \in 1 .. 4 /\ n + 1 = PRE + 1 + 4 * w + (k + 1)
    BY <1>4, CountersAssumption
  <2>2. fsm_cs' = DataStates[k + 1]
    BY <1>1, <2>1, Moves
  <2>3. fsm_cs' \in Writes
    BY <2>1, <2>2, StateSets DEF DataStates, Writes
  <2>4. NibbleFor(fsm_cs') = InFrame(n + 1)
    <3>1. NibbleFor(fsm_cs') = DataNibble(w, NibbleOrder[k + 1])
      BY <1>1, <1>4, <2>1, <2>2, NibbleOf
    <3>2. InFrame(PRE + 1 + 4 * w + (k + 1)) = DataNibble(w, NibbleOrder[k + 1])
      BY <2>1, FrameAt DEF Fits
    <3>. QED
      BY <2>1, <3>1, <3>2
  <2>5. Writing(n + 1)'
    BY <1>1, <1>2, <1>3, <2>3, <2>4, NextNibble DEF Fits
  <2>6. Writing(PRE + 1 + 4 * w + (k + 1))'
    BY <2>1, <2>5
  <2>7. CASE k = 1
    <3>1. fsm_cs' = "SEND_2DATA"
      BY <2>2, <2>7 DEF DataStates
    <3>2. ram_rdNum' = w /\ send_data' = w
      BY <1>1, <2>7, <3>1, InOrder
    <3>. QED
      BY <1>4, <2>2, <2>6, <2>7, <3>2 DEF InData
  <2>8. CASE k = 2
    <3>1. fsm_cs' = "SEND_3DATA"
      BY <2>2, <2>8 DEF DataStates
    <3>2. send_data' = w /\ ram_rdNum' = (w + 1) % 1024
      BY <1>1, <2>8, <3>1, InOrder
    <3>3. ram_rdNum' = w + 1
      BY <1>2, <3>2
    <3>. QED
      BY <1>4, <2>2, <2>6, <2>8, <3>2, <3>3 DEF InData
  <2>9. CASE k = 3
    <3>1. fsm_cs' = "SEND_4DATA"
      BY <2>2, <2>9 DEF DataStates
    <3>2. ram_rdNum = w + 1 /\ ram_rdNum' = w + 1
      BY <1>1, <2>9, <3>1, InOrder
    <3>3. w + 1 < WORDS => send_data' = w + 1
      <4>1. SUFFICES ASSUME w + 1 < WORDS PROVE send_data' = w + 1
        OBVIOUS
      <4>2. ~(ram_rdNum >= WORDS)
        BY <1>2, <3>2, <4>1, WordsAssumption
      <4>. QED
        BY <3>1, <3>2, <4>1, <4>2, InOrder DEF Word
    <3>. QED
      BY <1>4, <2>2, <2>6, <2>9, <3>2, <3>3 DEF InData
  <2>. QED
    BY <2>1, <2>7, <2>8, <2>9
<1>5. CASE k = 4 /\ w + 1 < WORDS
  <2>1. /\ w + 1 \in 0 .. WORDS - 1 /\ ram_rdNum = w + 1 /\ send_data = w + 1
        /\ ram_rdNum < WORDS
    BY <1>1, <1>5, WordsAssumption
  <2>2. fsm_cs' = DataStates[1] /\ fsm_cs' = "SEND_1DATA"
    BY <1>1, <1>5, <2>1, Moves DEF DataStates
  <2>3. fsm_cs' \in Writes
    BY <2>2, StateSets DEF Writes
  <2>4. n + 1 = PRE + 1 + 4 * (w + 1) + 1
    BY <1>5, CountersAssumption
  <2>5. NibbleFor(fsm_cs') = InFrame(n + 1)
    <3>1. NibbleFor(fsm_cs') = DataNibble(w + 1, NibbleOrder[1])
      <4>1. NibbleFor(DataStates[1]) = DataNibble(send_data, NibbleOrder[1])
        BY NibbleOf
      <4>. QED
        BY <2>1, <2>2, <4>1
    <3>2. InFrame(PRE + 1 + 4 * (w + 1) + 1) = DataNibble(w + 1, NibbleOrder[1])
      BY <2>1, FrameAt DEF Fits
    <3>. QED
      BY <2>4, <3>1, <3>2
  <2>6. Writing(n + 1)'
    BY <1>1, <1>2, <1>3, <2>3, <2>5, NextNibble DEF Fits
  <2>7. Writing(PRE + 1 + 4 * (w + 1) + 1)'
    BY <2>4, <2>6
  <2>8. ram_rdNum' = w + 1 /\ send_data' = w + 1
    BY <2>1, <2>2, InOrder
  <2>. QED
    BY <1>5, <2>1, <2>2, <2>7, <2>8 DEF InData
<1>6. CASE k = 4 /\ ~(w + 1 < WORDS)
  <2>1. w + 1 = WORDS /\ ~(ram_rdNum < WORDS)
    BY <1>1, <1>6, WordsAssumption
  <2>2. fsm_cs' = CrcStates[1]
    BY <1>1, <1>6, <2>1, Moves
  <2>3. fsm_cs' \in Writes
    BY <2>2, StateSets DEF Writes, CrcStates
  <2>4. n + 1 = PRE + 1 + 4 * WORDS + 1
    BY <1>6, <2>1, CountersAssumption
  <2>5. NibbleFor(fsm_cs') = InFrame(n + 1)
    <3>1. NibbleFor(fsm_cs') = <<-7, 1>>
      <4>1. NibbleFor(CrcStates[1]) = CrcNibble(fed, 1)
        BY NibbleOf
      <4>2. fed = <<Filler>> \o [i \in 1 .. WORDS |-> i - 1]
        BY <1>1, FedAll DEF Writing, CrcMade
      <4>. QED
        BY <2>2, <4>1, <4>2 DEF CrcNibble
    <3>2. InFrame(PRE + 1 + 4 * WORDS + 1) = <<-7, 1>>
      BY FrameAt DEF Fits
    <3>. QED
      BY <2>4, <3>1, <3>2
  <2>6. Writing(n + 1)'
    BY <1>1, <1>2, <1>3, <2>3, <2>5, NextNibble DEF Fits
  <2>7. Writing(PRE + 1 + 4 * WORDS + 1)'
    BY <2>4, <2>6
  <2>. QED
    BY <2>2, <2>7 DEF InCrc
<1>. QED
  BY <1>4, <1>5, <1>6

LEMMA FromCrc ==
  ASSUME SendTestTypeOK, Timely, AsCommented, Fits, Clk, NEW k \in 1 .. 8, InCrc(k)
  PROVE  \/ k < 8 /\ InCrc(k + 1)'
         \/ InOver(0)'
<1>. DEFINE n == PRE + 1 + 4 * WORDS + k
<1>1. fsm_cs = CrcStates[k] /\ Writing(n)
  BY DEF InCrc
<1>2. n \in Nat /\ RAM_SIZE = PRE + 4 * WORDS + 10
  BY CountersAssumption, WordsAssumption DEF Fits, FrameFits
<1>3. ~sendIrq /\ sendIrq_num <= IRQ
  BY <1>1, <1>2, WritingIsEarly
<1>4. /\ wren /\ ~rden /\ ~tx_en_2 /\ NUM_2 = 1 /\ CrcMade /\ address = n
      /\ sendIrq_num = WORDS + 4 + n /\ o_send_data_3 = InFrame(n)
      /\ \A a \in 0 .. n - 1 : ram_data[a] = InFrame(a)
  BY <1>1 DEF Writing, Written
<1>5. CASE k < 8
  <2>1. k \in 1 .. 7 /\ k + 1 \in 1 .. 8 /\ n + 1 = PRE + 1 + 4 * WORDS + (k + 1)
        /\ n + 1 < RAM_SIZE
    BY <1>2, <1>5, CountersAssumption, WordsAssumption
  <2>2. fsm_cs' = CrcStates[k + 1]
    BY <1>1, <2>1, Moves
  <2>3. fsm_cs' \in Writes
    BY <2>1, <2>2, StateSets DEF CrcStates, Writes
  <2>4. NibbleFor(fsm_cs') = InFrame(n + 1)
    <3>1. NibbleFor(CrcStates[k + 1]) = CrcNibble(fed, k + 1)
      BY <2>1, NibbleOf
    <3>2. CrcNibble(fed, k + 1) = <<-7, k + 1>>
      BY <1>4, FedAll DEF CrcNibble, CrcMade
    <3>3. InFrame(PRE + 1 + 4 * WORDS + (k + 1)) = <<-7, k + 1>>
      BY <2>1, FrameAt DEF Fits
    <3>. QED
      BY <2>1, <2>2, <3>1, <3>2, <3>3
  <2>5. Writing(n + 1)'
    BY <1>1, <1>2, <1>3, <2>1, <2>3, <2>4, NextNibble DEF Fits
  <2>6. Writing(PRE + 1 + 4 * WORDS + (k + 1))'
    BY <2>1, <2>5
  <2>. QED
    BY <1>5, <2>2, <2>6 DEF InCrc
<1>6. CASE k = 8
  <2>1. n = RAM_SIZE - 1
    BY <1>2, <1>6, CountersAssumption, WordsAssumption
  <2>2. fsm_cs' = "SEND_OVER"
    BY <1>1, <1>6, Moves
  <2>3. wren' = FALSE /\ rden' = TRUE
    BY <2>2, InOrder, StateSets DEF Writes
  <2>4. owed' = FALSE
    BY <1>4, <2>3 DEF Clk
  <2>5. \A a \in 0 .. RAM_SIZE - 1 : ram_data'[a] = InFrame(a)
    <3>1. SUFFICES ASSUME NEW a \in 0 .. RAM_SIZE - 1 PROVE ram_data'[a] = InFrame(a)
      OBVIOUS
    <3>2. a = n \/ a \in 0 .. n - 1
      BY <1>2, <2>1
    <3>3. ram_data'[a] = IF a = n THEN o_send_data_3 ELSE ram_data[a]
      BY <1>4 DEF Clk, RamWrite, SendTestTypeOK
    <3>. QED
      BY <1>4, <3>2, <3>3
  <2>6. dly_counter' = 0
    BY <1>1, <1>6 DEF Clk, Counters, CrcStates
  <2>7. sendIrq_num' = WORDS + 4 + RAM_SIZE + 0
    <3>1. sendIrq_num' = sendIrq_num + 1
      BY <1>3, CountsUp
    <3>. QED
      BY <1>4, <2>1, <3>1, WordsAssumption, RamAssumption
  <2>8. tx_en_2' = FALSE /\ NUM_2' = 2 * 0 + 1
    <3>1. tx_en_2' = FALSE /\ NUM_2' = 1
      BY <1>4 DEF Clk, ReadOut
    <3>. QED
      BY <3>1
  <2>. QED
    BY <2>2, <2>3, <2>4, <2>5, <2>6, <2>7, <2>8 DEF InOver, Written
<1>. QED
  BY <1>5, <1>6

LEMMA FromOver ==
  ASSUME SendTestTypeOK, Timely, AsCommented, Fits, Clk,
         NEW d \in 0 .. DLY + 1, InOver(d)
  PROVE  IF d <= DLY THEN InOver(d + 1)' ELSE InOverDly'
<1>1. /\ fsm_cs = "SEND_OVER" /\ ~wren /\ rden /\ ~owed
      /\ \A a \in 0 .. RAM_SIZE - 1 : ram_data[a] = InFrame(a)
      /\ dly_counter = d /\ sendIrq_num = WORDS + 4 + RAM_SIZE + d
      /\ NUM_2 = 2 * d + 1
  BY DEF InOver, Written
<1>2. /\ tx_en_2 <=> d > 0
      /\ d > 0 => Len(sent) = d /\ \A i \in 1 .. d : sent[i] = Frame[2 * i]
  BY DEF InOver
<1>3. /\ DLY \in 0 .. 254 /\ RAM_SIZE \in 1 .. 255 /\ d \in Nat
      /\ RAM_SIZE = 2 * (DLY + 1) \/ RAM_SIZE = 2 * (DLY + 1) + 1
  BY CountersAssumption, RamAssumption DEF Fits, ReadOutFits
<1>4. sendIrq_num <= IRQ
  BY <1>1, <1>3, IrqAssumption, WordsAssumption DEF Fits, RequestsApart
<1>5. ~sendIrq /\ sendIrq_num' = sendIrq_num + 1
  BY <1>4, NotAskedYet, CountsUp
<1>6. CASE d <= DLY
  <2>1. fsm_cs' = "SEND_OVER"
    BY <1>1, <1>6, Moves
  <2>2. wren' = FALSE /\ rden' = TRUE
    BY <2>1, InOrder, StateSets DEF Writes
  <2>3. owed' = FALSE
    BY <1>1, <1>5 DEF Clk
  <2>4. \A a \in 0 .. RAM_SIZE - 1 : ram_data'[a] = InFrame(a)
    BY <1>1 DEF Clk, RamWrite, SendTestTypeOK
  <2>5. dly_counter' = d + 1
    <3>1. dly_counter' = (d + 1) % 256
      BY <1>1 DEF Clk, Counters
    <3>. QED
      BY <1>3, <1>6, <3>1
  <2>6. sendIrq_num' = WORDS + 4 + RAM_SIZE + (d + 1)
    BY <1>1, <1>3, <1>5, WordsAssumption
  <2>7. /\ NUM_2 < RAM_SIZE /\ NUM_2 \in 0 .. RAM_SIZE - 1
        /\ (NUM_2 + 2) % 256 = 2 * (d + 1) + 1
    BY <1>1, <1>3, <1>6
  <2>8. tx_en_2' = TRUE /\ NUM_2' = 2 * (d + 1) + 1
    BY <1>1, <2>7 DEF Clk, ReadOut
  <2>9. ram_data[NUM_2] = Frame[2 * (d + 1)]
    <3>1. NUM_2 + 1 = 2 * (d + 1)
      BY <1>1, <1>3
    <3>. QED
      BY <1>1, <2>7, <3>1 DEF InFrame
  <2>10. Len(sent') = d + 1 /\ \A i \in 1 .. d + 1 : sent'[i] = Frame[2 * i]
    <3>1. PICK s \in Seq(Nibbles) : s = IF tx_en_2 THEN sent ELSE <<>>
      <4>1. sent \in Seq(Nibbles) /\ <<>> \in Seq(Nibbles)
        BY DEF SendTestTypeOK
      <4>. QED
        BY <4>1
    <3>2. Len(s) = d /\ \A i \in 1 .. d : s[i] = Frame[2 * i]
      <4>1. CASE d > 0
        BY <1>2, <3>1, <4>1
      <4>2. CASE d = 0
        BY <1>2, <3>1, <4>2
      <4>. QED
        BY <1>3, <4>1, <4>2
    <3>3. sent' = Append(s, Frame[2 * (d + 1)])
      BY <1>1, <2>7, <2>9, <3>1 DEF Clk, ReadOut
    <3>. QED
      BY <1>3, <3>2, <3>3
  <2>11. d + 1 > 0
    BY <1>3
  <2>. QED
    BY <1>6, <2>1, <2>2, <2>3, <2>4, <2>5, <2>6, <2>8, <2>10, <2>11 DEF InOver, Written
<1>7. CASE ~(d <= DLY)
  <2>1. d = DLY + 1 /\ ~(NUM_2 < RAM_SIZE)
    BY <1>1, <1>3, <1>7
  <2>2. fsm_cs' = "SEND_OVER_DLY"
    BY <1>1, <1>7, Moves
  <2>3. wren' = FALSE /\ rden' = FALSE
    BY <1>1, <2>2, InOrder, StateSets DEF Writes
  <2>4. owed' = FALSE
    BY <1>1, <1>5 DEF Clk
  <2>5. tx_en_2' = FALSE /\ NUM_2' = 1
    BY <2>1 DEF Clk, ReadOut
  <2>6. sendIrq_num' = WORDS + RAM_SIZE + DLY + 6
    BY <1>1, <1>3, <1>5, <2>1, WordsAssumption
  <2>. QED
    BY <1>7, <2>2, <2>3, <2>4, <2>5, <2>6 DEF InOverDly, Quiet
<1>. QED
  BY <1>6, <1>7

LEMMA FromOverDly ==
  ASSUME SendTestTypeOK, Timely, AsCommented, Fits, Clk, InOverDly
  PROVE  InIdle'
<1>1. /\ fsm_cs = "SEND_OVER_DLY" /\ ~wren /\ ~rden /\ ~owed
      /\ sendIrq_num = WORDS + RAM_SIZE + DLY + 6
  BY DEF InOverDly, Quiet
<1>2. ~sendIrq
  BY <1>1, NotAskedYet DEF Fits, RequestsApart
<1>3. fsm_cs' = "IDLE"
  BY <1>1, Moves
<1>4. ~rden' /\ ~tx_en_2' /\ NUM_2' = 1
  BY <1>1, <1>3, StaysQuiet
<1>5. ~wren' /\ address' = 255 /\ ifg_num' = 255 /\ ram_rdNum' = 0
  BY <1>1, <1>3, InOrder, StateSets DEF Writes
<1>6. ~owed'
  BY <1>1, <1>2 DEF Clk
<1>. QED
  BY <1>3, <1>4, <1>5, <1>6 DEF InIdle, Quiet

-----------------------------------------------------------------------------
(* The invariant.                                                          *)

LEMMA InvStart == Init => Inv
<1>. SUFFICES ASSUME Init PROVE Inv
  OBVIOUS
<1>1. SendTestTypeOK
  BY TypeStart
<1>2. Timely /\ InIdle
  BY DEF Init, Timely, InIdle, Quiet
<1>. QED
  BY <1>1, <1>2 DEF Inv, Phases

LEMMA InvStep ==
  ASSUME Fits, Inv, [Next]_vars
  PROVE  Inv'
<1>. SendTestTypeOK /\ Timely /\ (AsCommented => Phases)
  BY DEF Inv
<1>1. SendTestTypeOK'
  <2>1. UNCHANGED vars => SendTestTypeOK'
    BY DEF SendTestTypeOK, vars
  <2>. QED
    BY <2>1, ClkTypes, ResetTypes DEF Next
<1>2. Timely'
  BY TimelyStays DEF Next
<1>3. AsCommented' => AsCommented
  BY DEF Next, Clk, Reset, vars, AsCommented
<1>4. ASSUME AsCommented, Clk PROVE Phases'
  <2>1. CASE InIdle
    <3>1. InIdle' \/ InWait'
      BY <1>4, <2>1, FromIdle
    <3>. QED
      BY <3>1 DEF Phases
  <2>2. CASE InWait
    <3>1. InWait' \/ InStart'
      BY <1>4, <2>2, FromWait DEF Fits
    <3>. QED
      BY <3>1 DEF Phases
  <2>3. CASE InStart
    <3>1. InPreamble'
      BY <1>4, <2>3, FromStart
    <3>. QED
      BY <3>1 DEF Phases
  <2>4. CASE InPreamble
    <3>1. InPreamble' \/ InStartNum'
      BY <1>4, <2>4, FromPreamble
    <3>. QED
      BY <3>1 DEF Phases
  <2>5. CASE InStartNum
    <3>1. InData(1, 0)' /\ 0 \in 0 .. WORDS - 1 /\ 1 \in 1 .. 4
      BY <1>4, <2>5, FromStartNum, WordsAssumption
    <3>. QED
      BY <3>1 DEF Phases
  <2>6. ASSUME NEW k \in 1 .. 4, NEW w \in 0 .. WORDS - 1, InData(k, w) PROVE Phases'
    <3>1. CASE k < 4 /\ InData(k + 1, w)'
      <4>1. k + 1 \in 1 .. 4
        BY <3>1
      <4>. QED
        BY <3>1, <4>1 DEF Phases
    <3>2. CASE w + 1 \in 0 .. WORDS - 1 /\ InData(1, w + 1)'
      BY <3>2 DEF Phases
    <3>3. CASE InCrc(1)'
      BY <3>3 DEF Phases
    <3>. QED
      BY <1>4, <2>6, <3>1, <3>2, <3>3, FromData
  <2>7. ASSUME NEW k \in 1 .. 8, InCrc(k) PROVE Phases'
    <3>1. CASE k < 8 /\ InCrc(k + 1)'
      <4>1. k + 1 \in 1 .. 8
        BY <3>1
      <4>. QED
        BY <3>1, <4>1 DEF Phases
    <3>2. CASE InOver(0)'
      <4>1. 0 \in 0 .. DLY + 1
        BY CountersAssumption
      <4>. QED
        BY <3>2, <4>1 DEF Phases
    <3>. QED
      BY <1>4, <2>7, <3>1, <3>2, FromCrc
  <2>8. ASSUME NEW d \in 0 .. DLY + 1, InOver(d) PROVE Phases'
    <3>1. CASE d <= DLY
      <4>1. InOver(d + 1)' /\ d + 1 \in 0 .. DLY + 1
        BY <1>4, <2>8, <3>1, FromOver, CountersAssumption
      <4>. QED
        BY <4>1 DEF Phases
    <3>2. CASE ~(d <= DLY)
      <4>1. InOverDly'
        BY <1>4, <2>8, <3>2, FromOver
      <4>. QED
        BY <4>1 DEF Phases
    <3>. QED
      BY <3>1, <3>2
  <2>9. CASE InOverDly
    <3>1. InIdle'
      BY <1>4, <2>9, FromOverDly
    <3>. QED
      BY <3>1 DEF Phases
  <2>. QED
    BY <1>4, <2>1, <2>2, <2>3, <2>4, <2>5, <2>6, <2>7, <2>8, <2>9 DEF Phases
<1>5. CASE Reset
  <2>1. InIdle'
    BY <1>5 DEF Reset, InIdle, Quiet
  <2>. QED
    BY <1>1, <1>2, <2>1 DEF Inv, Phases
<1>6. CASE UNCHANGED vars
  BY <1>6 DEF Inv, SendTestTypeOK, Timely, AsCommented, Phases, InIdle, InWait, InStart,
              InPreamble, InStartNum, InData, InCrc, InOver, InOverDly, Quiet, CrcMade,
              Writing, Written, vars
<1>. QED
  BY <1>1, <1>2, <1>3, <1>4, <1>5, <1>6 DEF Next, Inv

LEMMA Invariant ==
  ASSUME Fits
  PROVE  Spec => []Inv
<1>1. Inv /\ [Next]_vars => Inv'
  BY InvStep
<1>. QED
  BY <1>1, InvStart, PTL DEF Spec

-----------------------------------------------------------------------------
(* What it shows.                                                          *)

(* A read-out is a phase of its own.                                       *)
LEMMA ReadOutIsOver ==
  ASSUME Inv, AsCommented, rden \/ tx_en_2
  PROVE  \E d \in 0 .. DLY + 1 : InOver(d)
<1>1. SUFFICES ASSUME Phases, ~\E d \in 0 .. DLY + 1 : InOver(d) PROVE ~rden /\ ~tx_en_2
  BY DEF Inv
<1>. QED
  BY <1>1 DEF Phases, InIdle, InWait, InStart, InPreamble, InStartNum, InData, InCrc,
              InOverDly, Quiet, Writing

(* In the order of the comments, whenever the RAM is read it is not        *)
(* written and holds the whole frame: preamble, start, the words with      *)
(* their nibbles in order and the CRC of just these words, also after a    *)
(* reset in the middle of the frame before.                                *)
THEOREM FrameIsRead ==
  ASSUME Fits
  PROVE  Spec => []RamHoldsFrame
<1>1. Inv => RamHoldsFrame
  <2>1. SUFFICES ASSUME Inv, AsCommented, rden
                 PROVE  ~wren /\ \A a \in 0 .. RAM_SIZE - 1 : ram_data[a] = Frame[a + 1]
    BY DEF RamHoldsFrame
  <2>2. PICK d \in 0 .. DLY + 1 : InOver(d)
    BY <2>1, ReadOutIsOver
  <2>. QED
    BY <2>2 DEF InOver, Written, InFrame
<1>. QED
  BY <1>1, Invariant, PTL

(* A read-out that no reset cuts short ends with the odd half of the frame *)
(* sent: each of its nibbles once and in order.                            *)
THEOREM OddHalfGoesOut ==
  ASSUME Fits
  PROVE  Spec => OddHalfSent
<1>1. Inv /\ [Next]_vars =>
        (AsCommented /\ tx_en_2 /\ ~tx_en_2' /\ resets' = resets =>
           /\ Len(sent) = RAM_SIZE \div 2
           /\ \A i \in 1 .. Len(sent) : sent[i] = Frame[2 * i])
  <2>1. SUFFICES ASSUME Inv, [Next]_vars, AsCommented, tx_en_2, ~tx_en_2', resets' = resets
                 PROVE  /\ Len(sent) = RAM_SIZE \div 2
                        /\ \A i \in 1 .. Len(sent) : sent[i] = Frame[2 * i]
    OBVIOUS
  <2>2. SendTestTypeOK /\ Timely
    BY <2>1 DEF Inv
  <2>3. Clk
    <3>1. ~(UNCHANGED vars)
      BY <2>1 DEF vars
    <3>2. resets \in Nat
      BY <2>2, ResetAssumption DEF SendTestTypeOK
    <3>3. ~Reset
      BY <2>1, <3>2 DEF Reset
    <3>. QED
      BY <2>1, <3>1, <3>3 DEF Next
  <2>4. PICK d \in 0 .. DLY + 1 : InOver(d)
    BY <2>1, ReadOutIsOver
  <2>5. /\ d > 0 /\ Len(sent) = d
        /\ \A i \in 1 .. d : sent[i] = Frame[2 * i]
    BY <2>1, <2>4 DEF InOver
  <2>6. ~(d <= DLY)
    <3>1. SUFFICES ASSUME d <= DLY PROVE FALSE
      OBVIOUS
    <3>2. InOver(d + 1)'
      BY <2>1, <2>2, <2>3, <2>4, <3>1, FromOver
    <3>3. d + 1 > 0
      BY CountersAssumption
    <3>. QED
      BY <2>1, <3>2, <3>3 DEF InOver
  <2>7. d = RAM_SIZE \div 2
    BY <2>6, CountersAssumption DEF Fits, ReadOutFits
  <2>. QED
    BY <2>5, <2>7
<1>. QED
  BY <1>1, Invariant, PTL DEF Spec, OddHalfSent

(* With registers the machine runs as two that take turns.  The one that   *)
(* is at rest on the odd counts hears no request, which come on even ones. *)
TwinStates == {"IDLE", "WAIT_IFG", "SEND_START", "SEND_PRE_NUM"}
Twins ==
  "fsm_cs" \notin early /\ resets = 0 =>
    /\ ~rden
    /\ IF sendIrq_num % 2 = 1
       THEN fsm_ns = "IDLE" /\ fsm_cs \in TwinStates /\ pre_num_counter = 0
       ELSE fsm_cs = "IDLE" /\ fsm_ns \in TwinStates
TwinInv == SendTestTypeOK /\ Timely /\ Twins

LEMMA TwinClk ==
  ASSUME Alternates, TwinInv, Clk
  PROVE  Twins'
<1>1. SUFFICES ASSUME "fsm_cs" \notin early', resets' = 0 PROVE
        /\ ~rden'
        /\ IF sendIrq_num' % 2 = 1
           THEN fsm_ns' = "IDLE" /\ fsm_cs' \in TwinStates /\ pre_num_counter' = 0
           ELSE fsm_cs' = "IDLE" /\ fsm_ns' \in TwinStates
  BY DEF Twins
<1>2. /\ ~rden
      /\ sendIrq_num % 2 = 1 =>
           fsm_ns = "IDLE" /\ fsm_cs \in TwinStates /\ pre_num_counter = 0
      /\ sendIrq_num % 2 # 1 => fsm_cs = "IDLE" /\ fsm_ns \in TwinStates
  <2>1. "fsm_cs" \notin early /\ resets = 0
    BY <1>1 DEF Clk
  <2>. QED
    BY <2>1 DEF TwinInv, Twins
<1>3. fsm_cs' = fsm_ns
  BY <1>1 DEF Clk, Transition, Seen
<1>4. sendIrq_num \in 0 .. IRQ + 1 /\ IRQ % 2 = 0
  BY DEF TwinInv, SendTestTypeOK, Alternates
<1>5. (sendIrq_num' % 2 = 1) <=> (sendIrq_num % 2 # 1)
  <2>1. sendIrq_num' = IF sendIrq_num <= IRQ THEN sendIrq_num + 1 ELSE 0
    BY DEF Clk, Request
  <2>2. CASE sendIrq_num <= IRQ
    BY <1>4, <2>1, <2>2
  <2>3. CASE ~(sendIrq_num <= IRQ)
    <3>1. sendIrq_num = IRQ + 1 /\ sendIrq_num' = 0
      BY <1>4, <2>1, <2>3, IrqAssumption
    <3>. QED
      BY <1>4, <3>1, IrqAssumption
  <2>. QED
    BY <2>2, <2>3
<1>6. ~rden' /\ fsm_ns' \in TwinStates
  <2>1. fsm_ns' \in TwinStates
    <3>1. fsm_cs \in TwinStates /\ (fsm_cs = "SEND_PRE_NUM" => pre_num_counter < PRE)
      <4>1. CASE sendIrq_num % 2 = 1
        BY <1>2, <4>1, CountersAssumption DEF Alternates
      <4>2. CASE sendIrq_num % 2 # 1
        BY <1>2, <4>2 DEF TwinStates
      <4>. QED
        BY <4>1, <4>2
    <3>. QED
      BY <3>1, Follows DEF Clk, Judgement, Stays, TwinStates
  <2>2. fsm_ns \in TwinStates
    BY <1>2 DEF TwinStates
  <2>3. Seen("out") # "SEND_OVER"
    BY <2>1, <2>2 DEF Seen, TwinStates
  <2>4. rden' = (Seen("out") = "SEND_OVER" \/ (rden /\ Seen("out") # "SEND_OVER_DLY"))
    BY DEF Clk, Outputs
  <2>. QED
    BY <1>2, <2>1, <2>3, <2>4
<1>7. CASE sendIrq_num % 2 = 1
  <2>1. fsm_cs' = "IDLE"
    BY <1>2, <1>3, <1>7
  <2>. QED
    BY <1>5, <1>6, <1>7, <2>1
<1>8. CASE sendIrq_num % 2 # 1
  <2>1. fsm_cs = "IDLE" /\ fsm_cs' \in TwinStates
    BY <1>2, <1>3, <1>8
  <2>2. ~sendIrq
    <3>1. sendIrq_num # IRQ + 1
      BY <1>4, <1>8, IrqAssumption
    <3>. QED
      BY <3>1 DEF TwinInv, Timely
  <2>3. fsm_ns' = "IDLE" /\ pre_num_counter' = 0
    BY <2>1, <2>2 DEF Clk, Judgement, Stays, Counters
  <2>. QED
    BY <1>5, <1>6, <1>8, <2>1, <2>3
<1>. QED
  BY <1>7, <1>8

LEMMA TwinsInvariant ==
  ASSUME Alternates
  PROVE  Spec => []TwinInv
<1>1. Init => TwinInv
  <2>1. SUFFICES ASSUME Init PROVE Timely /\ Twins
    BY TypeStart DEF TwinInv
  <2>2. /\ ~sendIrq /\ ~rden /\ sendIrq_num % 2 # 1
        /\ fsm_cs = "IDLE" /\ fsm_ns = "IDLE"
    BY <2>1 DEF Init
  <2>. QED
    BY <2>2 DEF Timely, Twins, TwinStates
<1>2. TwinInv /\ [Next]_vars => TwinInv'
  <2>1. SUFFICES ASSUME TwinInv, [Next]_vars PROVE TwinInv'
    OBVIOUS
  <2>2. CASE Clk
    BY <2>1, <2>2, ClkTypes, TimelyStays, TwinClk DEF TwinInv
  <2>3. CASE Reset
    <3>1. resets' # 0
      BY <2>1, <2>3, ResetAssumption DEF Reset, TwinInv, SendTestTypeOK
    <3>2. Twins'
      BY <3>1 DEF Twins
    <3>. QED
      BY <2>1, <2>3, <3>2, ResetTypes, TimelyStays DEF TwinInv
  <2>4. CASE UNCHANGED vars
    BY <2>1, <2>4 DEF TwinInv, SendTestTypeOK, Timely, Twins, vars
  <2>. QED
    BY <2>1, <2>2, <2>3, <2>4 DEF Next
<1>. QED
  BY <1>1, <1>2, PTL DEF Spec

(* In the order of the comments a request is answered before the next one  *)
(* comes; with registers, and unless a reset brings the two machines it is *)
(* into step, no request ever is.                                          *)
THEOREM RequestsAreAnswered ==
  ASSUME Fits, Alternates
  PROVE  Spec => []AnsweredAsCommented
<1>1. Inv /\ TwinInv => AnsweredAsCommented
  <2>1. SUFFICES ASSUME Inv, TwinInv PROVE AnsweredAsCommented
    OBVIOUS
  <2>2. ASSUME AsCommented, sendIrq PROVE ~owed
    <3>1. Phases /\ sendIrq_num = IRQ + 1
      BY <2>1, <2>2 DEF Inv, Timely
    <3>2. \A n \in Nat : ~Writing(n)
      BY <2>1, <2>2, WritingIsEarly DEF Inv
    <3>3. /\ \A n \in 0 .. PRE : ~Writing(n)
          /\ ~Writing(PRE + 1)
          /\ \A k \in 1 .. 4, w \in 0 .. WORDS - 1 : ~InData(k, w)
          /\ \A k \in 1 .. 8 : ~InCrc(k)
      <4>1. PRE \in Nat /\ WORDS \in Nat
        BY CountersAssumption, WordsAssumption
      <4>2. /\ PRE + 1 \in Nat
            /\ \A k \in 1 .. 4, w \in 0 .. WORDS - 1 : PRE + 1 + 4 * w + k \in Nat
            /\ \A k \in 1 .. 8 : PRE + 1 + 4 * WORDS + k \in Nat
        BY <4>1
      <4>. QED
        BY <3>2, <4>1, <4>2 DEF InData, InCrc
    <3>4. ~InPreamble /\ ~InStartNum
      <4>1. pre_num_counter \in Nat
        BY <2>1 DEF Inv, SendTestTypeOK
      <4>. QED
        BY <3>2, <3>3, <4>1 DEF InPreamble, InStartNum
    <3>5. ~InWait /\ ~InStart
      BY <3>1, IrqAssumption, WordsAssumption, RamAssumption, CountersAssumption
      DEF InWait, InStart, Fits, RequestsApart
    <3>. QED
      BY <3>1, <3>3, <3>4, <3>5 DEF Phases, InIdle, InOver, InOverDly
  <2>3. "fsm_cs" \notin early /\ resets = 0 => ~rden
    BY <2>1 DEF TwinInv, Twins
  <2>. QED
    BY <2>2, <2>3 DEF AnsweredAsCommented
<1>. QED
  BY <1>1, Invariant, TwinsInvariant, PTL
=============================================================================
