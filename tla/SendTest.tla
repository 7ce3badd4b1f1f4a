------------------------------- MODULE SendTest -------------------------------
(***************************************************************************)
(* The test transmitter of the FPGA (Verilog_code/send_test.v): on every   *)
(* request it feeds the words of a frame to the CRC generator, writes the  *)
(* frame nibble by nibble into a RAM, and reads it out again.              *)
(*                                                                         *)
(* Every always block is a conjunct of Clk.  They use nonblocking          *)
(* assignments but for one: the "combinational" block that computes fsm_ns *)
(* is clocked and assigns it at once, so the blocks that read it see the   *)
(* new value if they are evaluated after it and the old value if before.   *)
(* The language leaves the order open: early is the set of the readers     *)
(* that come after.  All of them together are the machine the comments     *)
(* describe, none of them is what registers make of it.                    *)
(***************************************************************************)
EXTENDS Integers, Sequences, Functions

CONSTANTS
  WORDS,        \* words of the frame: 30
  PRE,          \* nibbles of preamble, less one: 14
  DLY,          \* clocks of read-out, less one: 71
  RAM_SIZE,     \* nibbles of RAM that are read: 144
  IRQ,          \* clocks between requests, less two: 125000
  ResetMax      \* bound of the model on the resets

ASSUME WordsAssumption == WORDS \in 1 .. 253
ASSUME RamAssumption == RAM_SIZE \in 1 .. 255
ASSUME CountersAssumption == PRE \in 0 .. 15 /\ DLY \in 0 .. 254
ASSUME IrqAssumption == IRQ \in Nat
ASSUME ResetAssumption == ResetMax \in Nat

VARIABLES
  early,
  sendIrq_num, sendIrq,
  fsm_cs, fsm_ns,
  dly_counter, pre_num_counter, ifg_num, ram_rdNum,   \* 8, 4, 8, 10 bits
  send_data, CRC_data, ram_wrEn,
  o_send_data_3, wren, rden,
  address,                 \* 8 bits
  ram_data,
  tx_en_2, NUM_2,          \* the half of the read-out clocked with the rest
  o_sendDn, o_sendIdl,
  fed,                     \* external: the words the CRC is made of
  \* History, read by no guard:
  sent,                    \* what send_data_2 carried since tx_en_2 rose
  owed,                    \* a request was seen and no read-out began since
  resets

vars == <<early, sendIrq_num, sendIrq, fsm_cs, fsm_ns, dly_counter,
          pre_num_counter, ifg_num, ram_rdNum, send_data, CRC_data, ram_wrEn,
          o_send_data_3, wren, rden, address, ram_data, tx_en_2, NUM_2,
          o_sendDn, o_sendIdl, fed, sent, owed, resets>>

Readers == {"fsm_cs", "CRC_data", "send_data", "out"}
Seen(reader) == IF reader \in early THEN fsm_ns' ELSE fsm_ns

(* Words stand for themselves by their index; the others are               *)
Zero == -1        \* 16'h0,
Filler == -2      \* 16'hffff, and
Unknown == -3     \* a word beyond the table.
Word(i) == IF i < WORDS THEN i ELSE Unknown

(* A nibble is a source and the place it has in it.                        *)
Preamble == <<-4, 0>>
Start == <<-5, 0>>
Blank == <<-6, 0>>
DataNibble(w, k) == <<w, k>>
CrcNibble(words, k) ==
  <<IF words = <<Filler>> \o [i \in 1 .. WORDS |-> i - 1] THEN -7 ELSE -8, k>>

DataStates == <<"SEND_1DATA", "SEND_2DATA", "SEND_3DATA", "SEND_4DATA">>
NibbleOrder == <<2, 3, 0, 1>>   \* [11:8], [15:12], [3:0], [7:4]
CrcStates ==
  <<"SEND_1CRC", "SEND_2CRC", "SEND_3CRC", "SEND_4CRC",
    "SEND_5CRC", "SEND_6CRC", "SEND_7CRC", "SEND_8CRC">>
Path ==
  <<"IDLE", "WAIT_IFG", "SEND_START", "SEND_PRE_NUM", "SEND_START_NUM">>
    \o DataStates \o CrcStates \o <<"SEND_OVER", "SEND_OVER_DLY", "IDLE">>
States == Range(Path)
Writes == Range(DataStates) \union Range(CrcStates)
            \union {"SEND_PRE_NUM", "SEND_START_NUM"}

Following(state) ==
  Path[1 + CHOOSE i \in 1 .. Len(Path) - 1 : Path[i] = state]

-----------------------------------------------------------------------------
(* The blocks.                                                             *)

Init ==
  /\ early \in SUBSET Readers
  /\ sendIrq_num = 0 /\ sendIrq = FALSE
  /\ fsm_cs = "IDLE" /\ fsm_ns = "IDLE"
  /\ dly_counter = 0 /\ pre_num_counter = 0 /\ ifg_num = 0 /\ ram_rdNum = 0
  /\ send_data = Zero /\ CRC_data = Filler /\ ram_wrEn = FALSE
  /\ o_send_data_3 = Blank /\ wren = FALSE /\ rden = FALSE
  /\ address = 0
  /\ ram_data = [a \in 0 .. RAM_SIZE - 1 |-> Blank]
  /\ tx_en_2 = FALSE /\ NUM_2 = 1
  /\ o_sendDn = FALSE /\ o_sendIdl = TRUE
  /\ fed = <<>>
  /\ sent = <<>> /\ owed = FALSE /\ resets = 0

Request ==
  /\ sendIrq_num' = IF sendIrq_num <= IRQ THEN sendIrq_num + 1 ELSE 0
  /\ sendIrq' = (sendIrq_num = IRQ)

(* Mutant: the preamble never ends.                                        *)
Stays_InPreamble ==
  \/ fsm_cs = "IDLE" /\ ~sendIrq
  \/ fsm_cs = "WAIT_IFG" /\ ifg_num < WORDS + 2
  \/ fsm_cs = "SEND_PRE_NUM" /\ pre_num_counter < 16
  \/ fsm_cs = "SEND_OVER" /\ dly_counter <= DLY

(* Whether the machine stays where it is.                                  *)
Stays ==
  \/ fsm_cs = "IDLE" /\ ~sendIrq
  \/ fsm_cs = "WAIT_IFG" /\ ifg_num < WORDS + 2
  \/ fsm_cs = "SEND_PRE_NUM" /\ pre_num_counter < PRE
  \/ fsm_cs = "SEND_OVER" /\ dly_counter <= DLY

Judgement ==
  fsm_ns' = IF Stays THEN fsm_cs
            ELSE IF fsm_cs = "SEND_4DATA" /\ ram_rdNum < WORDS
            THEN "SEND_1DATA"
            ELSE Following(fsm_cs)

Transition == fsm_cs' = Seen("fsm_cs")

(* Mutant: the count of the read-out is not cleared after it.              *)
Counters_NoClear ==
  /\ dly_counter' =
       IF fsm_cs = "SEND_OVER" THEN (dly_counter + 1) % 256 ELSE dly_counter
  /\ pre_num_counter' =
       IF fsm_cs = "SEND_PRE_NUM" THEN (pre_num_counter + 1) % 16 ELSE 0

Counters ==
  /\ dly_counter' = IF fsm_cs = "SEND_OVER" THEN (dly_counter + 1) % 256 ELSE 0
  /\ pre_num_counter' =
       IF fsm_cs = "SEND_PRE_NUM" THEN (pre_num_counter + 1) % 16 ELSE 0

CrcWord ==
  CRC_data' = IF Seen("CRC_data") = "WAIT_IFG" /\ ifg_num < WORDS
              THEN Word(ifg_num) ELSE Filler

CrcEnable == ram_wrEn' = (sendIrq \/ (ram_wrEn /\ ifg_num < WORDS))

(* ethmac_add_crc: cleared by a request, takes a word when it is enabled.  *)
CrcTakes ==
  fed' = IF sendIrq THEN <<>>
         ELSE IF ram_wrEn THEN Append(fed, CRC_data) ELSE fed

(* Mutant: the next word is taken one clock before its index.              *)
FrameWord_TooSoon ==
  LET s == Seen("send_data")
  IN send_data' = IF s \in {"SEND_START_NUM", "SEND_3DATA"}
                  THEN Word(ram_rdNum) ELSE send_data

FrameWord ==
  LET s == Seen("send_data")
  IN send_data' = IF s = "SEND_4DATA" /\ ram_rdNum >= WORDS THEN Zero
                  ELSE IF s \in {"SEND_START_NUM", "SEND_4DATA"}
                  THEN Word(ram_rdNum)
                  ELSE send_data

NibbleFor(s) ==
  IF s = "SEND_PRE_NUM" THEN Preamble
  ELSE IF s = "SEND_START_NUM" THEN Start
  ELSE IF s \in Range(DataStates)
  THEN DataNibble(send_data, NibbleOrder[CHOOSE i \in 1 .. 4 : DataStates[i] = s])
  ELSE IF s \in Range(CrcStates)
  THEN CrcNibble(fed, CHOOSE i \in 1 .. 8 : CrcStates[i] = s)
  ELSE IF s = "SEND_OVER" THEN Blank
  ELSE o_send_data_3

Outputs ==
  LET s == Seen("out")
  IN /\ o_send_data_3' = NibbleFor(s)
     /\ wren' = (s \in Writes \/ (wren /\ s \notin {"IDLE", "SEND_OVER"}))
     /\ rden' = (s = "SEND_OVER" \/ (rden /\ s # "SEND_OVER_DLY"))
     /\ address' = IF s = "IDLE" THEN 255
                   ELSE IF s \in Writes THEN (address + 1) % 256
                   ELSE address
     /\ ifg_num' = IF s \in {"IDLE", "SEND_START", "SEND_OVER"} THEN 255
                   ELSE IF s = "WAIT_IFG" THEN (ifg_num + 1) % 256
                   ELSE ifg_num
     /\ ram_rdNum' =
          IF s \in {"IDLE", "WAIT_IFG", "SEND_START", "SEND_OVER_DLY"} THEN 0
          ELSE IF s = "SEND_3DATA" THEN (ram_rdNum + 1) % 1024
          ELSE ram_rdNum
     /\ o_sendDn' = IF s \in {"IDLE", "WAIT_IFG"} THEN FALSE
                    ELSE s = "SEND_OVER" \/ o_sendDn
     /\ o_sendIdl' = IF s \in {"IDLE", "SEND_OVER"} THEN TRUE
                     ELSE IF s = "SEND_START" \/ s \in Writes \ {"SEND_PRE_NUM"}
                     THEN FALSE
                     ELSE o_sendIdl

RamWrite ==
  ram_data' = [a \in DOMAIN ram_data |->
                 IF wren /\ a = address THEN o_send_data_3 ELSE ram_data[a]]

(* Mutant: the read-out goes on at the address where it ended.             *)
ReadOut_NoRestart ==
  LET reads == rden /\ NUM_2 < RAM_SIZE
  IN /\ tx_en_2' = reads
     /\ NUM_2' = IF rden THEN NUM_2 + 2 ELSE NUM_2
     /\ sent' = IF reads
                THEN Append(IF tx_en_2 THEN sent ELSE <<>>, ram_data[NUM_2])
                ELSE sent

(* The odd nibbles go out on this clock, the even ones on another.         *)
ReadOut ==
  LET reads == rden /\ NUM_2 < RAM_SIZE
  IN /\ tx_en_2' = reads
     /\ NUM_2' = IF reads THEN (NUM_2 + 2) % 256 ELSE 1
     /\ sent' = IF reads
                THEN Append(IF tx_en_2 THEN sent ELSE <<>>, ram_data[NUM_2])
                ELSE sent

Clk ==
  /\ Request /\ Judgement /\ Transition /\ Counters
  /\ CrcWord /\ CrcEnable /\ CrcTakes /\ FrameWord
  /\ Outputs /\ RamWrite /\ ReadOut
  /\ owed' = ((owed \/ sendIrq) /\ (rden \/ ~rden'))
  /\ UNCHANGED <<early, resets>>

(* The reset.  fsm_ns has none, but is judged when the reset falls, and    *)
(* again, from IDLE, if a clock comes while it is low.  sendIrq_num,       *)
(* ram_rdNum and address stay as they are.                                 *)
Reset ==
  /\ resets < ResetMax
  /\ resets' = resets + 1
  /\ Judgement \/ fsm_ns' = "IDLE"
  /\ fsm_cs' = "IDLE"
  /\ sendIrq' = FALSE
  /\ dly_counter' = 0 /\ pre_num_counter' = 0 /\ ifg_num' = 0
  /\ send_data' = Zero /\ CRC_data' = Filler /\ ram_wrEn' = FALSE
  /\ o_send_data_3' = Blank /\ wren' = FALSE /\ rden' = FALSE
  /\ tx_en_2' = FALSE /\ NUM_2' = 1
  /\ o_sendDn' = FALSE /\ o_sendIdl' = TRUE
  /\ fed' = <<>>
  /\ owed' = FALSE
  /\ UNCHANGED <<early, sendIrq_num, ram_rdNum, address, ram_data, sent>>

Next == Clk \/ Reset

Spec == Init /\ [][Next]_vars

-----------------------------------------------------------------------------
(* Properties.                                                             *)

Nibbles == Int \X (0 .. 8)

SendTestTypeOK ==
  /\ early \subseteq Readers
  /\ sendIrq_num \in 0 .. IRQ + 1
  /\ {sendIrq, ram_wrEn, wren, rden, tx_en_2, o_sendDn, o_sendIdl, owed}
       \subseteq BOOLEAN
  /\ {fsm_cs, fsm_ns} \subseteq States
  /\ {dly_counter, ifg_num, address, NUM_2} \subseteq 0 .. 255
  /\ pre_num_counter \in 0 .. 15
  /\ ram_rdNum \in 0 .. 1023
  /\ {send_data, CRC_data} \subseteq -3 .. WORDS - 1
  /\ o_send_data_3 \in Nibbles
  /\ ram_data \in [0 .. RAM_SIZE - 1 -> Nibbles]
  /\ fed \in Seq(-3 .. WORDS - 1)
  /\ sent \in Seq(Nibbles)
  /\ resets \in 0 .. ResetMax

(* The evaluation order the comments have in mind; when CRC_data is        *)
(* evaluated makes no difference.                                          *)
AsCommented == {"fsm_cs", "send_data", "out"} \subseteq early

(* The frame as it should stand in the RAM, the CRC made of a filler and   *)
(* then of its very words.                                                 *)
Frame ==
  [i \in 1 .. PRE + 1 |-> Preamble] \o <<Start>>
    \o [i \in 1 .. 4 * WORDS |->
          DataNibble((i - 1) \div 4, NibbleOrder[((i - 1) % 4) + 1])]
    \o [k \in 1 .. 8 |-> <<-7, k>>]

(* While the RAM is read it is not written, and holds one whole frame,     *)
(* also after a reset in the middle of the last one.                       *)
RamHoldsFrame ==
  AsCommented /\ rden =>
    /\ ~wren
    /\ \A a \in 0 .. RAM_SIZE - 1 : ram_data[a] = Frame[a + 1]

(* A read-out that no reset cuts short has sent each odd nibble of the     *)
(* frame once and in order when it ends.                                   *)
OddHalfSent ==
  [][AsCommented /\ tx_en_2 /\ ~tx_en_2' /\ resets' = resets =>
       /\ Len(sent) = RAM_SIZE \div 2
       /\ \A i \in 1 .. Len(sent) : sent[i] = Frame[2 * i]]_vars

(* In the order of the comments a request is answered before the next one  *)
(* comes.  With registers, where fsm_cs takes the old fsm_ns, it never is: *)
(* the machine runs as two that take turns, and the one that is idle keeps *)
(* putting back the count the other waits for.  Only a reset that catches  *)
(* both in step lets a frame, with its nibbles doubled, out.               *)
AnsweredAsCommented ==
  /\ AsCommented => ~(sendIrq /\ owed)
  /\ "fsm_cs" \notin early /\ resets = 0 => ~rden
=============================================================================
