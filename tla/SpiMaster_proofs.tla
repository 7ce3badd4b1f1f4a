--------------------------- MODULE SpiMaster_proofs ---------------------------
(***************************************************************************)
(* Proofs about SpiMaster for every table and every timing within          *)
(* ClockAssumption.  The invariant names the five phases a frame goes      *)
(* through and says, for each, where every counter is: the counters are    *)
(* kept by different blocks, and none of them asks another for its phase.  *)
(***************************************************************************)
EXTENDS SpiMaster, Integers, TLAPS

(* No frame is under way.                                                  *)
Idle ==
  /\ CS_N = 1 /\ cs_hi_cnt \in 0..CS_HI
  /\ send_over => cs_hi_cnt = 0
  /\ ~start /\ sck_start_cnt = 0
  /\ ~send_start /\ sck_cnt = 0 /\ bit_cnt = 0 /\ byte_cnt = 0
  /\ ~byte_interval /\ interval_cnt = 0

(* The slave is selected; no bit is due yet.                               *)
Waiting ==
  /\ CS_N = 0 /\ cs_hi_cnt \in {0, CS_HI + 1}
  /\ ~send_over
  /\ ~start /\ sck_start_cnt \in 0..SCK_START_DLY
  /\ ~send_start /\ sck_cnt = 0 /\ bit_cnt = 0 /\ byte_cnt = 0
  /\ ~byte_interval /\ interval_cnt = 0

(* A byte goes out.  Just after its beginning two counters that started it *)
(* are one too far.                                                        *)
Shifting ==
  /\ CS_N = 0 /\ cs_hi_cnt \in {0, CS_HI + 1}
  /\ ~send_over
  /\ start /\ sck_start_cnt \in {0, SCK_START_DLY + 1}
  /\ send_start /\ sck_cnt \in 0..SCK_PERIOD /\ bit_cnt \in 0..7
  /\ byte_cnt \in 0..BYTE_SEND_NUM - 1
  /\ ~byte_interval /\ interval_cnt \in {0, BYTE_INTERVAL + 1}
  /\ sck_cnt = 0 => bit_cnt = 0
  /\ sck_cnt # 0 => sck_start_cnt = 0 /\ interval_cnt = 0

(* A byte is out.                                                          *)
Between ==
  /\ CS_N = 0 /\ cs_hi_cnt \in {0, CS_HI + 1}
  /\ ~send_over
  /\ start /\ sck_start_cnt = 0
  /\ ~send_start /\ sck_cnt \in 0..1 /\ bit_cnt = 8
  /\ byte_cnt \in 1..BYTE_SEND_NUM
  /\ interval_cnt \in 0..BYTE_INTERVAL
  /\ ~byte_interval => interval_cnt = 0

(* All bytes are out, and the slave is about to be deselected.             *)
Over ==
  /\ CS_N = 0 /\ cs_hi_cnt \in {0, CS_HI + 1}
  /\ send_over
  /\ start /\ sck_start_cnt = 0
  /\ ~send_start /\ sck_cnt = 0 /\ bit_cnt = 0 /\ byte_cnt = BYTE_SEND_NUM
  /\ ~byte_interval /\ interval_cnt = BYTE_INTERVAL + 1

Phase == Idle \/ Waiting \/ Shifting \/ Between \/ Over

(* SCK is low in the first part of a bit and high everywhere else.         *)
ClockLevel == SCK = IF sck_cnt \in 1..SCK_LO /\ send_start THEN 0 ELSE 1

(* The byte the table gives is loaded before the first of its bits is due, *)
(* and while a bit is clocked it is on the wire.                           *)
DataOnWire ==
  /\ \/ Waiting /\ sck_start_cnt > 0
     \/ Shifting
     \/ Between /\ byte_interval /\ byte_cnt < BYTE_SEND_NUM
     => txd_data = Table[byte_cnt + 1]
  /\ Shifting /\ sck_cnt > 0 => MOSI = Bit(txd_data, 7 - bit_cnt)

(* The slave has the bits whose rising edge has passed.                    *)
BitsSent ==
  8 * byte_cnt + IF send_start
                 THEN bit_cnt + IF sck_cnt > SCK_LO THEN 1 ELSE 0
                 ELSE 0
SlaveHas ==
  /\ got \in Seq(0..1)
  /\ Len(got) = IF CS_N = 0 THEN BitsSent ELSE 0
  /\ \A i \in 1..Len(got) : got[i] = FrameBits[i]

Registers ==
  /\ CS_N \in 0..1 /\ SCK \in 0..1 /\ MOSI \in 0..1
  /\ start \in BOOLEAN /\ send_start \in BOOLEAN
  /\ send_over \in BOOLEAN /\ byte_interval \in BOOLEAN
  /\ txd_data \in 0..255
  /\ last \in {"none", "complete", "broken off"}

IInv == Registers /\ Phase /\ ClockLevel /\ DataOnWire /\ SlaveHas

-----------------------------------------------------------------------------
(* Constants and arithmetic.                                               *)

LEMMA Timing ==
  /\ CS_HI \in 1..1022 /\ SCK_START_DLY \in 1..1022
  /\ SCK_LO \in 1..13 /\ SCK_PERIOD \in 2..14 /\ SCK_LO < SCK_PERIOD
  /\ BYTE_INTERVAL \in 1..254
BY ClockAssumption

LEMMA FrameSize ==
  /\ BYTE_SEND_NUM \in 1..255
  /\ Len(Table) \in Nat /\ BYTE_SEND_NUM <= Len(Table)
BY TableAssumption

LEMMA TableBytes ==
  ASSUME NEW b \in Nat, b < Len(Table)
  PROVE  Table[b + 1] \in 0..255
<1>. DEFINE n == b + 1
            Bytes == 0..255
<1>1. n \in 1..Len(Table)
  BY FrameSize
<1>2. Table \in Seq(Bytes)
  BY TableAssumption
<1>. HIDE DEF n, Bytes
<1>3. Table[n] \in Bytes
  BY <1>1, <1>2
<1>. QED
  BY <1>3 DEF n, Bytes

LEMMA NextIsNext ==
  ASSUME NEW n \in Nat \ {0}, NEW k \in Nat, k + 1 < n
  PROVE  (k + 1) % n = k + 1
OBVIOUS

LEMMA PowerType ==
  ASSUME NEW i \in 0..7
  PROVE  2^i \in Nat \ {0}
<1>. DEFINE P(j) == 2^j
<1>1. /\ P(0) = 1 /\ P(1) = 2 /\ P(2) = 4 /\ P(3) = 8
      /\ P(4) = 16 /\ P(5) = 32 /\ P(6) = 64 /\ P(7) = 128
  OBVIOUS
<1>. HIDE DEF P
<1>2. \/ i = 0 \/ i = 1 \/ i = 2 \/ i = 3
      \/ i = 4 \/ i = 5 \/ i = 6 \/ i = 7
  OBVIOUS
<1>3. P(i) \in Nat \ {0}
  BY <1>1, <1>2
<1>. QED
  BY <1>3 DEF P

LEMMA BitType ==
  ASSUME NEW byte \in 0..255, NEW i \in 0..7
  PROVE  Bit(byte, i) \in 0..1
<1>1. 2^i \in Nat \ {0}
  BY PowerType
<1>. DEFINE p == 2^i
<1>. HIDE DEF p
<1>2. p \in Nat \ {0}
  BY <1>1 DEF p
<1>3. byte \div p \in Int
  BY <1>2
<1>4. (byte \div p) % 2 \in 0..1
  BY <1>3
<1>. QED
  BY <1>4 DEF Bit, p

(* Bit k of byte b is the frame's bit number 8 * b + k, counted from 0.    *)
LEMMA FrameBit ==
  ASSUME NEW b \in 0..BYTE_SEND_NUM - 1, NEW k \in 0..7
  PROVE  /\ 8 * b + k + 1 \in 1..8 * BYTE_SEND_NUM
         /\ FrameBits[8 * b + k + 1] = Bit(Table[b + 1], 7 - k)
<1>1. BYTE_SEND_NUM \in Nat \ {0}
  BY FrameSize
<1>2. 8 * b + k + 1 \in 1..8 * BYTE_SEND_NUM
  BY <1>1
<1>3. (8 * b + k + 1) - 1 = 8 * b + k
  BY <1>1
<1>4. (8 * b + k) \div 8 = b /\ (8 * b + k) % 8 = k
  BY <1>1
<1>. QED
  BY <1>2, <1>3, <1>4 DEF FrameBits

LEMMA FrameLength == Len(FrameBits) = 8 * BYTE_SEND_NUM
<1>1. 8 * BYTE_SEND_NUM \in Nat
  BY FrameSize
<1>. QED
  BY <1>1 DEF FrameBits

-----------------------------------------------------------------------------
LEMMA InitIInv == Init => IInv
<1>. SUFFICES ASSUME Init PROVE IInv
  OBVIOUS
<1>1. Idle
  BY Timing DEF Init, Idle
<1>2. Registers
  <2>1. /\ start \in BOOLEAN /\ send_start \in BOOLEAN
        /\ send_over \in BOOLEAN /\ byte_interval \in BOOLEAN
    BY DEF Init
  <2>2. last \in {"none", "complete", "broken off"}
    BY DEF Init
  <2>3. CS_N = 1 /\ SCK = 1 /\ MOSI = 0 /\ txd_data = 0
    BY DEF Init
  <2>4. CS_N \in 0..1 /\ SCK \in 0..1 /\ MOSI \in 0..1 /\ txd_data \in 0..255
    BY <2>3
  <2>. QED
    BY <2>1, <2>2, <2>4 DEF Registers
<1>3. ClockLevel
  BY DEF Init, ClockLevel
<1>4. DataOnWire
  BY DEF Init, DataOnWire, Waiting, Shifting, Between
<1>5. SlaveHas
  BY DEF Init, SlaveHas
<1>. QED
  BY <1>1, <1>2, <1>3, <1>4, <1>5 DEF IInv, Phase

LEMMA ResetStep ==
  ASSUME IInv, Reset
  PROVE  IInv'
<1>0. /\ CS_N' = 1 /\ cs_hi_cnt' = 0 /\ ~start' /\ sck_start_cnt' = 0
      /\ ~send_start' /\ sck_cnt' = 0 /\ bit_cnt' = 0 /\ byte_cnt' = 0
      /\ ~send_over' /\ ~byte_interval' /\ interval_cnt' = 0
      /\ SCK' = 1 /\ got' = <<>>
  BY DEF Reset
<1>1. Idle'
  BY <1>0, Timing DEF Idle
<1>2. Registers'
  <2>1. /\ start' \in BOOLEAN /\ send_start' \in BOOLEAN
        /\ send_over' \in BOOLEAN /\ byte_interval' \in BOOLEAN
    BY DEF Reset
  <2>2. last' \in {"none", "complete", "broken off"}
    BY DEF Reset, IInv, Registers
  <2>3. CS_N' = 1 /\ SCK' = 1 /\ MOSI' = 0 /\ txd_data' = 0
    BY DEF Reset
  <2>4. /\ CS_N' \in 0..1 /\ SCK' \in 0..1 /\ MOSI' \in 0..1
        /\ txd_data' \in 0..255
    BY <2>3
  <2>. QED
    BY <2>1, <2>2, <2>4 DEF Registers
<1>3. ClockLevel'
  BY <1>0 DEF ClockLevel
<1>4. DataOnWire'
  <2>1. ~Waiting' /\ ~Shifting' /\ ~Between'
    BY <1>0 DEF Waiting, Shifting, Between
  <2>. QED
    BY <2>1 DEF DataOnWire
<1>5. SlaveHas'
  BY <1>0 DEF SlaveHas
<1>. QED
  BY <1>1, <1>2, <1>3, <1>4, <1>5 DEF IInv, Phase

-----------------------------------------------------------------------------
(* What a clock makes of each phase.                                       *)

LEMMA FromIdle ==
  ASSUME Idle, Clk
  PROVE  Idle' \/ (Waiting' /\ sck_start_cnt' = 0)
<1>1. cs_hi_cnt' = cs_hi_cnt + 1
  BY Timing DEF Idle, Clk, ChipSelect
<1>2. CS_N' = IF cs_hi_cnt = CS_HI THEN 0 ELSE 1
  BY DEF Idle, Clk, ChipSelect
<1>3. ~start' /\ sck_start_cnt' = 0
  <2>1. ~StartNow
    BY Timing DEF Idle, StartNow
  <2>2. ~start'
    BY <2>1 DEF Idle, Clk, StartDelay
  <2>3. sck_start_cnt' = 0
    BY DEF Idle, Clk, StartDelay
  <2>. QED
    BY <2>2, <2>3
<1>4. ~send_start' /\ sck_cnt' = 0
  BY Timing DEF Idle, Clk, SendEnable, BitClock, StartNow, IntervalEnd
<1>5. bit_cnt' = 0 /\ byte_cnt' = 0
  BY Timing DEF Idle, Clk, BitCount, ByteCount, BitEnd, ByteEnd, IntervalEnd
<1>6. ~byte_interval' /\ interval_cnt' = 0 /\ ~send_over'
  <2>1. ~IntervalEnd /\ bit_cnt # 8
    BY Timing DEF Idle, IntervalEnd
  <2>. QED
    BY <2>1 DEF Idle, Clk, Interval, FrameEnd
<1>7. CASE cs_hi_cnt = CS_HI
  BY Timing, <1>1, <1>2, <1>3, <1>4, <1>5, <1>6, <1>7 DEF Waiting
<1>8. CASE cs_hi_cnt # CS_HI
  <2>1. cs_hi_cnt \in 0..CS_HI
    BY DEF Idle
  <2>2. cs_hi_cnt' \in 0..CS_HI
    BY Timing, <1>1, <1>8, <2>1
  <2>. QED
    BY <1>2, <1>3, <1>4, <1>5, <1>6, <1>8, <2>2 DEF Idle
<1>. QED
  BY <1>7, <1>8

LEMMA FromWaiting ==
  ASSUME Waiting, Clk
  PROVE  \/ Waiting' /\ sck_start_cnt' = sck_start_cnt + 1
         \/ Shifting' /\ sck_cnt' = 0 /\ byte_cnt' = 0 /\ sck_start_cnt > 0
<1>1. CS_N' = 0 /\ cs_hi_cnt' = 0
  BY Timing DEF Waiting, Clk, ChipSelect
<1>2. sck_start_cnt' = sck_start_cnt + 1
  BY Timing DEF Waiting, Clk, StartDelay
<1>3. sck_cnt' = 0 /\ bit_cnt' = 0 /\ byte_cnt' = 0
  BY Timing
     DEF Waiting, Clk, BitClock, BitCount, ByteCount, BitEnd, ByteEnd, IntervalEnd
<1>4. ~byte_interval' /\ interval_cnt' = 0 /\ ~send_over'
  <2>1. ~IntervalEnd /\ bit_cnt # 8
    BY Timing DEF Waiting, IntervalEnd
  <2>. QED
    BY <2>1 DEF Waiting, Clk, Interval, FrameEnd
<1>5. start' <=> StartNow
  BY DEF Waiting, Clk, StartDelay
<1>6. send_start' <=> StartNow
  BY Timing DEF Waiting, Clk, SendEnable, IntervalEnd
<1>7. sck_start_cnt \in 0..SCK_START_DLY
  BY DEF Waiting
<1>8. CASE StartNow
  BY Timing, FrameSize, <1>1, <1>2, <1>3, <1>4, <1>5, <1>6, <1>8
     DEF StartNow, Shifting
<1>9. CASE ~StartNow
  <2>1. sck_start_cnt' \in 0..SCK_START_DLY
    BY Timing, <1>2, <1>7, <1>9 DEF StartNow
  <2>. QED
    BY <1>1, <1>2, <1>3, <1>4, <1>5, <1>6, <1>9, <2>1 DEF Waiting
<1>. QED
  BY <1>8, <1>9

LEMMA FromShifting ==
  ASSUME Shifting, Clk
  PROVE  \/ /\ Shifting' /\ byte_cnt' = byte_cnt
            /\ sck_cnt' = IF sck_cnt < SCK_PERIOD THEN sck_cnt + 1 ELSE 1
            /\ bit_cnt' = IF sck_cnt < SCK_PERIOD THEN bit_cnt ELSE bit_cnt + 1
         \/ /\ Between' /\ ~byte_interval' /\ byte_cnt' = byte_cnt + 1
            /\ sck_cnt = SCK_PERIOD /\ bit_cnt = 7
<1>1. CS_N' = 0 /\ cs_hi_cnt' = 0
  BY Timing DEF Shifting, Clk, ChipSelect
<1>2. start' /\ sck_start_cnt' = 0
  BY Timing DEF Shifting, Clk, StartDelay, StartNow
<1>3. ~send_over' /\ ~byte_interval' /\ interval_cnt' = 0
  <2>1. ~IntervalEnd /\ bit_cnt # 8
    BY Timing DEF Shifting, IntervalEnd
  <2>. QED
    BY <2>1 DEF Shifting, Clk, Interval, FrameEnd
<1>4. sck_cnt' = IF sck_cnt < SCK_PERIOD THEN sck_cnt + 1 ELSE 1
  BY DEF Shifting, Clk, BitClock
<1>5. /\ sck_cnt \in 0..SCK_PERIOD /\ bit_cnt \in 0..7
      /\ byte_cnt \in 0..BYTE_SEND_NUM - 1
      /\ sck_cnt # 0 => sck_start_cnt = 0 /\ interval_cnt = 0
      /\ sck_cnt = 0 => bit_cnt = 0
      /\ send_start /\ ~send_over
  BY DEF Shifting
<1>6. CASE ByteEnd
  <2>1. bit_cnt' = 8
    BY <1>6 DEF Clk, BitCount, ByteEnd, BitEnd
  <2>2. byte_cnt' = byte_cnt + 1
    <3>1. byte_cnt' = (byte_cnt + 1) % 256
      BY <1>6 DEF Clk, ByteCount
    <3>. QED
      BY FrameSize, <1>5, <3>1
  <2>3. ~send_start'
    BY Timing, <1>5, <1>6
       DEF Clk, SendEnable, StartNow, IntervalEnd, ByteEnd, BitEnd
  <2>4. sck_cnt' = 1 /\ sck_cnt = SCK_PERIOD /\ bit_cnt = 7
    BY Timing, <1>4, <1>6 DEF ByteEnd, BitEnd
  <2>. QED
    BY Timing, FrameSize, <1>1, <1>2, <1>3, <1>5, <2>1, <2>2, <2>3, <2>4
       DEF Between
<1>7. CASE ~ByteEnd
  <2>1. byte_cnt' = byte_cnt /\ send_start'
    BY <1>5, <1>7 DEF Clk, ByteCount, SendEnable
  <2>2. bit_cnt' = IF sck_cnt < SCK_PERIOD THEN bit_cnt ELSE bit_cnt + 1
    <3>1. CASE BitEnd
      BY Timing, <1>5, <3>1 DEF Clk, BitCount, BitEnd
    <3>2. CASE ~BitEnd /\ IntervalEnd
      BY Timing, <1>5, <3>2 DEF Clk, BitCount, BitEnd, IntervalEnd, Shifting
    <3>3. CASE ~BitEnd /\ ~IntervalEnd
      BY Timing, <1>5, <3>3 DEF Clk, BitCount, BitEnd
    <3>. QED
      BY <3>1, <3>2, <3>3
  <2>3. sck_cnt' \in 1..SCK_PERIOD
    BY Timing, <1>4, <1>5
  <2>4. bit_cnt' \in 0..7
    BY Timing, <1>5, <1>7, <2>2 DEF ByteEnd, BitEnd
  <2>. QED
    BY <1>1, <1>2, <1>3, <1>4, <1>5, <2>1, <2>2, <2>3, <2>4 DEF Shifting
<1>. QED
  BY <1>6, <1>7

LEMMA FromBetween ==
  ASSUME Between, Clk
  PROVE  \/ Between' /\ byte_cnt' = byte_cnt /\ byte_interval'
         \/ /\ Shifting' /\ sck_cnt' = 0 /\ byte_cnt' = byte_cnt
            /\ byte_cnt < BYTE_SEND_NUM /\ byte_interval
         \/ Over'
<1>1. CS_N' = 0 /\ cs_hi_cnt' = 0
  BY Timing DEF Between, Clk, ChipSelect
<1>2. start' /\ sck_start_cnt' = 0
  BY Timing DEF Between, Clk, StartDelay, StartNow
<1>3. sck_cnt' = 0 /\ byte_cnt' = byte_cnt
  BY Timing DEF Between, Clk, BitClock, ByteCount, ByteEnd
<1>4. /\ send_start' <=> IntervalEnd /\ byte_cnt < BYTE_SEND_NUM
      /\ send_over' <=> IntervalEnd /\ byte_cnt = BYTE_SEND_NUM
  BY Timing DEF Between, Clk, SendEnable, FrameEnd, StartNow
<1>5. bit_cnt' = IF IntervalEnd THEN 0 ELSE 8
  BY Timing DEF Between, Clk, BitCount, BitEnd
<1>6. byte_interval' <=> ~IntervalEnd
  <2>1. interval_cnt < BYTE_INTERVAL <=> ~IntervalEnd
    BY Timing DEF Between, IntervalEnd
  <2>. QED
    BY <2>1 DEF Between, Clk, Interval
<1>7. interval_cnt' = IF byte_interval THEN interval_cnt + 1 ELSE 0
  BY Timing DEF Between, Clk, Interval
<1>8. /\ byte_cnt \in 1..BYTE_SEND_NUM /\ interval_cnt \in 0..BYTE_INTERVAL
      /\ ~byte_interval => interval_cnt = 0
  BY DEF Between
<1>9. CASE ~IntervalEnd
  <2>1. interval_cnt' \in 0..BYTE_INTERVAL
    BY Timing, <1>7, <1>8, <1>9 DEF IntervalEnd
  <2>. QED
    BY <1>1, <1>2, <1>3, <1>4, <1>5, <1>6, <1>8, <1>9, <2>1 DEF Between
<1>10. CASE IntervalEnd
  <2>1. byte_interval /\ interval_cnt' = BYTE_INTERVAL + 1
    BY Timing, <1>7, <1>8, <1>10 DEF IntervalEnd
  <2>2. CASE byte_cnt < BYTE_SEND_NUM
    <3>1. byte_cnt \in 0..BYTE_SEND_NUM - 1 /\ byte_cnt # BYTE_SEND_NUM
      BY FrameSize, <1>8, <2>2
    <3>2. 0 \in 0..SCK_PERIOD
      BY Timing
    <3>. QED
      BY <1>1, <1>2, <1>3, <1>4, <1>5, <1>6, <1>10, <2>1, <2>2, <3>1, <3>2
         DEF Shifting
  <2>3. CASE byte_cnt = BYTE_SEND_NUM
    <3>1. ~(byte_cnt < BYTE_SEND_NUM)
      BY FrameSize, <2>3
    <3>. QED
      BY <1>1, <1>2, <1>3, <1>4, <1>5, <1>6, <1>10, <2>1, <2>3, <3>1 DEF Over
  <2>. QED
    BY FrameSize, <1>8, <2>2, <2>3
<1>. QED
  BY <1>9, <1>10

LEMMA FromOver ==
  ASSUME Over, Clk
  PROVE  Idle'
<1>1. CS_N' = 1 /\ cs_hi_cnt' = 0
  BY Timing DEF Over, Clk, ChipSelect
<1>2. ~start' /\ sck_start_cnt' = 0
  <2>1. ~StartNow
    BY Timing DEF Over, StartNow
  <2>. QED
    BY <2>1 DEF Over, Clk, StartDelay
<1>3. ~send_start' /\ sck_cnt' = 0
  BY Timing DEF Over, Clk, SendEnable, BitClock, StartNow, IntervalEnd
<1>4. bit_cnt' = 0 /\ byte_cnt' = 0
  BY Timing DEF Over, Clk, BitCount, ByteCount, BitEnd, ByteEnd, IntervalEnd
<1>5. ~byte_interval' /\ interval_cnt' = 0
  <2>1. bit_cnt # 8
    BY DEF Over
  <2>. QED
    BY <2>1 DEF Over, Clk, Interval
<1>. QED
  BY Timing, <1>1, <1>2, <1>3, <1>4, <1>5 DEF Idle
-----------------------------------------------------------------------------
(* What a clock makes of the registers, whatever the phase.                *)

LEMMA RegistersStep ==
  ASSUME IInv, Clk
  PROVE  Registers'
<1>1. /\ start' \in BOOLEAN /\ send_start' \in BOOLEAN
      /\ send_over' \in BOOLEAN /\ byte_interval' \in BOOLEAN
  BY DEF Clk, StartDelay, SendEnable, FrameEnd, Interval
<1>2. last' \in {"none", "complete", "broken off"}
  BY DEF Clk, SlaveSamples, IInv, Registers
<1>3. /\ CS_N \in 0..1 /\ SCK \in 0..1 /\ MOSI \in 0..1 /\ txd_data \in 0..255
      /\ bit_cnt \in 0..8 /\ byte_cnt \in Nat
  <2>1. CS_N \in 0..1 /\ SCK \in 0..1 /\ MOSI \in 0..1 /\ txd_data \in 0..255
    BY DEF IInv, Registers
  <2>2. \/ bit_cnt = 0 /\ byte_cnt = 0
        \/ bit_cnt \in 0..7 /\ byte_cnt \in 0..BYTE_SEND_NUM - 1
        \/ bit_cnt = 8 /\ byte_cnt \in 1..BYTE_SEND_NUM
        \/ bit_cnt = 0 /\ byte_cnt = BYTE_SEND_NUM
    BY DEF IInv, Phase, Idle, Waiting, Shifting, Between, Over
  <2>. QED
    BY FrameSize, <2>1, <2>2
<1>4. CS_N' \in 0..1
  <2>1. CS_N' = 0 \/ CS_N' = 1 \/ CS_N' = CS_N
    BY DEF Clk, ChipSelect
  <2>. QED
    BY <1>3, <2>1
<1>5. SCK' \in 0..1
  <2>1. SCK' = 0 \/ SCK' = 1 \/ SCK' = SCK
    BY DEF Clk, BitClock
  <2>. QED
    BY <1>3, <2>1
<1>6. MOSI' \in 0..1
  <2>1. \/ MOSI' = MOSI
        \/ MOSI' = Bit(txd_data, 7)
        \/ bit_cnt <= 6 /\ MOSI' = Bit(txd_data, 6 - bit_cnt)
    BY DEF Clk, ShiftOut
  <2>2. Bit(txd_data, 7) \in 0..1
    BY <1>3, BitType
  <2>3. bit_cnt <= 6 => Bit(txd_data, 6 - bit_cnt) \in 0..1
    <3>1. bit_cnt <= 6 => 6 - bit_cnt \in 0..7
      BY <1>3
    <3>. QED
      BY <1>3, <3>1, BitType
  <2>. QED
    BY <1>3, <2>1, <2>2, <2>3
<1>7. txd_data' \in 0..255
  <2>1. \/ txd_data' = txd_data
        \/ byte_cnt < Len(Table) /\ txd_data' = Table[byte_cnt + 1]
    BY DEF Clk, LoadByte
  <2>. QED
    BY <1>3, <2>1, TableBytes
<1>. QED
  BY <1>1, <1>2, <1>4, <1>5, <1>6, <1>7 DEF Registers

LEMMA RestsHigh ==
  ASSUME ClockLevel, ~send_start, Clk
  PROVE  SCK = 1 /\ SCK' = 1 /\ ClockLevel'
<1>1. SCK = 1
  BY DEF ClockLevel
<1>2. SCK' = 1 /\ sck_cnt' = 0
  BY <1>1 DEF Clk, BitClock
<1>. QED
  BY <1>1, <1>2, Timing DEF ClockLevel

(* While bits go out: SCK falls at the beginning of a bit, rises at SCK_LO *)
(* and stays high after the last.                                          *)
LEMMA ClocksABit ==
  ASSUME ClockLevel, Shifting, Clk
  PROVE  /\ ClockLevel'
         /\ SCK = 0 /\ SCK' = 1 <=> sck_cnt = SCK_LO
<1>1. sck_cnt \in 0..SCK_PERIOD /\ bit_cnt \in 0..7 /\ send_start
  BY DEF Shifting
<1>2. SCK = IF sck_cnt \in 1..SCK_LO THEN 0 ELSE 1
  BY <1>1 DEF ClockLevel
<1>3. /\ SCK' = IF sck_cnt < SCK_LO THEN 0
                ELSE IF sck_cnt < SCK_PERIOD THEN 1
                ELSE IF bit_cnt < 7 THEN 0 ELSE SCK
      /\ sck_cnt' = IF sck_cnt < SCK_PERIOD THEN sck_cnt + 1 ELSE 1
  BY <1>1 DEF Clk, BitClock
<1>4. SCK = 0 /\ SCK' = 1 <=> sck_cnt = SCK_LO
  BY Timing, <1>1, <1>2, <1>3
<1>5. CASE sck_cnt < SCK_PERIOD \/ bit_cnt < 7
  <2>1. send_start'
    <3>1. ~ByteEnd
      BY Timing, <1>1, <1>5 DEF ByteEnd, BitEnd
    <3>. QED
      BY <1>1, <3>1 DEF Clk, SendEnable
  <2>2. SCK' = IF sck_cnt' \in 1..SCK_LO THEN 0 ELSE 1
    <3>1. CASE sck_cnt < SCK_LO
      <4>1. SCK' = 0 /\ sck_cnt' \in 1..SCK_LO
        BY Timing, <1>1, <1>3, <3>1
      <4>. QED
        BY <4>1
    <3>2. CASE ~(sck_cnt < SCK_LO) /\ sck_cnt < SCK_PERIOD
      <4>1. SCK' = 1 /\ sck_cnt' > SCK_LO /\ sck_cnt' \in Nat
        BY Timing, <1>1, <1>3, <3>2
      <4>2. ~(sck_cnt' \in 1..SCK_LO)
        BY Timing, <4>1
      <4>. QED
        BY <4>1, <4>2
    <3>3. CASE ~(sck_cnt < SCK_PERIOD) /\ bit_cnt < 7
      <4>1. SCK' = 0 /\ sck_cnt' = 1
        BY Timing, <1>1, <1>3, <3>3
      <4>2. 1 \in 1..SCK_LO
        BY Timing
      <4>. QED
        BY <4>1, <4>2
    <3>. QED
      BY Timing, <1>1, <1>5, <3>1, <3>2, <3>3
  <2>. QED
    BY <1>4, <2>1, <2>2 DEF ClockLevel
<1>6. CASE ~(sck_cnt < SCK_PERIOD) /\ ~(bit_cnt < 7)
  <2>1. ~send_start'
    <3>1. ByteEnd /\ ~IntervalEnd /\ ~StartNow
      BY Timing, <1>1, <1>6
         DEF ByteEnd, BitEnd, IntervalEnd, StartNow, Shifting
    <3>. QED
      BY <1>1, <3>1 DEF Clk, SendEnable
  <2>2. SCK' = 1
    BY Timing, <1>1, <1>2, <1>3, <1>6
  <2>. QED
    BY <1>4, <2>1, <2>2 DEF ClockLevel
<1>. QED
  BY <1>5, <1>6

(* The phases exclude each other.                                          *)
LEMMA PhasesApart ==
  /\ Idle' => ~Waiting' /\ ~Shifting' /\ ~Between'
  /\ Waiting' => ~Shifting' /\ ~Between'
  /\ Shifting' => ~Waiting' /\ ~Between'
  /\ Between' => ~Waiting' /\ ~Shifting'
  /\ Over' => ~Waiting' /\ ~Shifting' /\ ~Between'
<1>1. Idle' => ~(CS_N' = 0)
  BY DEF Idle
<1>2. /\ Waiting' => CS_N' = 0 /\ ~start' /\ ~send_over'
      /\ Shifting' => CS_N' = 0 /\ start' /\ send_start' /\ ~send_over'
      /\ Between' => CS_N' = 0 /\ start' /\ ~send_start' /\ ~send_over'
      /\ Over' => send_over'
  BY DEF Waiting, Shifting, Between, Over
<1>. QED
  BY <1>1, <1>2
-----------------------------------------------------------------------------
(* What a clock makes of the data, phase by phase: the invariant, and the  *)
(* step of SpiFrame it is.                                                 *)

Stutters == UNCHANGED <<CS_N = 0, got, last>>

LEMMA NothingSampled ==
  ASSUME Clk, CS_N' = 0, ~(SCK = 0 /\ SCK' = 1)
  PROVE  got' = got /\ last' = last
BY DEF Clk, SlaveSamples

LEMMA IdleStep ==
  ASSUME IInv, Idle, Clk
  PROVE  /\ DataOnWire' /\ SlaveHas'
         /\ Slave!Select \/ Stutters
<1>1. got = <<>>
  BY DEF IInv, SlaveHas, Idle
<1>2. SCK = 1
  BY RestsHigh DEF IInv, Idle
<1>3. CASE Idle'
  <2>1. CS_N' = 1 /\ CS_N = 1
    BY <1>3 DEF Idle
  <2>2. got' = <<>> /\ last' = last
    BY <2>1 DEF Clk, SlaveSamples
  <2>3. DataOnWire'
    BY <1>3, PhasesApart DEF DataOnWire
  <2>4. SlaveHas'
    BY <2>1, <2>2 DEF SlaveHas
  <2>5. Stutters
    BY <1>1, <2>1, <2>2 DEF Stutters
  <2>. QED
    BY <2>3, <2>4, <2>5
<1>4. CASE Waiting' /\ sck_start_cnt' = 0
  <2>1. CS_N' = 0 /\ CS_N = 1 /\ byte_cnt' = 0 /\ ~send_start'
    BY <1>4 DEF Idle, Waiting
  <2>2. got' = got /\ last' = last
    BY <1>2, <2>1, NothingSampled
  <2>3. DataOnWire'
    <3>1. ~(sck_start_cnt' > 0)
      BY <1>4
    <3>. QED
      BY <1>4, <3>1, PhasesApart DEF DataOnWire
  <2>4. SlaveHas'
    BY <1>1, <2>1, <2>2 DEF SlaveHas, BitsSent
  <2>5. Slave!Select
    BY <2>1, <2>2 DEF Slave!Select
  <2>. QED
    BY <2>3, <2>4, <2>5
<1>. QED
  BY <1>3, <1>4, FromIdle

LEMMA WaitingStep ==
  ASSUME IInv, Waiting, Clk
  PROVE  DataOnWire' /\ SlaveHas' /\ Stutters
<1>1. got = <<>>
  BY DEF IInv, SlaveHas, BitsSent, Waiting
<1>2. SCK = 1
  BY RestsHigh DEF IInv, Waiting
<1>3. CS_N = 0 /\ CS_N' = 0
  BY FromWaiting DEF Waiting, Shifting
<1>4. got' = got /\ last' = last
  BY <1>2, <1>3, NothingSampled
<1>5. txd_data' = Table[byte_cnt' + 1]
  <2>1. byte_cnt = 0 /\ byte_cnt' = 0
    BY FromWaiting DEF Waiting
  <2>2. byte_cnt < Len(Table)
    BY <2>1, FrameSize
  <2>. QED
    BY <2>1, <2>2 DEF Clk, LoadByte, Waiting
<1>6. byte_cnt' = 0 /\ ~(sck_cnt' > 0) /\ bit_cnt' = 0
  <2>1. sck_cnt' = 0 /\ byte_cnt' = 0 /\ bit_cnt' = 0
    BY FromWaiting DEF Waiting, Shifting
  <2>. QED
    BY <2>1
<1>7. DataOnWire'
  BY <1>5, <1>6 DEF DataOnWire
<1>8. SlaveHas'
  <2>1. BitsSent' = 0
    BY <1>6, Timing, FromWaiting DEF BitsSent, Waiting, Shifting
  <2>. QED
    BY <1>1, <1>3, <1>4, <2>1 DEF SlaveHas
<1>. QED
  BY <1>3, <1>4, <1>7, <1>8 DEF Stutters

LEMMA ShiftingStep ==
  ASSUME IInv, Shifting, Clk
  PROVE  /\ DataOnWire' /\ SlaveHas'
         /\ Slave!NextBit \/ Stutters
<1>1. /\ sck_cnt \in 0..SCK_PERIOD /\ bit_cnt \in 0..7
      /\ byte_cnt \in 0..BYTE_SEND_NUM - 1
      /\ sck_cnt = 0 => bit_cnt = 0
      /\ send_start /\ CS_N = 0
  BY DEF Shifting
<1>2. CS_N' = 0
  BY FromShifting DEF Shifting, Between
<1>3. txd_data' = txd_data /\ txd_data = Table[byte_cnt + 1]
  BY <1>1 DEF Clk, LoadByte, IInv, DataOnWire
<1>4. DataOnWire'
  <2>1. CASE Between' /\ ~byte_interval'
    BY <2>1, PhasesApart DEF DataOnWire
  <2>2. CASE /\ Shifting' /\ byte_cnt' = byte_cnt
             /\ bit_cnt' = IF sck_cnt < SCK_PERIOD THEN bit_cnt ELSE bit_cnt + 1
    <3>1. MOSI' = Bit(txd_data, 7 - bit_cnt')
      <4>1. CASE sck_cnt = 0
        <5>1. bit_cnt' = 0
          BY Timing, <1>1, <2>2, <4>1
        <5>2. MOSI' = Bit(txd_data, 7)
          BY <1>1, <4>1 DEF Clk, ShiftOut
        <5>. QED
          BY <5>1, <5>2
      <4>2. CASE sck_cnt > 0 /\ sck_cnt < SCK_PERIOD
        <5>1. bit_cnt' = bit_cnt
          BY <2>2, <4>2
        <5>2. MOSI' = MOSI
          BY Timing, <1>1, <4>2 DEF Clk, ShiftOut, BitEnd
        <5>3. MOSI = Bit(txd_data, 7 - bit_cnt)
          BY <4>2 DEF IInv, DataOnWire
        <5>. QED
          BY <5>1, <5>2, <5>3
      <4>3. CASE sck_cnt = SCK_PERIOD
        <5>1. bit_cnt' = bit_cnt + 1 /\ bit_cnt' \in 0..7
          BY Timing, <1>1, <2>2, <4>3 DEF Shifting
        <5>2. MOSI' = Bit(txd_data, 6 - bit_cnt)
          BY Timing, <1>1, <4>3, <5>1 DEF Clk, ShiftOut, BitEnd
        <5>3. 6 - bit_cnt = 7 - bit_cnt'
          BY <1>1, <5>1
        <5>. QED
          BY <5>2, <5>3
      <4>. QED
        BY Timing, <1>1, <4>1, <4>2, <4>3
    <3>2. txd_data' = Table[byte_cnt' + 1]
      BY <1>3, <2>2
    <3>. QED
      BY <1>3, <3>1, <3>2 DEF DataOnWire
  <2>. QED
    BY <2>1, <2>2, FromShifting
<1>5. SCK = 0 /\ SCK' = 1 <=> sck_cnt = SCK_LO
  BY ClocksABit DEF IInv
<1>6. /\ got \in Seq(0..1)
      /\ Len(got) = 8 * byte_cnt + bit_cnt + IF sck_cnt > SCK_LO THEN 1 ELSE 0
      /\ \A i \in 1..Len(got) : got[i] = FrameBits[i]
  <2>1. BitsSent = 8 * byte_cnt + bit_cnt + IF sck_cnt > SCK_LO THEN 1 ELSE 0
    BY Timing, <1>1 DEF BitsSent
  <2>. QED
    BY <1>1, <2>1 DEF IInv, SlaveHas
<1>7. CASE sck_cnt = SCK_LO
  <2>1. /\ byte_cnt' = byte_cnt /\ bit_cnt' = bit_cnt
        /\ sck_cnt' = sck_cnt + 1 /\ send_start'
    BY Timing, <1>7, FromShifting DEF Shifting
  <2>2. Len(got) = 8 * byte_cnt + bit_cnt
    BY Timing, <1>1, <1>6, <1>7
  <2>3. MOSI = FrameBits[Len(got) + 1] /\ Len(got) + 1 \in 1..8 * BYTE_SEND_NUM
    <3>1. MOSI = Bit(Table[byte_cnt + 1], 7 - bit_cnt)
      <4>1. sck_cnt > 0
        BY Timing, <1>7
      <4>. QED
        BY <1>3, <4>1 DEF IInv, DataOnWire
    <3>. QED
      BY <1>1, <2>2, <3>1, FrameBit
  <2>4. got' = Append(got, MOSI) /\ last' = last
    BY <1>2, <1>5, <1>7 DEF Clk, SlaveSamples
  <2>5. SlaveHas'
    <3>1. BitsSent' = Len(got) + 1
      BY Timing, <1>1, <1>7, <2>1, <2>2 DEF BitsSent
    <3>2. MOSI \in 0..1
      BY DEF IInv, Registers
    <3>3. /\ got' \in Seq(0..1) /\ Len(got') = Len(got) + 1
          /\ \A i \in 1..Len(got) : got'[i] = got[i]
          /\ got'[Len(got) + 1] = MOSI
      BY <1>6, <2>4, <3>2
    <3>4. \A i \in 1..Len(got') : got'[i] = FrameBits[i]
      BY <1>6, <2>3, <3>3
    <3>. QED
      BY <1>2, <3>1, <3>3, <3>4 DEF SlaveHas
  <2>6. Slave!NextBit
    <3>1. Len(got) < Len(FrameBits)
      BY <1>6, <2>3, FrameLength
    <3>. QED
      BY <1>1, <1>2, <2>3, <2>4, <3>1 DEF Slave!NextBit
  <2>. QED
    BY <1>4, <2>5, <2>6
<1>8. CASE sck_cnt # SCK_LO
  <2>1. got' = got /\ last' = last
    BY <1>2, <1>5, <1>8, NothingSampled
  <2>2. BitsSent' = Len(got)
    <3>1. CASE /\ Between' /\ byte_cnt' = byte_cnt + 1
               /\ sck_cnt = SCK_PERIOD /\ bit_cnt = 7
      <4>1. ~send_start'
        BY <3>1 DEF Between
      <4>. QED
        BY Timing, <1>1, <1>6, <3>1, <4>1 DEF BitsSent
    <3>2. CASE /\ Shifting' /\ byte_cnt' = byte_cnt
               /\ sck_cnt' = IF sck_cnt < SCK_PERIOD THEN sck_cnt + 1 ELSE 1
               /\ bit_cnt' = IF sck_cnt < SCK_PERIOD THEN bit_cnt ELSE bit_cnt + 1
      <4>1. send_start'
        BY <3>2 DEF Shifting
      <4>2. BitsSent' = 8 * byte_cnt + (bit_cnt' + IF sck_cnt' > SCK_LO THEN 1 ELSE 0)
        BY <3>2, <4>1 DEF BitsSent
      <4>3. bit_cnt' + (IF sck_cnt' > SCK_LO THEN 1 ELSE 0)
              = bit_cnt + IF sck_cnt > SCK_LO THEN 1 ELSE 0
        BY Timing, <1>1, <1>8, <3>2
      <4>. QED
        BY Timing, <1>1, <1>6, <4>2, <4>3
    <3>. QED
      BY <3>1, <3>2, FromShifting
  <2>3. SlaveHas'
    BY <1>2, <1>6, <2>1, <2>2 DEF SlaveHas
  <2>4. Stutters
    BY <1>1, <1>2, <2>1 DEF Stutters
  <2>. QED
    BY <1>4, <2>3, <2>4
<1>. QED
  BY <1>7, <1>8

LEMMA BetweenStep ==
  ASSUME IInv, Between, Clk
  PROVE  DataOnWire' /\ SlaveHas' /\ Stutters
<1>1. /\ byte_cnt \in 1..BYTE_SEND_NUM /\ CS_N = 0 /\ ~send_start
  BY DEF Between
<1>2. CS_N' = 0 /\ byte_cnt' = byte_cnt
  BY Timing DEF Between, Clk, ChipSelect, ByteCount, ByteEnd
<1>3. SCK = 1
  BY <1>1, RestsHigh DEF IInv
<1>4. got' = got /\ last' = last
  BY <1>2, <1>3, NothingSampled
<1>5. byte_cnt < BYTE_SEND_NUM => txd_data' = Table[byte_cnt' + 1]
  <2>1. byte_cnt < BYTE_SEND_NUM => byte_cnt < Len(Table)
    BY FrameSize, <1>1
  <2>. QED
    BY <1>1, <1>2, <2>1 DEF Clk, LoadByte
<1>6. sck_cnt' = 0
  BY <1>1 DEF Clk, BitClock
<1>7. DataOnWire'
  <2>1. CASE Between'
    BY <1>2, <1>5, <2>1, PhasesApart DEF DataOnWire
  <2>2. CASE Shifting' /\ byte_cnt < BYTE_SEND_NUM
    <3>1. ~(sck_cnt' > 0)
      BY <1>6
    <3>. QED
      BY <1>5, <2>2, <3>1 DEF DataOnWire
  <2>3. CASE Over'
    BY <2>3, PhasesApart DEF DataOnWire
  <2>. QED
    BY <2>1, <2>2, <2>3, FromBetween
<1>8. SlaveHas'
  <2>1. send_start' => bit_cnt' = 0
    <3>1. CASE Between'
      BY <3>1 DEF Between
    <3>2. CASE Shifting'
      BY <1>6, <3>2 DEF Shifting
    <3>3. CASE Over'
      BY <3>3 DEF Over
    <3>. QED
      BY <3>1, <3>2, <3>3, FromBetween
  <2>2. BitsSent' = BitsSent
    BY Timing, FrameSize, <1>1, <1>2, <1>6, <2>1 DEF BitsSent
  <2>. QED
    BY <1>1, <1>2, <1>4, <2>2 DEF IInv, SlaveHas
<1>. QED
  BY <1>1, <1>2, <1>4, <1>7, <1>8 DEF Stutters

LEMMA OverStep ==
  ASSUME IInv, Over, Clk
  PROVE  DataOnWire' /\ SlaveHas' /\ Slave!Finish
<1>1. CS_N = 0 /\ CS_N' = 1
  BY FromOver DEF Over, Idle
<1>2. got' = <<>> /\ last' = "complete"
  BY <1>1 DEF Clk, SlaveSamples
<1>3. DataOnWire'
  BY FromOver, PhasesApart DEF DataOnWire
<1>4. SlaveHas'
  BY <1>1, <1>2 DEF SlaveHas
<1>5. got = FrameBits
  <2>1. got \in Seq(0..1) /\ \A i \in 1..Len(got) : got[i] = FrameBits[i]
    BY DEF IInv, SlaveHas
  <2>2. Len(got) = 8 * BYTE_SEND_NUM
    <3>1. BitsSent = 8 * BYTE_SEND_NUM
      BY FrameSize DEF Over, BitsSent
    <3>. QED
      BY <1>1, <3>1 DEF IInv, SlaveHas
  <2>3. got = [i \in 1..8 * BYTE_SEND_NUM |-> got[i]]
    BY <2>1, <2>2
  <2>4. FrameBits = [i \in 1..8 * BYTE_SEND_NUM |-> FrameBits[i]]
    BY DEF FrameBits
  <2>. QED
    BY <2>1, <2>2, <2>3, <2>4
<1>6. Slave!Finish
  BY <1>1, <1>2, <1>5 DEF Slave!Finish
<1>. QED
  BY <1>3, <1>4, <1>6
-----------------------------------------------------------------------------
(* The theorems.                                                           *)

LEMMA ClkStep ==
  ASSUME IInv, Clk
  PROVE  /\ IInv'
         /\ Slave!Next \/ Stutters
<1>1. Registers'
  BY RegistersStep
<1>2. CASE Idle
  <2>1. ~send_start
    BY <1>2 DEF Idle
  <2>2. ClockLevel'
    BY <2>1, RestsHigh DEF IInv
  <2>3. Phase'
    BY <1>2, FromIdle DEF Phase
  <2>. QED
    BY <1>1, <1>2, <2>2, <2>3, IdleStep DEF IInv, Slave!Next
<1>3. CASE Waiting
  <2>1. ~send_start
    BY <1>3 DEF Waiting
  <2>2. ClockLevel'
    BY <2>1, RestsHigh DEF IInv
  <2>3. Phase'
    BY <1>3, FromWaiting DEF Phase
  <2>. QED
    BY <1>1, <1>3, <2>2, <2>3, WaitingStep DEF IInv
<1>4. CASE Shifting
  <2>1. ClockLevel'
    BY <1>4, ClocksABit DEF IInv
  <2>2. Phase'
    BY <1>4, FromShifting DEF Phase
  <2>. QED
    BY <1>1, <1>4, <2>1, <2>2, ShiftingStep DEF IInv, Slave!Next
<1>5. CASE Between
  <2>1. ~send_start
    BY <1>5 DEF Between
  <2>2. ClockLevel'
    BY <2>1, RestsHigh DEF IInv
  <2>3. Phase'
    BY <1>5, FromBetween DEF Phase
  <2>. QED
    BY <1>1, <1>5, <2>2, <2>3, BetweenStep DEF IInv
<1>6. CASE Over
  <2>1. ~send_start
    BY <1>6 DEF Over
  <2>2. ClockLevel'
    BY <2>1, RestsHigh DEF IInv
  <2>3. Phase'
    BY <1>6, FromOver DEF Phase
  <2>. QED
    BY <1>1, <1>6, <2>2, <2>3, OverStep DEF IInv, Slave!Next
<1>. QED
  BY <1>2, <1>3, <1>4, <1>5, <1>6 DEF IInv, Phase

LEMMA ResetBreaksOff ==
  ASSUME IInv, Reset
  PROVE  Slave!BreakOff \/ Stutters
<1>1. got' = <<>> /\ CS_N' = 1 /\ last' = IF CS_N = 0 THEN "broken off" ELSE last
  BY DEF Reset
<1>2. CASE CS_N = 0
  <2>1. CS_N' = 1
    BY <1>1
  <2>2. ~(CS_N' = 0)
    BY <2>1
  <2>. QED
    BY <1>1, <1>2, <2>2 DEF Slave!BreakOff
<1>3. CASE CS_N # 0
  <2>1. got = <<>>
    BY <1>3 DEF IInv, SlaveHas
  <2>. QED
    BY <1>1, <1>3, <2>1 DEF Stutters
<1>. QED
  BY <1>2, <1>3

LEMMA Inductive == IInv /\ [Next]_vars => IInv'
<1>. SUFFICES ASSUME IInv, [Next]_vars PROVE IInv'
  OBVIOUS
<1>1. CASE Clk
  BY <1>1, ClkStep
<1>2. CASE Reset
  BY <1>2, ResetStep
<1>3. CASE UNCHANGED vars
  BY <1>3
     DEF vars, slaveVars, IInv, Registers, Phase, Idle, Waiting, Shifting,
         Between, Over, ClockLevel, DataOnWire, SlaveHas, BitsSent
<1>. QED
  BY <1>1, <1>2, <1>3 DEF Next

LEMMA Invariance == Spec => []IInv
BY InitIInv, Inductive, PTL DEF Spec

(* TypeOK for every table and timing: none of the counters, which nobody   *)
(* stops, runs past the value the comparisons wait for.                    *)
THEOREM TypeCorrect == Spec => []TypeOK
<1>1. IInv => TypeOK
  <2>. SUFFICES ASSUME IInv PROVE TypeOK
    OBVIOUS
  <2>1. Registers /\ got \in Seq(0..1)
    BY DEF IInv, SlaveHas
  <2>2. /\ cs_hi_cnt \in 0..CS_HI + 1 /\ sck_start_cnt \in 0..SCK_START_DLY + 1
        /\ interval_cnt \in 0..BYTE_INTERVAL + 1
    <3>1. /\ cs_hi_cnt \in 0..CS_HI \/ cs_hi_cnt \in {0, CS_HI + 1}
          /\ \/ sck_start_cnt \in 0..SCK_START_DLY
             \/ sck_start_cnt \in {0, SCK_START_DLY + 1}
          /\ \/ interval_cnt \in 0..BYTE_INTERVAL
             \/ interval_cnt \in {0, BYTE_INTERVAL + 1}
      BY Timing DEF IInv, Phase, Idle, Waiting, Shifting, Between, Over
    <3>. QED
      BY Timing, <3>1
  <2>3. sck_cnt \in 0..SCK_PERIOD /\ bit_cnt \in 0..8 /\ byte_cnt \in 0..BYTE_SEND_NUM
    BY Timing, FrameSize DEF IInv, Phase, Idle, Waiting, Shifting, Between, Over
  <2>. QED
    BY <2>1, <2>2, <2>3 DEF TypeOK, Registers
<1>. QED
  BY <1>1, Invariance, PTL

(* IdleClockHigh for every table and timing: the slave is never selected   *)
(* or released while its clock is low.                                     *)
THEOREM RestsWhenIdle == Spec => []IdleClockHigh
<1>1. IInv => IdleClockHigh
  <2>. SUFFICES ASSUME IInv, CS_N = 1 PROVE SCK = 1 /\ ~send_start
    BY DEF IdleClockHigh
  <2>1. ~send_start
    BY DEF IInv, Phase, Idle, Waiting, Shifting, Between, Over
  <2>. QED
    BY <2>1 DEF IInv, ClockLevel
<1>. QED
  BY <1>1, Invariance, PTL

(* OutputOnFallingEdge for every table and timing: half a bit passes       *)
(* between a change of MOSI and the edge the slave samples it at.          *)
THEOREM DataStable == Spec => OutputOnFallingEdge
<1>1. IInv /\ [Next]_vars => [Clk /\ MOSI' # MOSI => SCK = 1 /\ SCK' = 0]_vars
  <2>. SUFFICES ASSUME IInv, Clk, MOSI' # MOSI PROVE SCK = 1 /\ SCK' = 0
    OBVIOUS
  <2>1. send_start /\ (sck_cnt = 0 \/ (BitEnd /\ bit_cnt <= 6))
    BY DEF Clk, ShiftOut
  <2>2. bit_cnt \in 0..7 /\ SCK = IF sck_cnt \in 1..SCK_LO THEN 0 ELSE 1
    BY <2>1
       DEF IInv, ClockLevel, Phase, Idle, Waiting, Shifting, Between, Over
  <2>3. SCK' = IF sck_cnt < SCK_LO THEN 0
               ELSE IF sck_cnt < SCK_PERIOD THEN 1
               ELSE IF bit_cnt < 7 THEN 0 ELSE SCK
    BY <2>1 DEF Clk, BitClock
  <2>. QED
    BY Timing, <2>1, <2>2, <2>3 DEF BitEnd
<1>. QED
  BY <1>1, Invariance, PTL DEF Spec, OutputOnFallingEdge

(* SpiMaster implements SpiFrame for every table and timing: every frame   *)
(* no reset breaks off is the whole table, bit for bit.                    *)
THEOREM Refinement == Spec => ImplementsSpiFrame
<1>1. Init => Slave!Init
  BY DEF Init, Slave!Init
<1>2. IInv /\ [Next]_vars => [Slave!Next]_Slave!vars
  <2>. SUFFICES ASSUME IInv, [Next]_vars PROVE Slave!Next \/ Stutters
    BY DEF Stutters, Slave!vars
  <2>1. CASE Clk
    BY <2>1, ClkStep
  <2>2. CASE Reset
    BY <2>2, ResetBreaksOff DEF Slave!Next
  <2>3. CASE UNCHANGED vars
    BY <2>3 DEF vars, slaveVars, Stutters
  <2>. QED
    BY <2>1, <2>2, <2>3 DEF Next
<1>. QED
  BY <1>1, <1>2, Invariance, PTL DEF Spec, ImplementsSpiFrame, Slave!Spec
=============================================================================
