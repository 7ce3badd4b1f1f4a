------------------------------ MODULE SpiMaster ------------------------------
(***************************************************************************)
(* The SPI master of the FPGA (Verilog_code/spi_interface.v): it selects   *)
(* the slave, shifts a table of bytes out on MOSI, and begins again.       *)
(*                                                                         *)
(* Every always block is a conjunct of the one action Clk: the assignments *)
(* are nonblocking, so all of them see the registers before the edge.  The *)
(* reset is asynchronous and may come at any time.  The slave, external,   *)
(* samples MOSI on the rising edge of SCK.                                 *)
(***************************************************************************)
EXTENDS Naturals, Sequences

CONSTANTS
  CS_HI,          \* clocks the slave stays deselected, less one
  SCK_START_DLY,  \* clocks from selection to the first bit
  SCK_LO,         \* clocks SCK is low in a bit
  SCK_PERIOD,     \* clocks of a bit
  BYTE_INTERVAL,  \* clocks between two bytes
  BYTE_SEND_NUM,  \* bytes in a frame
  Table           \* the bytes that txd_data takes, from byte_cnt 0 on

ASSUME TableAssumption ==
  /\ Table \in Seq(0..255)
  /\ BYTE_SEND_NUM \in 1..Len(Table)
  /\ BYTE_SEND_NUM <= 255   \* byte_cnt has 8 bits
ASSUME ClockAssumption ==
  /\ SCK_LO \in Nat /\ SCK_PERIOD \in 2..14 /\ 0 < SCK_LO /\ SCK_LO < SCK_PERIOD
  /\ CS_HI \in 1..1022 /\ SCK_START_DLY \in 1..1022
  /\ BYTE_INTERVAL \in 1..254

VARIABLES
  CS_N, SCK, MOSI,            \* outputs
  start, send_start, send_over, byte_interval,
  cs_hi_cnt, sck_start_cnt,   \* 10 bits
  sck_cnt, bit_cnt,           \* 4 bits
  byte_cnt, interval_cnt,     \* 8 bits
  txd_data,
  \* The slave:
  got,                        \* bits sampled since it was selected
  last                        \* how its last frame ended

slaveVars == <<got, last>>
vars == <<CS_N, SCK, MOSI, start, send_start, send_over, byte_interval,
          cs_hi_cnt, sck_start_cnt, sck_cnt, bit_cnt, byte_cnt, interval_cnt,
          txd_data, slaveVars>>

Init ==
  /\ CS_N = 1 /\ SCK = 1 /\ MOSI = 0
  /\ start = FALSE /\ send_start = FALSE /\ send_over = FALSE
  /\ byte_interval = FALSE
  /\ cs_hi_cnt = 0 /\ sck_start_cnt = 0
  /\ sck_cnt = 0 /\ bit_cnt = 0 /\ byte_cnt = 0 /\ interval_cnt = 0
  /\ txd_data = 0
  /\ got = <<>> /\ last = "none"

StartNow == sck_start_cnt = SCK_START_DLY
BitEnd == sck_cnt = SCK_PERIOD
ByteEnd == bit_cnt = 7 /\ BitEnd
IntervalEnd == interval_cnt = BYTE_INTERVAL

ChipSelect ==
  /\ CS_N' = IF cs_hi_cnt = CS_HI THEN 0 ELSE IF send_over THEN 1 ELSE CS_N
  /\ cs_hi_cnt' = IF CS_N = 1 THEN (cs_hi_cnt + 1) % 1024 ELSE 0

(* Mutant: start is not cleared at the end of a frame.                     *)
StartDelay_KeepsStart ==
  /\ start' = (StartNow \/ start)
  /\ sck_start_cnt' =
       IF CS_N = 0 /\ ~start THEN (sck_start_cnt + 1) % 1024 ELSE 0
StartDelay ==
  /\ start' = (StartNow \/ (start /\ ~send_over))
  /\ sck_start_cnt' =
       IF CS_N = 0 /\ ~start THEN (sck_start_cnt + 1) % 1024 ELSE 0

(* Mutant: another byte is begun after the last.                           *)
SendEnable_NoBound ==
  send_start' = \/ StartNow
                \/ IntervalEnd
                \/ send_start /\ ~ByteEnd
SendEnable ==
  send_start' = \/ StartNow
                \/ IntervalEnd /\ byte_cnt < BYTE_SEND_NUM
                \/ send_start /\ ~ByteEnd

(* Mutant: the frame ends one byte early.                                  *)
FrameEnd_Early ==
  send_over' = \/ byte_cnt = BYTE_SEND_NUM - 1 /\ IntervalEnd
               \/ send_over /\ CS_N = 0
FrameEnd ==
  send_over' = \/ byte_cnt = BYTE_SEND_NUM /\ IntervalEnd
               \/ send_over /\ CS_N = 0

BitClock ==
  /\ SCK' = IF ~send_start THEN SCK
            ELSE IF sck_cnt < SCK_LO THEN 0
            ELSE IF sck_cnt < SCK_PERIOD THEN 1
            ELSE IF bit_cnt < 7 THEN 0 ELSE SCK
  /\ sck_cnt' = IF ~send_start THEN 0
                ELSE IF sck_cnt < SCK_PERIOD THEN sck_cnt + 1 ELSE 1

BitCount ==
  bit_cnt' = IF BitEnd THEN (bit_cnt + 1) % 16
             ELSE IF IntervalEnd THEN 0 ELSE bit_cnt

(* Mutant: the byte count is not cleared after a frame.                    *)
ByteCount_NoClear ==
  byte_cnt' = IF ByteEnd THEN (byte_cnt + 1) % 256 ELSE byte_cnt
ByteCount ==
  byte_cnt' = IF ByteEnd THEN (byte_cnt + 1) % 256
              ELSE IF send_over THEN 0 ELSE byte_cnt

Interval ==
  /\ byte_interval' = (bit_cnt = 8 /\ interval_cnt < BYTE_INTERVAL)
  /\ interval_cnt' = IF byte_interval THEN (interval_cnt + 1) % 256 ELSE 0

Bit(byte, i) == (byte \div 2^i) % 2

(* Mutant: the first bit is put out before the byte begins.                *)
ShiftOut_Early ==
  MOSI' = IF ~send_start THEN Bit(txd_data, 7)
          ELSE IF BitEnd /\ bit_cnt <= 6 THEN Bit(txd_data, 6 - bit_cnt)
          ELSE MOSI
ShiftOut ==
  MOSI' = IF ~send_start THEN MOSI
          ELSE IF sck_cnt = 0 THEN Bit(txd_data, 7)
          ELSE IF BitEnd /\ bit_cnt <= 6 THEN Bit(txd_data, 6 - bit_cnt)
          ELSE MOSI

LoadByte ==
  txd_data' = IF ~send_start /\ byte_cnt < Len(Table) THEN Table[byte_cnt + 1]
              ELSE txd_data

(* The slave samples the level MOSI had before the rising edge.            *)
SlaveSamples ==
  /\ got' = IF CS_N' = 1 THEN <<>>
            ELSE IF SCK = 0 /\ SCK' = 1 THEN Append(got, MOSI) ELSE got
  /\ last' = IF CS_N = 0 /\ CS_N' = 1 THEN "complete" ELSE last

Clk ==
  /\ ChipSelect /\ StartDelay /\ SendEnable /\ FrameEnd
  /\ BitClock /\ BitCount /\ ByteCount /\ Interval
  /\ LoadByte /\ ShiftOut
  /\ SlaveSamples

Reset ==
  /\ CS_N' = 1 /\ SCK' = 1 /\ MOSI' = 0
  /\ start' = FALSE /\ send_start' = FALSE /\ send_over' = FALSE
  /\ byte_interval' = FALSE
  /\ cs_hi_cnt' = 0 /\ sck_start_cnt' = 0
  /\ sck_cnt' = 0 /\ bit_cnt' = 0 /\ byte_cnt' = 0 /\ interval_cnt' = 0
  /\ txd_data' = 0
  /\ got' = <<>>
  /\ last' = IF CS_N = 0 THEN "broken off" ELSE last

Next == Clk \/ Reset

Spec == Init /\ [][Next]_vars

(* The clock runs.                                                         *)
FairSpec == Spec /\ WF_vars(Clk)

-----------------------------------------------------------------------------
(* Properties *)

(* Every register has its type; the counters stay at the values the        *)
(* comparisons expect and never run past them.                             *)
TypeOK ==
  /\ CS_N \in 0..1 /\ SCK \in 0..1 /\ MOSI \in 0..1
  /\ start \in BOOLEAN /\ send_start \in BOOLEAN
  /\ send_over \in BOOLEAN /\ byte_interval \in BOOLEAN
  /\ cs_hi_cnt \in 0..CS_HI + 1 /\ sck_start_cnt \in 0..SCK_START_DLY + 1
  /\ sck_cnt \in 0..SCK_PERIOD /\ bit_cnt \in 0..8
  /\ byte_cnt \in 0..BYTE_SEND_NUM /\ interval_cnt \in 0..BYTE_INTERVAL + 1
  /\ txd_data \in 0..255
  /\ got \in Seq(0..1) /\ last \in {"none", "complete", "broken off"}

(* The slave receives exactly the bytes of the table, most significant bit *)
(* first, in every frame that no reset breaks off: the five counters agree *)
(* on which bit is on the wire.                                            *)
FrameBits ==
  [i \in 1..8 * BYTE_SEND_NUM |->
    Bit(Table[(i - 1) \div 8 + 1], 7 - ((i - 1) % 8))]

Slave == INSTANCE SpiFrame WITH Frame <- FrameBits, selected <- (CS_N = 0)

ImplementsSpiFrame == Slave!Spec

(* SCK rests high whenever the slave is not selected, also right after the *)
(* last byte and after a reset.                                            *)
IdleClockHigh == CS_N = 1 => SCK = 1 /\ ~send_start

(* MOSI changes only together with a falling edge of SCK, so it is stable  *)
(* around the rising edge the slave samples at.                            *)
OutputOnFallingEdge == [][Clk /\ MOSI' # MOSI => SCK = 1 /\ SCK' = 0]_vars

(* Unless it is reset again and again, the master sends frame after frame. *)
SendsForEver ==
  <>[][~Reset]_vars => []<>(CS_N = 0) /\ []<>(CS_N = 1)

(* What the comment at the head of spi_interface.v says of its mode: data  *)
(* is put out on the rising edge and sampled on the falling edge.          *)
OutputOnRisingEdge == [][Clk /\ MOSI' # MOSI => SCK' = 1]_vars
=============================================================================
