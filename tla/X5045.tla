-------------------------------- MODULE X5045 --------------------------------
(***************************************************************************)
(* The X5045 EEPROM and its bit-banged driver (HARDWARE/wdt.c).  A call of *)
(* the driver is the list of what it still does on the wires: select the   *)
(* chip, shift a byte out or in, deselect, poll the status.                *)
(*                                                                         *)
(* Fct_ByteWrite and Fct_ByteRead run in a critical section, page_write    *)
(* and WDT_SetTime do not.  There a task of higher priority may make its   *)
(* own call on the same wires, and the tick interrupt may feed the         *)
(* hardware watchdog, which drives the same chip select.  A byte goes out  *)
(* in two halves, so that either may happen in the middle of one.          *)
(***************************************************************************)
EXTENDS Integers, Sequences

CONSTANTS
  Prios,      \* the priorities of the tasks that use the driver
  MaxPoll,    \* MAX_POLL: 0x99 in wdt.c
  Addrs,      \* the addresses the tasks use: 9 bits
  ByteData,   \* what they write with Fct_ByteWrite,
  PageData,   \* with page_write,
  Times,      \* and with WDT_SetTime
  CallMax     \* bound of the model on the calls

ASSUME PriosAssumption == Prios \subseteq Nat
ASSUME MaxPollAssumption == MaxPoll \in 0 .. 255
ASSUME AddrsAssumption == Addrs \subseteq 0 .. 511
ASSUME ByteDataAssumption == ByteData \in 0 .. 255
ASSUME PageDataAssumption == PageData \in Seq(0 .. 255) /\ Len(PageData) > 0
ASSUME TimesAssumption == Times \subseteq 0 .. 255
ASSUME CallMaxAssumption == CallMax \in Nat

VARIABLES
  call,       \* per task: the call it makes or has made last
  todo,       \* per task: what the call still does
  half,       \* per task: it is in the middle of a byte
  got,        \* per task: the last byte shifted in
  calls,      \* bounded by CallMax
  chip,       \* external: the interface of the chip, see Chip
  mem,        \* external: its cells
  wdTime,     \* external: the watchdog bits of its status register
  \* History, read by no guard:
  disturbed,  \* per task: someone came into the call
  cut,        \* a feed ended the transaction of a task
  mixed,      \* a task shifted into the transaction of another
  gaveUp      \* a poll ended with the chip still busy

taskVars == <<call, todo, half, got, calls>>
chipVars == <<chip, mem, wdTime>>
history == <<disturbed, cut, mixed, gaveUp>>
vars == <<taskVars, chipVars, history>>

WREN_INST == 6
WRSR_INST == 1
RDSR_INST == 5
WRITE_INST == 2
READ_INST == 3
Garbled == 999   \* a byte of two senders, or out of step with the sender

-----------------------------------------------------------------------------
(* The chip.  It counts bits while it is selected, and acts when it is     *)
(* deselected after whole bytes.  odd: it is in the middle of a byte.      *)

Cells == {a + i : a \in Addrs, i \in 0 .. Len(PageData) - 1}
Chip == [sel : BOOLEAN, odd : BOOLEAN, wel : BOOLEAN, busy : BOOLEAN,
         bytes : Seq(0 .. 255 \union {Garbled})]

Selected(c) ==
  IF c.sel THEN c ELSE [c EXCEPT !.sel = TRUE, !.odd = FALSE, !.bytes = <<>>]

Received(c, byte) == [c EXCEPT !.bytes = Append(c.bytes, byte)]

(* Half a byte arrives; b is the byte if this is its second half and the   *)
(* chip is in step with the sender.                                        *)
HalfByte(c, b) ==
  IF ~c.sel THEN c
  ELSE IF c.odd THEN [Received(c, b) EXCEPT !.odd = FALSE]
  ELSE [c EXCEPT !.odd = TRUE]

(* The address of an instruction: its bit 3 is bit 8 of the address.       *)
AddressOf(bytes) == bytes[2] + 256 * (bytes[1] \div 8)

Acts(c) == c.sel /\ ~c.odd /\ ~c.busy /\ Len(c.bytes) > 0
Latches(c) == Acts(c) /\ c.bytes = <<WREN_INST>>
SetsTime(c) == Acts(c) /\ c.wel /\ Len(c.bytes) = 2 /\ c.bytes[1] = WRSR_INST
Stores(c) ==
  /\ Acts(c) /\ c.wel
  /\ Len(c.bytes) > 2
  /\ c.bytes[1] \in {WRITE_INST, WRITE_INST + 8}

(* Chip select rises.                                                      *)
Deselect ==
  /\ chip' = [chip EXCEPT !.sel = FALSE, !.odd = FALSE, !.bytes = <<>>,
                          !.wel = chip.wel \/ Latches(chip),
                          !.busy = chip.busy \/ SetsTime(chip) \/ Stores(chip)]
  /\ wdTime' = IF SetsTime(chip) THEN chip.bytes[2] ELSE wdTime
  /\ mem' = IF Stores(chip)
            THEN [a \in Cells |->
                    LET i == a - AddressOf(chip.bytes)
                    IN IF i \in 0 .. Len(chip.bytes) - 3
                       THEN chip.bytes[i + 3] ELSE mem[a]]
            ELSE mem

(* A write ends, after a time the driver can only poll for.                *)
WriteEnds ==
  /\ chip.busy
  /\ chip' = [chip EXCEPT !.busy = FALSE, !.wel = FALSE]
  /\ UNCHANGED <<mem, wdTime, taskVars, history>>

(* What can be read from the chip: its status, a cell, or, when it is not  *)
(* selected or not in step, whatever is on the line.                       *)
Output(c) ==
  IF c.sel /\ ~c.odd /\ c.bytes = <<RDSR_INST>>
  THEN {IF c.busy THEN 1 ELSE 0}
  ELSE IF /\ Acts(c) /\ Len(c.bytes) = 2
          /\ c.bytes[1] \in {READ_INST, READ_INST + 8}
          /\ AddressOf(c.bytes) \in Cells
  THEN {mem[AddressOf(c.bytes)]}
  ELSE {0, 1}

-----------------------------------------------------------------------------
(* What the calls of the driver do on the wires.                           *)

Out(byte) == <<"out", byte>>
Transaction(bytes) ==
  <<<<"select", 0>>>> \o [i \in 1 .. Len(bytes) |-> Out(bytes[i])]
    \o <<<<"deselect", 0>>>>

wren_cmd == Transaction(<<WREN_INST>>)
wip_poll == <<<<"poll", MaxPoll>>>>

(* Mutant: the count of the polls starts again with each of them.          *)
rdsr_cmd_NoCount(polls) ==
  <<<<"select", 0>>, Out(RDSR_INST), <<"in", 0>>, <<"deselect", 0>>,
    <<"check", MaxPoll>>>>

rdsr_cmd(polls) ==
  <<<<"select", 0>>, Out(RDSR_INST), <<"in", 0>>, <<"deselect", 0>>,
    <<"check", polls>>>>

(* Mutants of the next: bit 8 is lost; it stays in the address too.        *)
Addressed_NoBit8(inst, a) == <<inst, a % 256>>
Addressed_Uncut(inst, a) == IF a >= 256 THEN <<inst + 8, a>> ELSE <<inst, a>>

(* An instruction and its address: bit 8 goes into the instruction.        *)
Addressed(inst, a) ==
  IF a >= 256 THEN <<inst + 8, a - 256>> ELSE <<inst, a>>

(* Mutants: no poll at the end; the write is not enabled first.            *)
Fct_ByteWrite_NoPoll(a) ==
  wren_cmd \o Transaction(Append(Addressed(WRITE_INST, a), ByteData))
Fct_ByteWrite_NoEnable(a) ==
  Transaction(Append(Addressed(WRITE_INST, a), ByteData)) \o wip_poll

Fct_ByteWrite(a) ==
  wren_cmd \o Transaction(Append(Addressed(WRITE_INST, a), ByteData))
    \o wip_poll

Fct_ByteRead(a) ==
  <<<<"select", 0>>>>
    \o [i \in 1 .. 2 |-> Out(Addressed(READ_INST, a)[i])]
    \o <<<<"in", 0>>, <<"deselect", 0>>>>

page_write(a) ==
  wren_cmd \o Transaction(Addressed(WRITE_INST, a) \o PageData) \o wip_poll

(* A time that is none of the four periods disables the watchdog.          *)
Periods == {0, 16, 32, 48}
Period_NoDefault(time) == time   \* Mutant: it goes out as it is
Period(time) == IF time \in Periods THEN time ELSE 48
WDT_SetTime(time) ==
  wren_cmd \o Transaction(<<WRSR_INST, Period(time)>>) \o wip_poll
    \o <<<<"deselect", 0>>>> \o wip_poll

Steps(op, x) ==
  CASE op = "Fct_ByteWrite" -> Fct_ByteWrite(x)
    [] op = "Fct_ByteRead" -> Fct_ByteRead(x)
    [] op = "page_write" -> page_write(x)
    [] op = "WDT_SetTime" -> WDT_SetTime(x)

Ops == {"Fct_ByteWrite", "Fct_ByteRead", "page_write", "WDT_SetTime"}
Arguments(op) == IF op = "WDT_SetTime" THEN Times ELSE Addrs

-----------------------------------------------------------------------------
(* Tasks, by priority: a task runs while none of higher priority is in a   *)
(* call, and nobody else runs while it is in a critical section.           *)

InCall(t) == todo[t] # <<>>
InCritical(t) == InCall(t) /\ call[t].op \in {"Fct_ByteWrite", "Fct_ByteRead"}
Runs(t) == InCall(t) /\ \A u \in Prios : u < t => ~InCall(u)
MayBegin(t) ==
  /\ \A u \in Prios : u <= t => ~InCall(u)
  /\ \A u \in Prios : ~InCritical(u)

Init ==
  /\ call = [t \in Prios |-> [op |-> "none", x |-> 0]]
  /\ todo = [t \in Prios |-> <<>>]
  /\ half = [t \in Prios |-> FALSE]
  /\ got = [t \in Prios |-> 0]
  /\ calls = 0
  /\ chip = [sel |-> FALSE, odd |-> FALSE, wel |-> FALSE, busy |-> FALSE,
             bytes |-> <<>>]
  /\ mem = [a \in Cells |-> 255]
  /\ wdTime = 0
  /\ disturbed = [t \in Prios |-> FALSE]
  /\ cut = FALSE
  /\ mixed = FALSE
  /\ gaveUp = FALSE

(* A task calls the driver.  A write disturbs the calls it comes into.     *)
Begin(t, op, x) ==
  /\ MayBegin(t)
  /\ calls < CallMax
  /\ calls' = calls + 1
  /\ call' = [call EXCEPT ![t] = [op |-> op, x |-> x]]
  /\ todo' = [todo EXCEPT ![t] = Steps(op, x)]
  /\ disturbed' = [u \in Prios |->
                     IF u = t THEN chip.busy
                     ELSE disturbed[u] \/ (InCall(u) /\ op # "Fct_ByteRead")]
  /\ UNCHANGED <<half, got, chipVars, cut, mixed, gaveUp>>

Head1(t, what) == Runs(t) /\ Head(todo[t])[1] = what
Proceed(t, rest) == todo' = [todo EXCEPT ![t] = rest \o Tail(todo[t])]

Select(t) ==
  /\ Head1(t, "select")
  /\ chip' = Selected(chip)
  /\ mixed' = (mixed \/ chip.sel)
  /\ disturbed' = [u \in Prios |-> disturbed[u] \/ (InCall(u) /\ chip.sel)]
  /\ Proceed(t, <<>>)
  /\ UNCHANGED <<call, half, got, calls, mem, wdTime, cut, gaveUp>>

(* outbyte, in two halves.                                                 *)
outbyte(t) ==
  /\ Head1(t, "out")
  /\ IF half[t]
     THEN /\ chip' = HalfByte(chip, Head(todo[t])[2])
          /\ Proceed(t, <<>>)
     ELSE /\ chip' = HalfByte(chip, Garbled)
          /\ UNCHANGED todo
  /\ half' = [half EXCEPT ![t] = ~half[t]]
  /\ UNCHANGED <<call, got, calls, mem, wdTime, history>>

(* inputbyte: the data line out is low meanwhile.                          *)
inputbyte(t) ==
  /\ Head1(t, "in")
  /\ \E byte \in Output(chip) : got' = [got EXCEPT ![t] = byte]
  /\ chip' = IF ~chip.sel THEN chip
             ELSE Received(chip, IF chip.odd THEN Garbled ELSE 0)
  /\ Proceed(t, <<>>)
  /\ UNCHANGED <<call, half, calls, mem, wdTime, history>>

ChipSelectHigh(t) ==
  /\ Head1(t, "deselect")
  /\ Deselect
  /\ Proceed(t, <<>>)
  /\ UNCHANGED <<call, half, got, calls, history>>

(* wip_poll reads the status until it is not busy, or gives up and says    *)
(* nothing.                                                                *)
Poll(t) ==
  /\ \/ /\ Head1(t, "poll")
        /\ Proceed(t, LET polls == Head(todo[t])[2]
                      IN IF polls = 0 THEN <<>> ELSE rdsr_cmd(polls - 1))
        /\ gaveUp' = (gaveUp \/ (Head(todo[t])[2] = 0 /\ chip.busy))
     \/ /\ Head1(t, "check")
        /\ Proceed(t, IF got[t] % 2 = 0 THEN <<>>
                      ELSE <<<<"poll", Head(todo[t])[2]>>>>)
        /\ UNCHANGED gaveUp
  /\ UNCHANGED <<call, half, got, calls, chipVars, disturbed, cut, mixed>>

(* The tick interrupt: SoftWdtISR feeds the hardware watchdog.             *)
WDT_FeedDog ==
  /\ \A t \in Prios : ~InCritical(t)
  /\ Deselect
  /\ cut' = (cut \/ chip.sel)
  /\ disturbed' = [t \in Prios |-> disturbed[t] \/ (InCall(t) /\ chip.sel)]
  /\ UNCHANGED <<taskVars, mixed, gaveUp>>

TaskStep(t) ==
  Select(t) \/ outbyte(t) \/ inputbyte(t) \/ ChipSelectHigh(t) \/ Poll(t)

Next ==
  \/ \E t \in Prios : \/ TaskStep(t)
                      \/ \E op \in Ops : \E x \in Arguments(op) :
                           Begin(t, op, x)
  \/ WDT_FeedDog
  \/ WriteEnds

Spec == Init /\ [][Next]_vars

(* The processor goes on with the task it runs.  Nothing is asked of the   *)
(* chip: a write may never end.                                            *)
FairSpec == Spec /\ \A t \in Prios : WF_vars(TaskStep(t))

-----------------------------------------------------------------------------
(* Properties.                                                             *)

ItemKinds == {"select", "out", "in", "deselect", "poll", "check"}
Bytes == 0 .. 255 \union {Garbled}

X5045TypeOK ==
  /\ call \in [Prios -> [op : Ops \union {"none"}, x : 0 .. 511]]
  /\ todo \in [Prios -> Seq(ItemKinds \X (0 .. 511))]
  /\ half \in [Prios -> BOOLEAN]
  /\ got \in [Prios -> Bytes]
  /\ calls \in 0 .. CallMax
  /\ chip \in Chip
  /\ mem \in [Cells -> Bytes]
  /\ wdTime \in Bytes
  /\ disturbed \in [Prios -> BOOLEAN]
  /\ {cut, mixed, gaveUp} \subseteq BOOLEAN

(* What a call is for has happened.                                        *)
Done(t) ==
  LET op == call[t].op
      x == call[t].x
  IN CASE op = "Fct_ByteWrite" -> mem[x] = ByteData
       [] op = "Fct_ByteRead" -> got[t] = mem[x]
       [] op = "page_write" ->
            \A i \in 1 .. Len(PageData) : mem[x + i - 1] = PageData[i]
       [] op = "WDT_SetTime" -> wdTime = Period(x)

(* When a call returns, what it is for has happened, unless the chip was   *)
(* still busy when it began, another call wrote in the middle of it, or it *)
(* shared one selection of the chip with another call or with a feed.  A   *)
(* feed or a read between two transactions of the call does no harm.       *)
DoneUnlessDisturbed ==
  [][\A t \in Prios :
       InCall(t) /\ ~InCall(t)' => Done(t)' \/ disturbed'[t]]_vars

(* A busy chip has a poll to come, unless a poll gave up, or was blinded   *)
(* because it shared a selection.                                          *)
BusyIsPolled ==
  chip.busy /\ ~(gaveUp \/ cut \/ mixed) =>
    \E t \in Prios : \E i \in DOMAIN todo[t] : todo[t][i][1] \in {"poll", "check"}

(* A feed that cuts a page write may leave it short, but no cell ever      *)
(* holds a byte that was not meant for it; that takes a second task in the *)
(* middle of the transaction.                                              *)
MeantFor(a) ==
  {255} \union (IF a \in Addrs THEN {ByteData} ELSE {})
    \union {PageData[i] : i \in {j \in 1 .. Len(PageData) : a - j + 1 \in Addrs}}
NoForeignByte == ~mixed => \A a \in Cells : mem[a] \in MeantFor(a)

(* The watchdog only ever gets one of the four periods, and one that some  *)
(* call asks for: a write that a feed cuts leaves the period it was.       *)
NoForeignPeriod ==
  [][wdTime' # wdTime /\ ~mixed =>
       wdTime' \in Periods /\ \E x \in Times : wdTime' = Period(x)]_vars

(* Every call returns, also when the chip stays busy for ever.             *)
CallsReturn == \A t \in Prios : InCall(t) ~> ~InCall(t)
=============================================================================
