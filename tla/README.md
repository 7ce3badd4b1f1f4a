# A verification project for ARM_FPGA_SPI

The repository is the firmware of a small board: an AT91 ARM processor under
uC/OS-II with uC/TCP-IP, a BU-61580 terminal on a MIL-STD-1553 bus, an X5045
EEPROM with a hardware watchdog, and an FPGA with an SPI master and a test
path. A bus controller sends motor commands over the 1553 bus; the processor
turns each into a 12-byte message and sends it to a motor server over TCP.

The modules here model the parts that carry the program's own logic, TLC checks
them on small instances, and TLAPS proves the main safety properties for every
value of the constants. The sources are in GBK (the Verilog in UTF-8); line
numbers below are those of the files as they are.

## 1. Inventory

| Part | Source | State | Operations | Hard behaviour |
|---|---|---|---|---|
| motor command channel | `apps/at_task.c` 167-361, `HARDWARE/Irq.c` 118-194 | semaphore, `Stkptr`, `motor_cmd`, socket id | RTInit, AtTCPSendTask, TCPConnect, TcpPackageSend, RT_Handler | device, interrupt and task interleave at every bus access; tokens are dropped; two stack pointers; a send loop without exit |
| BU-61580 | external; `include/bu61580.h` | command stack, data blocks, interrupt status | end of message, reset, read status | stores messages while the task reads them |
| counting semaphore | `uCOS-II/Source/os_sem.c` | count, wait list | create, pend, post | handover, overflow |
| sockets | `uC-TCPIP/Source/net_sock.c` | state of each socket of the pool | open, connect, send, close, abort from below | every call may fail; id of a closed socket stays with the task |
| software watchdog | `HARDWARE/wdt.c` 384-492 | per task limit, timer, two feed counts, state; one stop flag | init, feed, suspend, run, tick hook | 8- and 16-bit wraps, init without critical section, tick in between |
| X5045 driver | `HARDWARE/wdt.c` 80-375 | pins, EEPROM | byte read and write, page write, set time, feed | feed toggles the chip select of an open transaction; two of the four calls have no critical section; a poll gives up silently |
| network configuration server | `apps/at_task.c` 364-654 | listening and request sockets, idle count, state | open, bind, listen, accept, receive, dispatch, close | an error path from every call; closes for good after one client |
| accept queue | `net_sock.c` 1790-1846, 9061-9658; `net_conn.c`, `net_tcp.c` where they call it | ring of connection ids, semaphore | initialise, add, get, search, remove, clear | connections come and abort while the server waits; full and empty ring look alike to the search; a timeout races a post |
| error log | `apps/at_err.c` | ring of 1024 codes | init, write | no critical section: a task of higher priority comes in between store, increment and wrap |
| 1553 address and mode set-up | `apps/at_task.c` 86-157, 714-1029 | pins, registers | BCInit, RTAddr_Config | parity of the address |
| FPGA SPI master | `Verilog_code/spi_interface.v` | five counters, four flags, three outputs | one clock, one reset | counters that must agree to the clock |
| FPGA test transmitter | `send_test.v` | state machine, seven counters, a RAM | one clock, one reset | a clocked block with blocking assignment, so the order of evaluation matters; no handshake between writing and reading the RAM |
| FPGA test receiver | `rec_test.v`, `RAM.v` | state machine, a memory | one clock | instantiated nowhere |
| timers, exceptions, pins, ARM SPI | `HARDWARE/*.c` | registers | register access | conversions of widths |
| test clients | `TCPTest.c` | sockets | five equal loops | as the command channel; never created |
| uC/OS-II, uC/TCP-IP, at91lib, Altera modules | vendored | | | used, not modelled, except for the calls above |

How they interact: the 1553 device pulses IRQ1; `RT_Handler` reads and clears
the device's interrupt status and posts `AtTask_TCPSend_SignalPtr`;
`AtTCPSendTask` pends on it, reads the device's memory through `Stkptr`, and
calls the socket layer. The software watchdog would be fed by the tasks and
looked at by the tick hook; in the present build the hook and the feeding calls
are commented out (`wdt.c` 493-498), and only the initialisation is called
(`at_task.c` 82). The hook feeds the X5045 through the chip select that the
EEPROM driver uses as well. The configuration server takes its sockets and
connections from the same pools as the command channel's task, which has the
higher priority and may interrupt it anywhere, also while it writes the error
log. The FPGA shares no state with the processor. There is no
`main.c` in the repository; the models take interrupts to be enabled where
`at_task.c` 303 enables them.

What would make each part correct: a token stands for a message, and none is
doubled or lost unseen; the words decoded are those of one message and of the
right one; the last command stands; no socket is left behind; a connection the
stack has accepted is offered to the server, and nothing else is; an address
asked for, 0 excepted, is the one on the pins; a call of the EEPROM driver does what it is
for, or was disturbed; a hanging task gets the board reset, and no other does;
the SPI slave gets the frame bit for bit; the test frame is in the RAM before
it is read.

## 2. Modules

| Module | What it is |
|---|---|
| `OSSem` | the semaphore calls as operators on `OSEventCnt` and `OSEventGrp` |
| `BU61580` | the terminal: command stack, receive double buffer, interrupt status, latched edge |
| `NetSock` | the socket calls as operators on the state of each socket |
| `AtTCPSend` | the command channel: composes the three with the handler, the task and the bus |
| `Signal` | abstract specification of a signalling channel, implemented by `AtTCPSend` |
| `MCAtTCPSend` | command sets for TLC |
| `AtTCPSend_proofs`, `AtTCPSendData_proofs` | theorems about `AtTCPSend`: its control, and the data it decodes |
| `SoftWdt`, `MCSoftWdt`, `SoftWdt_proofs` | the software watchdog, its instances, its theorems |
| `AcceptQ` | the accept queue of a listening socket as operators on a record |
| `RTAddr` | the table of the address pins and what a terminal reads from them |
| `NetServer` | the configuration server: composes `NetSock`, `OSSem`, `AcceptQ` and `RTAddr` with the stack, the tick, the sender task and the error log |
| `MCNetServer`, `NetServer_proofs` | its instance and its theorems |
| `X5045`, `MCX5045` | the EEPROM driver of two tasks, the feeding tick and the chip, and its instance |
| `X5045Script_proofs`, `X5045_proofs` | lemmas about what a call does on the wires; theorems about `X5045` |
| `SpiFrame` | abstract specification: one frame, bit by bit, to a selected slave |
| `SpiMaster`, `MCSpiMaster`, `SpiMaster_proofs` | the SPI master, the parameters and table of the source, its theorems |
| `SendTest`, `MCSendTest`, `SendTest_proofs` | the test transmitter with its RAM, its instance, its theorems |

### AtTCPSend

`pc` names the place of the task; a step of the task is what happens between
two places where an interrupt or the device can come in: every kernel call,
every socket call, the read of the descriptor (`ReadDesc`, line 324), each of
the three data words (`ReadData`, 326-328), the decoding, and the assignment to
`OSEventCnt` (`Flush`, 348). `isr` names the place of the handler: entered
through the AIC, which drops the latched edge (`IsrEnter`), and reading the
status register and posting (`RT_Handler`); no step of the task falls in
between, but the device goes on. `Stkptr` and the device's pointer count
descriptors of four words: `(Stkptr + 8) % 256` in bytes is `+ 1` modulo
`SwSlots` = 32, and the device's 256 words are `HwSlots` = 64.

The bus delivers any receive or transmit message at any time once RTInit has
run. Device and processor may start separately, so the device's stack pointer
and receive buffer are anywhere before RTInit. Data words are those of a
command set; only the values the code compares with matter.

History variables (`nMsg`, `stamp`, `slotStamp`, `readStamp`, `nDone`, `lost`,
`txSeen`) number the messages and follow them through device memory into the
words the task has read. No guard reads them, except for the bound `MaxMsg`.

A socket call that blocks is one step (why that is sound is said under
NetServer); the states `CONN_IN_PROGRESS`, `CONN_DONE`, `CLOSE_IN_PROGRESS` and
`CLOSING_DATA_AVAIL`, which stand only inside one, are left out. Every outcome of
`net_sock.c` that the caller can tell apart is one: open may fail, connect may succeed, or fail
leaving the socket bound, faulted or as it was, a send takes all, takes part,
or returns -1, and the peer or the network may abort a connection at any time.
The 100 ms delays are left out: every action is already allowed to wait.

### SoftWdt

One action per call. Calls in a critical section and the tick hook are one
step; the three assignments of `SoftWdtInit` (409-411) are three, with the
local `osTick` in between. Times and counts have the widths `TickMod` and
`CountMod` (2^16 and 2^8 in the source), and the conversion from milliseconds
is done modulo `IntMod` (2^32). The hardware watchdog is external: not fed for
`HwTicks` ticks it resets the board, and start-up clears everything. `requested`,
`hungry` and `fedSince` are history: what was asked for, how many checks a dog
has gone without food, and whether it was fed since the last check.

### SpiMaster

The always blocks of `spi_interface.v` are the conjuncts of the one action
`Clk`: nonblocking assignments all see the registers before the edge, as primed
and unprimed variables do. `Reset` is the asynchronous reset and may come at any
clock. The slave (external) samples MOSI on the rising edge of SCK while it is
selected; `got` is what it has. `MISO` and `txd_state` are never used by the
module and are left out, as is the receiver, which is commented out.

### NetServer, AcceptQ, RTAddr

`at` names the place of the server in `AtNetConfigServerStart`. Every call into
uC/TCP-IP takes the network lock. Four give it back while they wait:
`NetSock_Accept`, `NetSock_Conn`, `NetSock_RxData`, and `NetSock_Close` of a socket
that listens or is connected; so do the waits for the receive and transmit queues
of TCP below them. `NetSock_Accept` is three steps, because the wait list and the semaphore it
waits with are shared with the stack: the pend
(`AcceptPend`), the return from it with a token or after the timeout
(`AcceptSignalled`, `AcceptTimesOut`), and taking the oldest connection
(`AcceptNoneAvail`, `AcceptFails`, `AcceptSucceeds`). A timeout is two steps, the
tick that ends the wait and the task that finds out, and a post may come in
between. The other calls are one step although others run while they wait: the
socket has one user, and every step of another that falls into the wait is
possible, with the same effect, right before or right after it. A receive
(`RxData`, `RxEmpty`, `RxFails`) is placed where it returns, so that what arrives
or aborts meanwhile comes first and decides the outcome. A close (`CloseSocket`)
is placed where the state becomes `CLOSE_IN_PROGRESS`: from there on the socket
takes no connection and no data, an abort of its connection changes nothing for
its user, and that its place in the pool is not free for another second is one
of the cases in which an open or an accept fails, which is possible anyway.
Sockets and connections are objects of two pools that name each other
(`sockConn`, `connApp`, `connClone`), as `NET_SOCK` and `NET_CONN` do. The stack's
own actions are `SynArrives`, `HandshakeDone`, `Abort` and `Drain`; each changes
the connection, its socket and the queue in one step, as the code does under the
lock.

`AcceptQ` has one operator for each `NetSock_ConnAcceptQ_*` function. `Srch` keeps
the test that ends the walk, `head = tail`, before the test for the id.

`AtErrLogWrite` is five steps of the server; the sender task, which has the
higher priority and is not interrupted by the server, makes a whole write at
once, at any time. Once the index has left the log nothing resets it;
`ErrBound` caps it in the model. `senderSock` and the sender's connection stand
for the command channel: which sockets it holds, and nothing else of it.

`RTAddr` keeps the table of `RTAddr_Config` case by case, as sets of pins.

### X5045

A call of the driver is the list of what it still does on the wires: select,
bytes out and in, deselect, poll. A byte out is two steps so that the tick or a
task of higher priority can come in the middle of one. Calls that run in a
critical section keep everyone else out. The chip (external) counts bits while
it is selected and acts when it is deselected after whole bytes; a write takes
an unknown time. `WDT_FeedDog` is taken from the tick interrupt, where
`SoftWdtISR` calls it, although the comment at `wdt.c` 340 asks for the task of
lowest priority. From the tick it may come into an open transaction of a call
that has no critical section; from the task the comment asks for it could not,
for that task interrupts no other. `disturbed`, `cut`, `mixed` and `gaveUp` are history.

### SendTest

The always blocks of `send_test.v` on the main clock are the conjuncts of `Clk`.
The block that computes `fsm_ns` is clocked and uses a blocking assignment, so
a block that reads `fsm_ns` at the same edge sees the new value or the old one,
as the simulator or synthesiser orders them: `early` is the set of the four
readers that see the new one, chosen at the start and kept, and `Seen` is what a
reader sees. A word is its index in the frame, a nibble a pair of a word and a
place in it. The CRC generator is not in the repository and is external: `fed`
is what it was given. `Reset` leaves alone what the code does not reset, and
`fsm_ns` is judged once more with the reset (`Judgement`), or from `IDLE` if it is
held.

## 3. Runs

| Run | Shows | Bounds and why they are enough |
|---|---|---|
| `command_channel` | type invariant; `Accounting`, `InterruptPending`, `NoSleepOnToken` (no token or interrupt is lost or doubled unseen); `DescriptorOfItsMessage`, `ExactWhenKeepingUp`, `NeverOlder`, `LatestCommandStands` (which data the task decodes); `NoSocketLeak`, `StuckForEver`; `ImplementsSignal` | 5 messages, `SwSlots` 2 and `HwSlots` 4: both pointers wrap, the device overwrites a block it used before, and the two wraps part; `SemMax` 2 so that the semaphore overflows; two sockets, so that a leak could go unnoticed by the task; two commands that differ in every word, one of them stop |
| `command_channel_live` | `ServedOrLost` | 3 messages, `SemMax` 1, one socket: absorption, flush and overflow all happen, and the task may stay in a send for ever on a dead socket or on a live one |
| `stack_wrap` | `OwnDescriptor` is violated (finding) | the third descriptor is past the first wrap |
| `stop_wins` | `StopWins` is violated (finding) | stop, run, stop |
| `soft_wdt` | `FeedSeen`, `TimeIsRemaining`, `StopsExactlyWhenDue`, `HangIsReset` | two dogs (as many as the source has); counts modulo 3, so that feeding wraps between two ticks and meets the copy; timers modulo 3 with limits 0 (overflow of the conversion), 1 and 2 |
| `soft_wdt_width` | `RequestHonoured` is violated (finding) | a limit of one more than the timer holds |
| `spi_master` | `ImplementsSpiFrame`, `IdleClockHigh`, `OutputOnFallingEdge`, `SendsForEver` | none: the parameters and the table of the source, whole frames, a reset at any clock |
| `spi_mode` | `OutputOnRisingEdge` is violated (finding) | as above |
| `net_server` | type invariant; `EverySocketHasItsUser` (no leak, no theft); `TokenForEach`, `PendingIsQueued`, `StaleOnlyAfterFullRing` (queue, semaphore and connections agree); `ServesOneClient`; `LogLeftOnlyByRace`; `EveryAddressIsRead` | 2 sockets, so that the listener and one other exhaust the pool; 3 connections over a ring of 3, which therefore fills and wraps, and is asked for 4 so that the cap is used; a semaphore of 4, more than the ring; `IdleMax` 2; a log of 2 codes, with `ErrBound` 3 one past the index that no check catches; one address in the requests, all 31 in the property. Sockets and connections are symmetric. 3.6 million states |
| `accept_queue_full` | `QueueNamesPending` is violated (finding) | as above |
| `x5045` | type invariant; `DoneUnlessDisturbed`, `BusyIsPolled`, `NoForeignByte`, `NoForeignPeriod` (what calls, feeds and a second task leave in the chip); `CallsReturn` | two tasks, two calls, addresses 1 and 256 so that bit 8 is used, a page of 2 bytes, a time that is none of the four; 2 polls before giving up, instead of 153: one that is answered and one that is not. 690 thousand states |
| `send_test` | type invariant; `RamHoldsFrame`, `OddHalfSent`, `AnsweredAsCommented` | the constants of the source, all 16 orders of evaluation, one reset at any clock; only the period of the requests is scaled, from 125002 to 302 clocks, which is longer than a frame and even as the original. 1.1 million states |

`CHECK_DEADLOCK FALSE` stands in the configurations of the command channel only:
there the bus falls silent after `MaxMsg` messages and the task rightly waits
for ever.

Fairness. The command channel assumes weak fairness of the handler (an edge
that is latched is served) and of every step of the task but the send (it is the
only application task the build creates, `at_task.c` 656-690, it runs whenever it
is ready, and the waits inside open, connect and close have timeouts,
`net_cfg.h` 557-614). The send is under no fairness: its loop repeats on -1, which
a dead socket always returns and a live one for as long as its peer takes no
data, so the task may stay in it for ever, and `ServedOrLost` says so. Nothing
is assumed of the bus, of the sockets' results or of the network. The watchdog
assumes that the tick interrupt keeps coming and that the hardware watchdog
works, and nothing of the tasks, which may hang anywhere. The EEPROM driver
assumes that a task inside a call goes on while no other prevents it, and
nothing of the chip, whose write may never end. The server's run states no
liveness: nothing forces a client to come, and what happens after the first is
a safety property (`ServesOneClient`); the symmetry of its instance would not
allow a temporal one either. Nor does the transmitter's: every answer
there has a deadline (`AnsweredAsCommented`). The SPI master assumes
a running clock and, inside `SendsForEver`, that it is not reset for ever.

Every property of a passing run has a mutant: an operator ending in the name of
what is wrong with it, next to the definition it replaces, under which TLC finds
the property violated.

## 4. Findings

- `Stkptr` wraps after 256 bytes, the device's stack after 256 words
  (`at_task.c` 350, `bu61580.h` 83). From the 33rd message on the task serves a
  message with the descriptor of an earlier one. The receive double buffer
  hides this as long as the bus sends nothing but receive messages: the
  pointers in the stack alternate and the number of slots is even, so the old
  descriptor names the same block. `NeverOlder` checks exactly that.
- A stop command sets the semaphore's count to 0 but leaves the descriptors of
  the dropped tokens in the stack (`at_task.c` 348): after stop, run, stop the
  motor ends running.
- `SoftWdtInit` converts milliseconds in 32 bits and keeps 16 (`wdt.c` 408).
- The SPI mode is the opposite of what the comment says (`spi_interface.v` 15).
- A connection that is reset while the accept queue is full is not removed from
  it (`net_sock.c` 9537): the search stops at `head = tail`, which is also what a
  full ring looks like. The queue then names a connection that is free or
  already somebody else's. `StaleOnlyAfterFullRing` states that nothing else
  makes it do so.

More facts, which the runs state as properties that hold:

- A send on a socket that is not connected is repeated for ever (`StuckForEver`;
  loop at `at_task.c` 261). On a connected one it is repeated for as long as the
  transmit queue is full; messages are served or lost one by one unless the task
  stays in such a loop (`ServedOrLost`).
- Messages may be absorbed by a status bit that is still set, so tokens count
  interrupts and not messages (`Accounting`).
- The server serves one client and never listens again (`ServesOneClient`;
  `at_task.c` 645).
- The index of the error log leaves the log for good if the sender logs an error
  while the server is between its increment and its wrap, and only then
  (`LogLeftOnlyByRace`).
- A feed or a second task inside an open transaction of the EEPROM driver may
  leave a write undone or short. What it never does without a second task is
  put a byte or a period there that nobody asked for (`DoneUnlessDisturbed`,
  `NoForeignByte`, `NoForeignPeriod`).
- The transmitter sends one correct frame per request only if the blocks for
  `fsm_cs`, for the words and for the outputs are evaluated after `fsm_ns`. As
  registers they send nothing until a reset separates the two machines that
  then take turns (`AnsweredAsCommented`). The CRC takes one filler word before
  the first word of the frame (`RamHoldsFrame`, in `CrcNibble`).

## 5. Proofs

`AtTCPSend_proofs`, for every number of slots, sockets, commands and messages
and every limit of the semaphore, from the named assumptions of the modules
(numbers are positive, `SwSlots <= HwSlots`, commands are triples of naturals,
`NoSock` is no socket):

- The inductive invariant `IInv` is the type invariant with `Accounting`,
  `InterruptPending` and `NoSleepOnToken`, and three parts these need:
  `BootQuiet` (before RTInit nothing was delivered, posted or read),
  `StackFilled` (every descriptor the device has written since RTInit is a
  block and, while the device has not wrapped, carries the number of its
  message) and `StkptrFollows` (`Stkptr` never exceeds the number of consumed
  descriptors, and is that number until it wraps). `Accounting` is what
  bounds `nDone` by `nMsg`, hence puts the descriptor under `Stkptr` among
  those written, hence gives `ReadData` a pointer to read through: the type
  invariant is not inductive without the counting.
- `TypeCorrect`, `TokensBalance`, `NoLostInterrupt`, `NoLostWakeup` follow from
  it at once; `OwnDescriptorUntilWrap` from `StkptrFollows` and `StackFilled`.
- `Refinement`: each action of `AtTCPSend`, under `IInv`, is a step or a stutter
  of `Signal`.
- `DeadSocketHoldsTheTask` is an action property; `SocketsReturned` has a small
  invariant of its own about the socket table.

`AtTCPSendData_proofs` continues `AtTCPSend_proofs` with the data, under one more
hypothesis, `EvenRings`: both rings have an even number of slots, as the 32 and
64 of the source. `DInv` adds `StkptrParity` (`Stkptr` and the number of consumed
descriptors are of the same parity, wraps included) and, as long as the bus has
sent nothing but receive messages (`~txSeen`), `DoubleBuffer` (the block the
device will fill next follows from the number of the message) and `WordsOfTurn`
(the words read so far come from the block of the message in turn and are not
older than it). Parity is the whole reason why the wrong wrap of `Stkptr` is
harmless to the words: with `SwSlots` = 3 TLC finds `NeverOlder` violated.
From it `KeepingUpIsExact`, `WordsAreNeverOlder` and `LastCommandIsPassedOn`.

`SoftWdt_proofs`, for any set of dogs, any widths and any requests: `TypeCorrect`,
`NoFeedMissed` (with the count of 8 bits as any count of at least two values),
`TimerExact` and `StopExact`. The last needs the first starving dog of a tick,
which is the least element of a set of naturals.

`NetServer_proofs`, for every size of the pools, the ring, the semaphore and
the log, from the assumptions of the modules (each size is positive, the
placeholders name no object, requests are bytes). `IInv` is the type invariant
with `TokenForEach`, `EverySocketHasItsUser` and three parts they need:
`ServerState` (what the server's place says of its flags), `WaitsOnlyInAccept`
(only the server, and only in the pend, is in the wait list) and `LogIndex`
(below its size wherever the increment has not just happened, or past it for
good). From it `TypeCorrect`, `NoSocketLost`, `OneClient`, `TokensCoverQueue` and
`LogRace`. On top of it `QueueInv` says that head, tail and count of the ring
agree, that nothing is cloned for a listener that never listened, and, unless
`missed`, that the entries are distinct and pending. Its steps rest on lemmas
about the ring: slots of different entries differ (`SlotsDiffer`), and add, get
and remove do to the set of entries what their names say (`AddRing`, `GetRing`,
`RemoveRing`), the last only for a ring that is not full (`SrchFinds`): there the
proof and the finding meet. From it `NoneForgotten` and `StaleOnlyWhenFull`.

`SpiMaster_proofs`, for every table and every timing the widths of the counters
allow (`ClockAssumption`, `TableAssumption`; that a frame has at most 255 bytes is
needed, for `byte_cnt` has 8 bits). No register says which phase a frame is in;
the invariant names five (`Idle`, `Waiting`, `Shifting`, `Between`, `Over`) and
gives the place of every counter in each. One lemma per phase says where a
clock leads from it (`FromIdle` and so on). `ClockLevel`, `DataOnWire` and
`SlaveHas` then tie SCK, MOSI and the bits received to the counters. From them
`TypeCorrect`, `RestsWhenIdle`, `DataStable`, and `Refinement`: a clock is a
selection, a bit, the end of a frame, or nothing to the slave, and a reset
breaks the frame off.

`NetServer_proofs` also has `EveryRowIsRight`: each of the 31 rows of the pin
table, for the addresses 1 to 31, is read back as the address asked for, with
odd parity. The `switch` has no case for 0 and no `default`: after a request for
address 0 the old address stays on the pins.

`X5045_proofs`, for any priorities of the tasks, any addresses and data, any
non-empty page of bytes and any number of polls that `MaxPoll`, 8 bits, holds. The wires have no lock, so the argument
is about who owns a selection. The calls that are under way are nested: a task
of higher priority begins and ends its call inside the other's. `InvAt` gives
each call its stage: the next item of its script (`N`), where it is inside a
poll, if it is in one (`K`), and how many polls it has left (`P`);
`X5045Script_proofs` has the layout of the scripts and says which item comes next
in each stage. The innermost call that has begun is
the top; while its selection was not shared with another call nor cut by a
feed, what the chip has received in this selection is exactly what that call
has sent (`Sync`, `Heard`), and the chip is write-enabled, busy or holding new
data as the stage says (`Phase`). `Watched` says that a busy chip has a call that
will still poll. From it `TypeCorrect`, `NoByteAstray`, `WritesAreWaitedFor`,
`PeriodsAreAskedFor` and `CallsDoTheirWork`; the last holds although a call may
be interrupted anywhere outside its critical sections, because `mixed`, `cut` and
`gaveUp` name all that can come between.

`SendTest_proofs`: `TypeCorrect` for any sizes the counters hold. The other
theorems have hypotheses on the sizes. `Fits`: the RAM is as long as the frame
(144 = 14 + 4 * 30 + 10), the read-out takes half as many clocks (71 + 1 = 144 / 2),
and the period leaves time for a frame (30 + 144 + 71 + 6 <= 125000).
`Alternates`: the period is even and the preamble has more than one nibble. The
source's constants satisfy both, and so do those of the run. In the order of
the comments the machine follows its frame through nine phases (`Phases`), each
of which gives the place of every counter, the CRC made so far, and the part of
the frame that stands in the RAM; one lemma per phase says where a clock leads
(`FromIdle` and so on), and a reset leads to `InIdle` from anywhere. That a
request never comes within a frame is `Timely` with the count of the clocks that
each phase carries. From this `FrameIsRead` and `OddHalfGoesOut`. With registers
`Twins` says which of the two machines is at rest on odd and which on even
counts: requests come on the count of the one that is under way, which puts back
the counter the other would need. From both `RequestsAreAnswered`.

So every safety property of the passing runs is a theorem. Only model-checked
are the liveness properties `ServedOrLost`, `HangIsReset`, `SendsForEver` and
`CallsReturn`, which like ENABLED are out of the prover's reach, and the five
findings, which are counterexamples and have nothing to prove.

## 6. Not modelled

Of the 136 thousand lines of the repository all but some seven thousand are
vendored (uC/TCP-IP, uC/OS-II, the Atmel library) or generated (Altera modules). The
firmware's own logic is in `at_task.c`, `at_err.c`, `wdt.c`, `Irq.c` and three Verilog
files, and that is what the modules follow, with the parts of the kernel and
the stack it leans on. The share of all lines is therefore small, and would
stay small with everything of the firmware's own modelled.

- The vendored code below the calls: TCP segments and retransmission, buffers,
  ARP and IP, the interface driver, the kernel's scheduler. What the calls
  promise is in `NetSock`, `AcceptQ`, `NetServer` and `OSSem`; no code of this
  repository changes what is below.
- What the server's other requests write into the terminal's registers, and the
  configuration store; they are assignments of bytes from the request.
- `RTInit` by the server while the command channel runs: the present build
  creates the command channel and not the server, so the two are not composed,
  except for what `senderSock` stands for.
- A page write that crosses the end of a page of the X5045; the driver leaves it
  to its callers and has none.
- The half of the transmitter's read-out that is clocked with 250 MHz
  (`send_test.v` 111-131): the repository does not say how the two clocks relate.
  The receiver, its RAM and the input it decodes are connected nowhere.
- Delays, LEDs, and which code an error is logged with: no property depends on
  them.
- `Packet` in `AtTCPSendTask` is a null pointer (`at_task.c` 287, 305); the model
  takes what it points to as memory, as the target does.
- Timers, pins, exceptions, ARM SPI: straight-line register access. The test
  clients: the socket pattern of the command channel, never created.

## 7. Plan

1. The conversions of `timer.c` as operators with their widths.
2. The command channel and the server in one model, if the build ever creates
   both.
