# Verification of the Mimosa beam monitor readout

TLA+ models, TLC runs and TLAPS proofs for the firmware and the acquisition
software of this repository. Paths below are relative to the repository root
(`src/` in `PROJECT.json`).

## The system

A Mimosa26 pixel sensor streams frames into an FPGA (KC705). The firmware
finds the frames, tags them, buffers them in a FIFO and copies them to a host
over TCP when the host asks. The same TCP connection carries the host's
commands: registers, pulses, memory accesses. Python processes on the host
send the requests, receive into a ring of buffers, store and display.

```
 sensor ─ deserializer ─ data_mod ─ data FIFO ─┐
                                               ├─ control_interface ─ fifo32to8 ─ TCP ─┐
 JTAG tap ─ feeder ─ memories ─────────────────┤        ▲                              │
 I2C master ─ wr_bytes ─ tic ─ registers ──────┘        └── fifo8to32 ◄── TCP ◄────────┤
                                                                                       │
 host: CmdServer ─► command queue ─► SendWorker ──────────────────────────────────────►┤
       RecvWorker ◄── ring of 128 buffers ──► Storage, Dataprocess ─► Disper  ◄────────┘
```

### Inventory

| Component | State | Operations | Interacts with | Hard part | What makes it right |
|---|---|---|---|---|---|
| `control_interface.vhd` | state machine, 32 config registers, pulse, memory and FIFO counts, address, registered requests, output FIFO | one per command address, reset | command FIFO, output FIFO, data FIFO, JTAG memory, every register's user | every request is a cycle late and every flag a cycle behind; two other clock domains; reset clears only part of the state | commands once and in order, answers complete and in order, no word invented or lost, always returns for the next command |
| chip start timer, data FIFO (`top_KC705.vhd`) | CS0–CS2, `sFifoWrEn`, FIFO, frame counter, sign tags | start pulse, timeouts, word in, word out | control interface, data_mod, board inputs | reset of a FIFO another domain reads; pulses ignored while busy; full flag unused; tags crossing clocks | start never cuts a transfer; a frame reaches the FIFO whole or not at all; a strobe is reported once |
| `global_resetter.vhd` | R0–R4, counter | clock edge, button, lock lost | every reset and the clock manager | asynchronous branch that assigns no output; wrap of the counter | clock reset before global reset, global reset until locked |
| `jtag.vhd`, `jtag_tap.vhd` | feeder and tap state machines, two memories | host write, start, word exchange, host read | control interface memory port and pulse | handshake between two clocks; address multiplexer switched by `busy` | result word *n* is stored at address *n*; the program stops after its last word |
| `i2c_*.vhd` | 24-bit tick, two pending flags, byte sequencer, bit master | command pulse, ticks, bus bits | config registers, status register | bytes counted by edges of `busy`; command read at the tick, not at the pulse | each pulse one transaction; result belongs to the command |
| `sensor_deserializer.vhd`, `data_mod.vhd` | shift and frame state machines | bit, word, reset | data FIFO | loss of synchronisation, trusted length | header to trailer, in order; errors reported |
| `gig_eth.vhd` (own part) | 8→32 and 32→8 FIFOs | byte in, word out, word in, byte out | TCP core (not in the repository) | flow control lag of the core, byte alignment | no byte lost, words keep their boundaries |
| `command.c` encoders | – | one per command | control interface | memory count 0 | the words of the header comment |
| `daq_t.py` RecvWorker, SendWorker, CmdServer | `sign`, `num_now`, queue, stop flags | receive a buffer, request one, forward a command | socket, Storage, Dataprocess, `top.py` | processes without a common lock; flag used as a counter; stop order | every completed buffer is requested again; everyone stops |
| `storage_t.py`, `datap_t.py` | read index | write a buffer, parse a buffer | ring | being lapped; torn buffers | buffers stored once each, in order, untorn |
| `command.c` `data_cal` | parser state of one buffer, hit map | byte | Dataprocess | frames that straddle buffers | hits of a frame counted once, inside the map |
| slow control scripts | – | sequences of commands | socket | sleeps instead of handshakes | see the protocol conditions of a careful host below |

| `dataprocess_t.py`, `iodelayscan.py`, `client.py`, `mainpy.py` | the forerunners of parser and acquisition, the delay scan | – | socket, queue, sensor error flag | a queue that takes buffers by name; status read without a pause | see the runs below |

Left aside: the vendor's Ethernet MAC, generated cores, board design files,
test benches, offline file utilities and most of what the repository's own
`README.md` marks *discard*. `PROJECT.json` lists every part with its status
and every hazard with its line.

## Modules

| Module | What it is |
|---|---|
| `CommandWords` | the vocabulary: command words, register addresses, counting and wrapping, the words of an answer |
| `CommandServer` | the contract: what the control interface promises its host, one command at a time, no clock and no flags |
| `ControlInterface` | the clocked implementation: the state machine, its FIFOs and memory port, the chip start timer, host and sensor |
| `ControlInterfaceProofs` | the inductive invariant of `ControlInterface`, the theorems that follow from it, and the theorem that it implements `CommandServer` |
| `MCControlInterface` | small instances: command sets and symmetry |
| `DaqPipeline` | the acquisition processes of the host: receiver, sender, command server, storage, parser's loop, shutdown; the firmware and the client as their environment |
| `BufferStream` | what the acquisition promises: buffers asked for inside a window, received, and recorded in order; no index, flag or queue |
| `DaqPipelineProofs` | the inductive invariant of `DaqPipeline`, its theorems, and that it implements `BufferStream` |
| `MCDaqPipeline` | the processes `pattern_checking.py` starts |
| `SensorStream`, `MCSensorStream` | from the sensor's two lines to the data FIFO: deserializer, `data_mod`, start flag, frame counter, FIFO, chip start timer; frames and setups |
| `SensorStreamProofs` | its inductive invariant and theorems |
| `Jtag`, `MCJtag` | feeder and tap driver on their two clocks, the chip's TAP controller, the host; what a program means without clocks |
| `JtagProofs` | why driver and chip never part, and how long a program takes |
| `GlobalResetter`, `GlobalResetterProofs` | the reset circuit with button and clock manager; its theorems |
| `I2cScripts` | the slow control functions of `i2c_control.py` as command sequences |
| `I2cControl`, `MCI2cControl` | such a script, the registers, the scheduler `i2c_tic` and the chips on the bus |
| `I2cControlProofs` | why a script may sleep instead of being told, and what the slots run while they are prepared |
| `IodelayScan` | `iodelayscan.py` and the part of the board it talks to |
| `IodelayScanProofs` | why the average of the errors has a clean setting opposite to it |
| `HitParser`, `MCHitParser` | `data_cal` and its Python forerunner over a stream cut into buffers; what a sequence of words means |
| `LegacyReadout`, `MCLegacyReadout` | `client.py` and `mainpy.py` with their threads, processes and queue |
| `LegacyReadoutProofs` | the order of the buffers through that queue |

### How `ControlInterface` corresponds to the code

*State.* The signals and process variables of `control_interface.vhd` keep
their names. `CMD_FIFO_RDREQ`, `sFifoWrreq`, `sWea` and `sDataFIFOrdreq` are
the registered requests; `sFifoFull` and `DATA_FIFO_EMPTY` are the *flags*
`prog_full` and `prog_empty` as the state machine sees them, kept apart from
the contents `outFifo` and `dataFifo`. `sDataFifoCount`, `sMemLatch` and the
state `GET_CMD` are never used by the code and are left out.

*One action is one rising edge of the 60 MHz clock*, in the branch the state
machine is in. `Edge` performs what the requests registered at the edge before
ask of the FIFOs and the memory, and refreshes the flags from the contents
*before* this edge; `Drive` is the block of default assignments and what a
branch overrides. So a request reaches its FIFO one edge after it was decided,
on a flag that was already one edge old, as in the hardware.

*The other clock domains* interleave with the edges: `HostSend` (the Ethernet
side fills the command FIFO), `HostRecv` (the glue `wren = not empty and not
full` of the top level empties the output FIFO), `ChipStart`, `ChipStarted`,
`StreamOn` (the states of `chipStartTimer`), `SensorWord`. Any number of them
may happen between two edges, or none.

*The reset* is a level that begins and ends at any moment. `AssertReset`
assigns exactly what the asynchronous branch assigns; what it does not assign
(`sFifoWrreq`, `sDataFIFOrdreq`, `counterFIFO`, `sDataFifoHigh`) stays. The
data FIFO is not reset, so `ResetEdge` goes on popping it while the stale
request stands. The output FIFO refuses words for some edges after the reset
(`fifoBusy`, ended by `FifoReady`); the first edge is always among them.

*Data.* Register words have width `W` (2^16 in the code) and wrap; a 32-bit
quantity is a pair. An answer word carries what the host tells apart by
position: the source and the register value, the memory cell or the sensor
word. Status registers are inputs: any value of `StatusWords`.

*External parts*, modelled from how they are instantiated and configured: the
FIFO cores (depths, thresholds and first-word-fall-through from their `.xci`
files), and the JTAG memory, which from here is a store that is written at one
port and read at another.

*The host.* With `Careful = FALSE` it sends any command of the run at any
time. With `Careful = TRUE` it keeps three conditions (`HostMaySend`), which
every script under `Software/util` keeps: it starts a memory read only with
nothing under way, never for zero words, and leaves at most `RegSlots`
register answers uncollected. Outside them the code gives no guarantee (see
*Where code and comments part*). The runs use `TRUE`; the theorems hold for
both, except `Refinement`, which is about a careful host.

### The contract

`CommandServer` has a queue of commands, the command being executed with what
it still *owes*, the sensor stream, the answers not yet received and the
registers. Executing a command is: take it from the queue (`BeginRead`,
`BeginTransfer`, `BeginStore`, `Write`), then pay what is owed one word at a
time (`Answer`, `ReadCell`, `CopyWord`, `Store`); the next command begins only
when nothing is owed. A chip start empties the stream only between commands. A
reset forgets queue, debt and answers and, while it lasts, may lose sensor
words.

`KeepsContract` is `CommandServer!Spec` under the mapping of `ControlInterface`
(`Executing`): a word requested of a FIFO is owed until the edge that moves
it, and the memory address counts as advanced from that edge on. The mapping is
what makes the pipeline disappear: every edge is one contract step or a stutter.

### How `DaqPipeline` corresponds to the code

*State.* The shared values `data` (here `ring`), `num_now`, `sign`, the five
stop flags and the command queue; the locals `nseq`, `readnum`, `num`
(`procNum`), `num_pre` that live across a loop; a program counter per process.
A buffer's content is the number of the buffer received into it, `Torn` while
it is being received, or `Blank`. `received`, `stored`, `seen` and `asked` are
history counters: no action's guard reads `stored`, `seen` or `asked`.

*Actions.* The processes share no lock around more than one access, so one
action is one access to shared state with the local computation around it:
`RecvPublish` and `RecvSignal` are the two `with lock` blocks, `SendSign`,
`SendRequest` and `SendClear` the test, the `put` and the reset of the flag.
`StoreWrite` and `ProcParse` are the *ends* of the file write and of
`data_calculate`; while they last the process is at `write` or `parse`, and the
properties speak of that whole time. `fifo.empty()` and `fifo.get()` are one
step because nobody else takes from the queue.

*The queue* (`multiprocessing.Queue`) is what each putting process has handed
to its feeder thread (`feeder`) and the pipe behind it; the order is kept per
process only.

*The environment.* `Firmware` takes commands in order; a data request waits for
the start pulse and for the sensor. The slow control client
(`set_threshold.py`) connects, sends, and leaves, also in the middle of a word.
`RecvTimeout` may happen whenever the receiver waits, if `TimeOuts` is set.
`top.py` stops and joins in the order of `MainOrder`; the display process,
which touches nothing of this, is left out. `Started` says which processes a
run has; one that is not there is not alive, as `top.py` would find it.

### How `SensorStream` corresponds to the code

One `Tick` is one word of the 10 MHz clock: 16 bits of each line, through the
deserializer, `data_mod`, the tag process and the FIFO write in the order the
registers give them, each seeing what the stage before held at the edge.
`Clk160` stands for the clocks of 160 MHz between two words; the start flag is
set and cleared there. `stop_sign` is the same circuit as `start_sign` and is
left out. `TRIGGER_DELAY` is part of a setup, as `delay`: on the board it is 31,
because register 5 is reset to ones (`control_interface.vhd:205`, `229`) and no
script writes it. The register in which words wait for it keeps the words up to
the one that is read. `early` says on which side of a header's last bit the latch clock falls: the deserializer shifts in
one domain and is latched in another, and both phases occur.

The sensor sends a header, counter, length, data, trailer and padding. Data
words never equal the header on both lines, which the sensor's format rules
out. A wrong word is wrong on one line, so the comparison of the lines can see
it; errors on both lines at once are outside what the code guards against.
`ChipStarted` waits for the state a reset of 120 clocks leaves, instead of
counting the clocks. `full`, `stale`, `from`, `struck`, `owed`, the field
`nth` and the stamp of a word (which frame, which place, the how many-th) are
histories. `Read` models a reader that is as slow as possible: any
choice of lost words is reached. A *setup* fixes what a behaviour starts from,
so that one run has small frames with errors, frames with many rows, a small
FIFO, strobes, and the board's own delay, without their product. `FlagsRight` is
tightest at a delay of zero: there the reset by a wrong length comes just before
`data_mod` takes that length for one.

### How `Jtag` corresponds to the code

`Clk` is one system clock of `jtag.vhd`: one branch of `dataFeederSM` with its
default assignments, the write into the output memory, and a step of the host.
`DividedClk` is one clock of `jtag_tap.vhd`, at least `Ratio` system clocks
after the last: `Low` and `High` are the two halves of TCK. The states for
instruction and data column are one name and `col`. The chip is a TAP
controller as IEEE 1149.1 has it, with one register that is read back when
captured; it is external. The host's memory writes, which take several clocks
through the control interface, are one; at rest the host's address is the
length of its program. `Effect` says what a word does without any clock, and
`ProgramRuns` compares. At its end a program writes its last result a second
time, to the host's address; `ProgramRuns` says that it goes to no third one.

`Allowed(n)` = 3 + n (2 · 16 + 19) driver clocks: 2500 words take at most
2500 · 51 · 32 / 60 MHz = 68 ms, and the scripts sleep 0.5 s and more. A word
that changes from one register to the other is the longest, 2 · 16 + 15 clocks
from the feeder's `JTAG_go` to the next pause, in which the feeder takes up to
seven of its own, four of the driver's at the smallest ratio.

### How `I2cControl` and `I2cScripts` correspond to the code

A script is the sequence of register writes, pulses and status reads its
functions send; words are sets of bits, so that the mixing of 35-bit commands
into 16-bit registers (`bitmix`) is union and shift. Registers start as the
reset leaves them, all ones, so that every slot of the data stream is disabled
until its last word is written. `Tick(n)` is the clock, one in 2^20, at which
`i2c_tic` acts. The pulse is high for three clocks (`PulseEdges`), and the tick
may fall on the `n`-th of them, or on none: on the first, the command waits for
the next turn; on the second or third it runs, and because the pulse still sets
`signA`, once more a turn later. A transaction is one step of a tick, which
lasts thousands of bit times; it changes the chip's pointer and `RD_DATA` as
its mode and length say. Chips answer with the register their pointer names.
Commands travel up to `Lag` ticks. `SleepTicks` is the sleep of `pulseDelay` in
ticks (0.5 s at 60 MHz). `issued` and `runs`, the command of the last pulse and
how often it has run, are histories, as are `pulses`, `ordered` and `believed`.

### How `IodelayScan`, `HitParser` and `LegacyReadout` correspond to the code

`IodelayScan`: both loops, statement groups between two socket calls as one
step; the board executes commands in order, and the error flag needs a good
header to fall. The second loop sleeps before it asks, and the board has
settled then; the first loop does not, and may read too early (`MaxEarly`).
Errors are an arc of neighbouring settings on the circle of 80 positions.

`HitParser`: `data_cal` is a fold of `Byte` over a buffer, its variables the
fields of a record; the forerunner in `dataprocess_t.py` differs in the fields
of `Programs`. Both are checked against what a stream *means* (`Headers`,
`Trailers`, `Hits`), which has no state. The meaning follows the code where it
leaves the last word before a trailer undecoded (`lastWord`).

`LegacyReadout`: as `DaqPipeline`, one action per access to something shared.
A program is a record: what its sender sends first, which workers it joins, if
it has a queue, and if `terminate()` reaches them (threads do, processes have
a copy of the flag). The queue's feeder thread copies the buffer late
(`FeedCopy`), and a `get` holds the lock until the item is whole. The second
queue, with maps for the display of `mainpy.py`, counts them: its lock is the
same, and `update` holds it in the same way (`DispLock`, `DispGet`).

### How `GlobalResetter` corresponds to the code

One action `Clk` for the five states, `Push` for the asynchronous branch, which
assigns the state and the counter and no output. Button and clock manager are
the environment. `high` and `waited` are histories of `FullSequence`.

## Runs

| Run | Question | Bounds |
|---|---|---|
| `ControlStream` | types, `NoPhantomWord`, `NoSensorWordDropped`, `PulseFindsFifosAtRest`, `KeepsContract` for transfers of distinguishable words with chip starts and resets | two kinds of word, transfers of 2 and 4+2 words (a count in two digits of width 4), 2 queued commands, output FIFO 5 with threshold 2, data FIFO 4 with threshold 2 |
| `ControlMemory` | `KeepsContract` for memory reads and stores | reads of 1 and 4 words on an output FIFO that stalls after 1, address wrapping at width 5, two memory cells |
| `ControlLive` | `MemReadEnds`, `KeepsServing` | one queued command, transfers of 2, reads of 4 stalling after 1 |
| `DaqRing` | types, `StoresNextBuffer`, `ParsesWholeBuffer`, `KeepsStream` | ring of 4 read 2 behind, 6 buffers (the ring wraps and may be lapped), time-outs, shutdown at any point; no command server |
| `DaqLive` | `RequestUnderWay`, `DataFlows`, `ShutdownCompletes` | ring of 2, 3 buffers, 1 client command, time-outs; no readers, which wait for nobody |
| `Sensor` | `FlagsRight`, `WholeFrames`, `Recovered`, `RowsMarked`, `CountersTell`, `StrobesKept`, `TagsEarned` | frames of 5 to 9 words with trigger delays of 0 to 3, and of 36 with a delay of 31; two chip starts, up to 4 frames after each; per setup one wrong word, six row layouts, a FIFO of 3, or strobes; counter modulo 3 |
| `Jtag` | `TapFollows`, `ProgramRuns`, `Duration`, `ProgramEnds` | every program of up to 3 of 5 words, and every session of 2 or 3 of 4 programs; limit at word 3, words of 2 bits, registers of 3 |
| `I2cCommands` | `RunsAsSent`, `StreamReadsResults`, `StatusIsOwn` | three scripts in full, one of which uses a chip while the slots run; real sleep and turn, commands up to 2 ticks late |
| `IodelayScan` | `OptimumIsClean`, `PrintsTruth` | the real 32 settings, every arc of up to 16 bad ones (half), one early status |
| `ParserBuffers` | `ParsesFrames`, `ShowsWholeFrames` | 3 rows of 6 columns, two frames to a map, buffers of 12 and 8 words in streams of 24 and 26 |
| `LegacyPrograms` | `NeverBackwards`, `LockGivenBack`, `DataFlows`, `ShutdownCompletes` | `client.py` with 5 buffers and silence, `mainpy.py` with 2 that may complete maps and with 3 that do not (and no display) |
| `Resetter` | types, `FullSequence`, `Settles` | counter of 16, delays of 7 and 13 clocks, four pushes or lost locks |

Types are a property of three of the modules. In the others a value out of its
range shows in the properties, or stops TLC at an index outside of a function;
their proofs have the types in the inductive invariant.

Why the bounds are enough. *Control interface:* what can go wrong is decided
by the *distance* between threshold and depth (two words in flight) and by the
flags turning while a request is under way. The thresholds are the smallest
that still let the flag be low, turn, and turn back within one command; the
FIFOs hold a threshold plus the words in flight and one more, so an overflow
would be seen; transfers are longer than the threshold, so they stall; the
second queued command is there to be executed out of turn if it could be. The
proofs then remove the bounds for the safety properties. *Acquisition:* six
buffers fill a ring of four, wrap, and let the receiver lap a reader that does
not move. Three buffers let the two opening requests, a lost one and the one
after it happen. *Sensor:* two starts are one and a restart from anywhere;
four frames are the cut one, two whole ones and one more. *Jtag:* three words
have a first, a middle and a last; the limit falls on the third, and the fourth
is what a missing limit would reach; three sessions see what two have left.
*Parser:* a buffer is longer than the shortest frames and shorter than two
long ones, so frames end and begin at every place in it, span buffers, and
complete a map in the middle of one.

*Fairness.* Control interface (`FairSpec`): the clock runs, the timer's
timeouts expire, a reset ends, the FIFO leaves its reset, the host collects
answers. No fairness is assumed of the host sending, of resets or of the
sensor; a sensor that keeps sending (`StreamingSpec`) is an assumption of
`KeepsServing`, because without it the property is false. Acquisition: every
process and feeder thread is scheduled, the firmware answers because the sensor
streams, and a client does not stay connected for ever. The last is an
assumption about whoever runs `set_threshold.py`: `CmdServer` blocks in `recv`
without a timeout and `top.py` joins it before it stops the sender. Nothing is
assumed of when the main program begins to stop. `LegacyReadout`: the same, and
the user closes the display's window. `Jtag`: both clocks run. `GlobalResetter`: the clock runs,
the button is let go, the clock manager locks on a running clock and drops its
lock when reset.

*Deadlock* is checked where the system never stops (control interface, I2C, whose
ticks go on) and not where processes, scans or bounded streams end.

### Where code and comments part

Seen while modelling. The models have the behaviour of the code; where a
property would fail on it, the property says so or is not stated.

* `control_interface.vhd:400` says an empty data FIFO terminates a transfer;
  the branch is commented out, and `FIFO_ADV` waits on an empty FIFO for ever,
  with a count of zero too, and every later command with it, a start pulse
  included. `KeepsServing` therefore assumes a sensor that sends.
* `control_interface.vhd:296`: a memory read that meets a nearly full output
  FIFO has already left the command FIFO, so the next word is interpreted in
  its place; lines 36–39 promise the read. The scripts never have 504 words
  uncollected when they read the memory.
* `control_interface.vhd:389`: the start pulse is high for three clocks, and
  `i2c_tic.vhd:84` lets it set `signA` also at the tick that takes the command.
  When the tick (one clock in 2^24) falls on the second or third of them, the
  command runs twice, a turn (0.28 s) apart. The scripts sleep longer than both,
  and their commands write or read the same again; `RunsAsSent` says "once or
  twice".
* `i2c_control.py:358`: `0xf << 140` is meant for slot 4, but reaches only its
  first bits. Slot 4 stays disabled all the same, because its disable bit is in
  register 17, which is reset to one and never written. Slots 0 and 1, said to
  be two sensors, are the same command. `i2c_wr_bytes.vhd:130`: the master's
  busy line is high after a reset, so the first transaction has a byte too many.
* `data_mod.vhd:101`: the reset leaves `sDataIn`. A header that stands there at
  a chip start is decoded a second time when the reset ends. Behind it come the
  zeros of the trigger delay, 32 of them with the delay of 31: they are taken
  for a frame of no words, with header, counter, length and trailer. Writing
  begins 100 us after the start, so that this frame is over by then and is not
  recorded; with a delay of less than three words the true header behind it
  would be taken for the length or the trailer. `FlagsRight`, `WholeFrames` and
  the others exclude exactly this (`stale`).
* `data_mod.vhd:92`: with the trigger delay an error costs more than the frame
  it is found in, because the reset clears the words that wait: the last 33
  words or so before the error do not reach the FIFO either.
* `global_resetter.vhd:69`: a lock lost during the second delay is noticed only
  after the board has left its reset for a clock.
* `iodelayscan.py:53`: the first loop reads the status right behind the start
  pulse, and may note the error a reset has left; line 92 overwrites the
  optimum with the loop's index, so the last setting stays loaded.
* `mainpy.py`: `terminate()` (line 123) reaches the main program's copy of the
  worker only, so `join` never returns; `ethernet_t.py:27` hands the one
  receive buffer to the queue by name, so a buffer may come out torn or twice;
  `ethernet_t.py:48` asks for data before the start pulse, which a chip that
  does not stream yet never answers.
* `command.c:308`: `data_cal` decodes a word when the one after it has come and
  is no trailer, so the last data word of a frame is never decoded.

## Proofs

`ControlInterfaceProofs` proves, for every `W > 2`, every memory, command and
output FIFO depth, every `FullAssert + 2 <= OutDepth` and `EmptyAssert >= 2`,
every command set and both kinds of host (assumptions `WordAssumption` and
`DepthAssumption`):

| Theorem | States |
|---|---|
| `TypeCorrect` | `Spec => []TypeOK` |
| `NoPhantom` | `Spec => []NoPhantomWord` |
| `NoDrop` | `Spec => []NoSensorWordDropped` |
| `PulseSafe` | `Spec => []PulseFindsFifosAtRest` |

None of the four is inductive. The inductive invariant `IInv` adds what the
flags say of the contents behind them (`FlagsBound`: empty flag low means at
least `EmptyAssert` words, full flag low means at most `FullAssert`), that
requests of a transfer come in pairs and only in `FIFO_ADV` (`RequestsServed`),
that a pulse is out only in the two states that time it (`PulseAtRest`), and
that a reset holds the state machine (`ResetHolds`). The argument is in two
parts: `EdgeFacts` shows what an edge does to the FIFOs whatever the branch
(a low flag *before* the edge leaves a word and room *after* it, which is all
that the next request needs), and one lemma per group of actions shows what
the branch itself assigns. The code's margins are 512 − 505 = 7 words and 4
words: more than the two the proof asks for.

Its second half proves that the pipelined state machine is the contract, seen
through `Executing`:

| Theorem | States |
|---|---|
| `Refinement` | `CarefulHost` implies `Spec => KeepsContract` |

A request registered at one edge moves its word at the next, so in between the
word is *owed*; the edge that moves it is the contract's step, every other edge
begins the command at the head of the queue or is a stutter. The proof goes
through the branches of the state machine one lemma each, with a second
invariant `RInv` on top of `IInv`: which requests stand in which state
(`Phases`), that the memory's word is at its port before it is written
(`Prefetched`), what the registers hold until a reset's end sets them
(`InitRegs`, `Recovery`), and what the host's care makes of the queues: a
memory read waits alone and has a count (`MemReadAlone`, `MemCountSet`), and
the register answers asked for, held and moving never exceed their slots
(`Room`, a `CountIn` of each queue). `CarefulHost` is the hypothesis: a careful
host, `FullAssert >= 1`, and `FullAssert + RegSlots + 2 <= OutDepth`. In the
code 505 + `RegSlots` + 2 <= 512 leaves a host five uncollected register
answers beyond a nearly full FIFO. The theorem is about safety: that the
commands *are* executed is `KeepsServing`, which TLC checks.

`DaqPipelineProofs` proves, for every ring size, every `0 < Back < BufferNum`,
any bounds and any set of started processes (`RingAssumption`,
`BoundAssumption`):

| Theorem | States |
|---|---|
| `TypeCorrect` | `Spec => []TypeOK` |
| `StoreInOrder` | `Spec => []StoresNextBuffer` |
| `ParseWhole` | `Spec => []ParsesWholeBuffer` |
| `WindowBound` | `Spec => []WindowKept`: at most two buffers asked for and not received |
| `RequestKept` | `Spec => []RequestUnderWay` |
| `Refinement` | `Spec => KeepsStream`, that is, the processes implement `BufferStream` |

The invariant ties each index to a count modulo the ring (`IndexInv`), says
what the ring holds for the last `BufferNum` counts (`ContentInv`), and counts
a buffer that has arrived as a request until the sender has put it: as the
receiver's pending steps, then as the flag (`WindowInv`). The indices wrap and
the counts do not, so the arithmetic of `%` is proved first (`SlotUnique`,
`SlotNext`, `SlotApart`, `SlotBehind`); with it, "not equal to `readnum`" means
"ahead of Storage", because two counts less than a ring apart never share an
index. The invariant holds also when a reader is lapped; only the last step of
each theorem uses that it is not. `RequestUnderWay` needs a balance sheet
(`FlowInv`): the requests ever made are the buffers that have arrived and the
read commands in the feeder, the pipe and on the wire (`Reads`); and while the
sender is about to clear the flag, the request it has just made is still among
them, so the clear it should not do loses nothing that matters.

`Refinement` maps `asked`, `received` and `stored` to themselves and the hand
of the recorder to the buffer at `readnum` while Storage writes (`Hand`). An
access to something shared is a step of the stream or none: a put of the sender
is `Ask`, and there is room for it because the flag it has seen stands for a
buffer (`WindowInv`); the last byte of a buffer is `Receive`, and the buffer
was asked for by `FlowInv`; `num_now` read and found different is `Take`, the
end of the write is `Record`. A byte that is received into the buffer in the
recorder's hand is `Tear`, which the stream permits only to a receiver that is
a whole ring ahead (`LappedWhenMet`). Nothing in the code holds the receiver
back from that: the requests do not wait for Storage, which only prints "read
slow" when it is more than 20 buffers behind (`storage_t.py:34`), and so
neither the model nor the promise excludes it.

`SensorStreamProofs` proves, for all setups (any trigger delay
that the register can name, frames of any size below 2^16 and above the delay
plus four words, any contents that are rows and their states, any FIFO depth
and counter width), any number of chip starts, any words with a wrong
line, both phases of the latch clock and any interleaving of the two clocks
(`SensorAssumption`):

| Theorem | States |
|---|---|
| `FlagsCorrect` | `Spec => []FlagsRight` |
| `FramesWhole` | `Spec => []WholeFrames` |
| `RecoveryCorrect` | `Spec => []Recovered` |
| `RowsCorrect` | `Spec => []RowsMarked` |
| `CountersCorrect` | `Spec => []CountersTell` |
| `StrobesCorrect` | `Spec => []StrobesKept` |
| `TagsCorrect` | `Spec => TagsEarned`, an action property |

All but `RecoveryCorrect` follow from one inductive invariant. `Flow`: a state
machine under reset holds nothing, writing is off from a start to the timer's
end, and the deserializer's count is the position of the sensor (`Lockstep`).
Every word carries a stamp, and `InFrame` follows the words by it: those in the
trigger delay were sent one behind the other, the newest last (`Delayed`,
`Joined`, `Newest`); the state machine is where the word in `sDataIn` needs it
(`Decoding`, `At`: in the data its counters say how many states are left of the
row, on which line the next row stands, and how many words remain); and the
flag is that of the word before (`Written`). How many words wait in between
nowhere matters, so the delay may be any. `Record` says that what stands in the
FIFO is the beginning of such a frame (`Recorded`), and that an entry without
its trailer behind it is the frame that the next word continues (`Open`,
`Output`). `Tally` ties each counter word to the frame counter over the number
of frames since, by the stamp of the last header counted (`CountersLinked`,
`Latest`); that their difference is right modulo any width is `ModDifference`.
`StrobeState` says that a flag that still stands has its strobe in `struck`,
except in the one clock in which it has just been used. The lemma that carries
most is `DecodeAt` (with `DecodeData`): one step of `data_mod` on the word it
expects gives the right flag, marks the right line, and leaves the machine
where the next word needs it. The length of a frame has to fit its word count,
which is why frames are below 2^16 words, and a row has less than 16 states, as
the sensor's format says.

Those theorems say that nothing wrong is recorded; `RecoveryCorrect` says that
frames *are* recorded again after every start, and needs a second invariant,
`Recovering`. It speaks of the starts after which no word has been wrong so far
(`Undisturbed`). `InStep`: the search ends with the first header and with no
other word, and the deserializer stops only behind the last frame that is sent.
`HeaderComes`: the first header may be lost to the latch clock, but every later
one goes through the delay and reaches the flag `Delay` + 3 words later, before
its frame ends; that is why frames are longer than the delay and four words
(the board's have 1856). `Found`: the header of the second frame from the one
in which writing began therefore stands in the FIFO from then on, and when the
next header is written the frame before it is closed, because by `Output` an
open frame continues with the word at hand, which a header is not. `FoundWhole`
turns a header with a trailer behind it into a whole frame by means of
`Recorded`.

`LegacyReadoutProofs` proves, for every program and any number of buffers:

| Theorem | States |
|---|---|
| `OrderKept` | `Spec => []NeverBackwards` |

The queue is handed the one receive buffer by name, and its feeder thread
copies it later, when it may be torn or newer. The invariant orders the places
a buffer passes, from what the worker got over the pipe and the copy under way
to the receive buffer itself, which holds the newest (`StagesOrdered`,
`BufferNewest`): a late copy is newer, never older, than the copies before it.

`I2cControlProofs` proves, for every script, link and sleep that keep
`TimeAssumption`, `ScriptAssumption`, `StatusAssumption`, `SlotAssumption` and
`PreparationAssumption`:

| Theorem | States |
|---|---|
| `RunAsSent` | `Spec => RunsAsSent`, an action property |
| `StatusOwn` | `Spec => []StatusIsOwn` |
| `StreamReads` | `Spec => []StreamReadsResults` |

There is no handshake: a script writes the registers of its command, pulses,
sleeps, and asks. The invariant measures the sleep. A pulse on the link leaves
the script at least `SleepTicks` less its age to sleep (`LastSent`); once it
has come, the sleep left and the tick counter together reach past the slot of
the command (`SleepsLongEnough`), which takes at most a turn and two ticks.
That is the assumption `Lag + Turn + 2 <= SleepTicks`, and 0.5 s are 28 ticks.
So no register is written while a pulse waits, the registers are on their way
to what the script wrote (`RegistersFollow`), and what the scheduler finds is
the command issued (`CommandKept`). That the scheduler may find it twice costs
nothing: a pulse that still stands at the tick has run its command at that
tick, the one more run comes a turn later, and the script is still asleep then.
For the status, the model's idea of the chip's pointer is right whenever
nothing is outstanding (`PointersFollow`), no slot of the data stream moves a
pointer, because the read bit of each is set by the reset and by every word a
script writes there (`SlotsRead`, from `SlotAssumption`), and the result goes
from `RD_DATA` to the status register untouched (`ResultKept`).
`StatusAssumption` says what every function of `i2c_control.py` that reads a
status does: it asks right behind the pulse of a read of a chip, before it sets
up the stream. TLC evaluates it for the scripts of the run. Once the stream is
set up, the slots share `RD_DATA` and the claim would be false.

`StreamReads` needs a second invariant, `SlotInv`, for the time in which a
script sends the nine words of `i2c_prep_cont_read` and the scheduler already
runs what is there of them. What is on its way is the last part of what the
script has sent (`LinkIsScript`), and the registers hold what the part before
wrote, or the ones of the reset (`RegistersHold`), so the slots see the first
`m` words of the preparation and ones behind them (`FirstWords`). The bits of
those words are computed in the proof, from the hex numbers of the script
through `bitmix`, the packing into 144 bits and the cutting into 16
(`PreparedValue`), and then what a slot makes of them for every `m`
(`SlotCommand`): its last bit disables it until its last word is there
(`SlotEnabled`), and then it reads a converter (`SlotsPrepared`). Before that,
the last one-shot command to each converter has selected the result
(`BelievesResult`) and has run, because the script has slept
(`PointsToResult`). `PreparationAssumption` says this last thing of the
scripts' text; TLC evaluates it for the scripts of the run, where `top_script`
is one that prepares.

`JtagProofs` proves, for all programs, word lengths, register lengths and any
`Ratio > 1` (`JtagAssumption`; every divider that the register can name, since
`Ratio` is 2^(`DIVIDE` + 1)):

| Theorem | States |
|---|---|
| `DriverFollows` | `Spec => []TapFollows` |
| `ProgramInTime` | `Spec => []Duration` |

The driver decides when TCK rises, and has told the chip by TMS when TCK went
low, up to `Ratio` and more system clocks earlier. The two agree only if
nothing they depend on changes in between. `Handshake` says where the driver
can be in each state of the feeder: it rests or pauses while a word is fetched,
and between telling and collecting there are the steps in which one of the two
knows of the other's move and the other does not (`Started`, `GoesOn`); the
driver's clock comes only after the feeder's next, so both end. Hence the
feeder waits while the driver is under way (`FeederWaits`), the latched kind
and length are those of the word (`Latched`), and TMS still announces the
driver's choice (`Steady`). `ResetInv` counts the five clocks that take the
chip to its reset state.

`ProgramInTime` needs a second invariant, `DInv`, on top of it. It counts what
is left of the present word in half clocks of the driver (`Work`), because the
feeder's clocks come at least two to one of the driver's: each clock of the
feeder takes one half from the work while it fetches and tells, each of the
driver's takes two, until the next word is asked for and pays for itself
(`InTime`). `Remaining` is the driver's part, the clocks to the end of its way
through the TAP states, for which the bit counter must be zero wherever a scan
begins (`Counted`). A clock of the driver may not pass while a result waits:
the feeder has written it before (`CollectsInTime`); and the words asked for
are those counted (`WordsCounted`), which needs that a pause means that the
word was not the last (`LastKept`).

`GlobalResetterProofs` proves, for all delays and every counter range that is
a power of two less one (`ResetterAssumption`):

| Theorem | States |
|---|---|
| `TypeCorrect` | `Spec => []TypeOK` |
| `FullSequenceHolds` | `Spec => FullSequence`, an action property |

The invariant says, for each state, what the counter has to do with the two
histories: in the first delay the clocks with `CLK_RST` are at least those
counted, in the second those since the lock are, and the count wraps to zero
exactly when its delay has passed.

`IodelayScanProofs` proves, for every even number of settings (`ScanAssumption`),
any number of errors and of statuses read too early:

| Theorem | States |
|---|---|
| `TruthPrinted` | `Spec => []PrintsTruth` |
| `OptimumFound` | `HalfClean` implies `Spec => []OptimumIsClean` |

`HalfClean` says that no more than half of the settings err; the run stops there
too. One try is four commands on their way and an answer (`OneTry`): while they
are executed the register, the delay and at last the status become those of the
setting that is tried, and a status that is read when the board has settled is
true because the flag falls for a clean setting only (`FlagHonest`). That is all
that the second loop needs. The first loop adds up positions, which are twice
the number of a setting and the gaps before it. `Summed` bounds the sum: `c`
settings from the `a`-th on contribute `c * (2a + c - 1)` and between `Low` and
`High` gaps each (`Straight`); an arc over the end of the circle contributes its
two ends separately, the second one a turn back because setting 0 was among the
errors (`Around`). The average then lies in the middle of the arc, up to a gap,
and half a circle away no arc of half of the settings reaches (`Opposite`).

Only model-checked: `ProgramRuns` of `Jtag`, the properties of `HitParser`,
`LockGivenBack`, and the liveness properties, which are beyond the prover. What
a JTAG program means (`ProgramRuns`) and what `data_cal` computes for every
buffer are folds, and would need induction over data, which is also beyond it.

## Not modelled

* *Ethernet MAC, IP cores, project files*: generated by the vendor's tools. The
  byte lanes of `gig_eth.vhd` are instances of FIFO cores; the TCP server they
  connect to is not in the repository.
* *Bits and bytes on the I2C bus* (`i2c_master.vhd`, `i2c_wr_bytes.vhd`): a
  transaction is one step with the result its mode gives.
* *`gen_musktable.py`* imports `muskp_t`, which is not in the repository;
  `error_check.py` compares a file with a counted pattern in one pass.
* *`tcpio.c`, `main.c`* copy bytes between a socket and a terminal or file;
  `hdf5rawWaveformIo.c` and `udptest.c` are a library and a test of their own.
* *`disper_t.py`* draws a shared array. *`set_threshold.py`*: it is the client
  of `DaqPipeline`; the file of DAC words it writes is left out.
* *Test benches* have stimuli and no checks.
* Behaviour with the end of the connection to the board (`recv_into` returning
  0) and with a socket whose send buffer is full.

## Plan

1. The byte sequencer of the I2C chain over the master's busy line.
2. Composition of the host with the contract: requests, answers and slow
   control on one connection.
