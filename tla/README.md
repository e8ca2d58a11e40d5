# TLA+ models of the XCore simulator's port engine and peripherals

This directory holds a model-checking development of the simulator's core:
TLA+ modules translated from the C++ under `src/`, the TLC configurations
that check them, and `PROJECT.json`, which records for every definition the
source lines it stands for, for every run what it checks, and the hazards
of the code with the properties that watch them.

Run a configuration with `tlc -workers 2 -config MCPortPlain.cfg MCPort`
(likewise `-config MCSPIFlash.cfg MCSPIFlash`, `-config MCEthernetPhyRx.cfg
MCEthernetPhyRx`, `-config MCEthernetPhyTx.cfg MCEthernetPhyTx`, `-config
MCSyscallHandler.cfg MCSyscallHandler`, `-config MCMIIReceivePath.cfg
MCMIIReceivePath`).

## 1. The system

| Part | Source | What it is |
|---|---|---|
| Port | `src/lib/Port.cpp` | The cycle-accurate I/O port: shift and transfer register, port counter, timed and conditional transfers, ready handshake, three slots of paused threads. |
| EthernetPhyTx, EthernetPhyRx | `src/EthernetPhy.cpp` | An MII PHY: Tx assembles nibbles seen on TXD into a frame for the network link, Rx serialises a received frame into nibbles on RXD. |
| SPIFlash | `src/lib/SPIFlash.cpp` | A read-only SPI flash: shifts in a command and an address on MOSI, shifts memory out on MISO. |
| SyscallHandler | `src/lib/SyscallHandler.cpp` | The bridge from simulated system calls to the host: a table of 512 file descriptors, buffers checked against RAM, the count of `done` calls that ends the simulation. |
| NetworkLink | `src/lib/NetworkLink.h` | Interface to the host's network device (frames of at most 1518 bytes). |
| WatchpointException | `src/lib/WatchpointException.h` | A value class. |
| Signal, ClockBlock, RunnableQueue, PortInterface, Thread | not under `src/` | The port's collaborators, known from the specification and from the calls the port makes. |

### How the parts interact

Everything happens at a *tick* of simulated time, in the order in which the
`RunnableQueue` pops its entries. A thread's port instruction calls into
`Port` with the thread's time; a peripheral or another port calls
`seePinsChange`; the scheduler calls `run` at the time the port asked for.
Every entry point starts with `update(time)`, which brings the port from its
own `time` to the present by applying the clock edges that have passed, and
most end with `scheduleUpdateIfNeeded()`, which looks at the port and pushes
it on the queue for the next edge at which something visible may happen.

`update` has two ways to apply edges: `seeEdge` for each one (the *slow
path*, `updateSlow`) and `updateNoExternalChange` (the *fast path*), which
runs `seeEdge` only until the port is in a steady state and jumps over the
rest with closed forms for `portCounter` and `validShiftRegEntries`. When
the port's clock is a square wave and the pins are constant, `update` takes
the fast path for all edges but the last.

Edges have effects outside the port: `outputValue` tells the loopback
observer (a peripheral) that the pins changed, `handleReadyOutChange` tells
the ready ports, `pausedX->schedule()` wakes a thread, `event()` raises an
event. The port makes them in the middle of `update`, at whatever time the
caller came. For the effect to reach its observer at the tick on which it
happens, the port must be in the queue for that tick: this is the job of
`scheduleUpdateIfNeeded`.

### What is hard in this code

- The fast path and the heuristic are two more implementations of what
  `seeEdge` already defines, written by hand for each regime (output port,
  timed input, ready-out, plain input, waiting for ready-in). A unit test
  exercises a few sequences of instructions; the disagreements sit after
  particular sequences at particular distances from a counter wrap.
- Half of the operations end with `scheduleUpdateIfNeeded()`; the others
  leave the queue entry of an earlier state.
- `portCounter` and `timeReg` are 16-bit and compared for equality; the
  distance between them is computed modulo 2^16.
- A thread parked in one of the three slots is released only by an edge,
  and only if the port is run at that edge.
- The peripherals are state machines driven by pin callbacks that arrive in
  the order of the queue, several at one tick.
- The Ethernet transmitter is not run on every clock edge: it is queued by
  the pin callbacks and by its own runs, and an edge it is not queued for
  is an edge it never sees.
- A peripheral and a thread meet in a port that is brought up to date
  lazily: the PHY changes the pins at its own edges, the thread reads when
  it gets to it, and the port applies the edges in between whenever one of
  them, or its own queue entry, next touches it. A word the thread takes
  too late is overwritten without a trace.
- The system calls take every argument from registers of the simulated
  program, which may hold anything; addresses and sizes are 32-bit and
  their sums wrap.

`PROJECT.json` lists the hazards one by one, at their source lines.

## 2. Modules

| Module | Models | Lines of `Port.cpp` |
|---|---|---|
| `PortEdge` | one clock edge: `seeEdge`, `seeFallingEdge`, `seeFallingEdgeOutputPort`, `seeSamplingEdge`, ready-out, the callbacks, `completeEvent`; `updateSlow` | 184-242, 477-650, 698-709, 988-994, 1203-1287 |
| `PortUpdate` | `update`, `updateNoExternalChange`, `scheduleUpdateIfNeeded` and its two cases, `readyOutIsInSteadyStateSlowPath` | 256-475, 652-663, 1100-1261 |
| `Port` | the port with its threads, its queue entry and its observer: every instruction and configuration call as an action, the event calls, the pins' driver, the ports whose ready-out signal the port carries, the scheduler's `run`; the properties | 16-182, 236-254, 665-1098, 1289-1299 |
| `PortOutput` | what an output port promises: a queue of entries between `out` and the pins | abstract |
| `MCPort` | `Port` for TLC | |
| `SPIFlash` | the SPI flash: `seeSCLKChange`, `seeSSChange`, `reset`, the tracker of MOSI; its properties | `SPIFlash.cpp` 29-52, 63-159 |
| `MCSPIFlash` | `SPIFlash` for TLC, with the file's contents | |
| `MIIReceive` | what the receiver promises: the wire format of a frame on RXD and RX_DV | abstract |
| `EthernetPhyRx` | class `EthernetPhyRx`: `receiveFrame`, `appendCRC32`, `setRXD`, the four states of `run`; the refinement of `MIIReceive` | `EthernetPhy.cpp` 188-301 |
| `MIITransmit` | what the transmitter promises: a sampler run on every rising edge of TX_CLK | abstract |
| `EthernetPhyTx` | class `EthernetPhyTx`: the pin callbacks, `run`, `transmitFrame`, `reset`, the queue entry; the refinement of `MIITransmit` | `EthernetPhy.cpp` 61-177 |
| `MCEthernetPhyRx`, `MCEthernetPhyTx` | the two for TLC, with a check sequence of one byte | |
| `MIIReceivePath` | the receiver, the port behind RXD and a thread that reads it, on one clock: `EthernetPhyRx` and `Port` composed | `EthernetPhy.cpp` 220-224, 256-301; `Port.cpp` through `Port` |
| `MCMIIReceivePath` | `MIIReceivePath` for TLC | |
| `SyscallHandler` | class `SyscallHandler`: the descriptor table, the buffer checks, every case of `doSyscall` | `SyscallHandler.cpp` 95-180, 216-231, 252-561 |
| `MCSyscallHandler` | `SyscallHandler` for TLC | |

`PortEdge` and `PortUpdate` have no variables. A port is a record with one
field per member of class `Port`, under the member's name, and every function
of the code is an operator from port records to port records. The longer
functions are compositions of one operator per stage
(`SeeFallingEdgeOutputPort` is `TellPinsChange` of `Drain` of `MeetTime`;
`SeeSamplingEdge` is `Latched` of `Realigned` of `Shifted`), each stage
taking the record the stage before it left. `Port` extends them and holds
the state.

### State

| Variable | In the code |
|---|---|
| `port` | the members of the `Port` object. `nextEdge` is the type of the edge the cached iterator points at; `clkReadyIn` is `clock->getReadyInValue()`; `eventsPermitted` is the flag of `EventableResource`; `readyOutOf` is the port `setReady` named or `NoPort`, `srcReadyOut` what `readyOutOf->getReadyOutValue()` returns, `attachedTo` the ports that hold this one in their `readyOutPorts`; `edges` and `fx` are zero and empty between steps (below). |
| `wake` | the port's entry in the `RunnableQueue`: the number of the edge, counted from `nextEdge`, at whose time the port will be run; `-1` when that time is the present tick; `Never` when the port is not queued. |
| `blocked` | the threads that an instruction descheduled and no edge has woken. |
| `lbValue` | the value last passed to the loopback's `seePinsChange`. |
| `asked` | history variable: `scheduleUpdateIfNeeded()` has been called since an operation last changed the port. |

Within one step the record carries `edges`, the number of edges `update` has
passed, and `fx`, the sequence of callbacks made, each `<<kind, value,
edge>>` with kinds `"pins"`, `"readyOut"`, `"wake"` and `"event"`. `Commit`
applies them to `blocked` and `lbValue` and empties the log.

### Time

Ticks are abstracted to clock edges. With a fixed-frequency clock and
constant pins the code reads nothing of a time but the edges before it, so a
call "at time t" is a call "after m more edges", and every action that
starts with `update(time)` has m as its last parameter. `Advance` is the set
of m a step may have: the scheduler pops in time order, so a call comes no
later than the tick the port is queued for (m <= `wake` + 1); a call at
exactly that tick is possible (two runnables at one tick), after which
`wake = -1` and only `Run` is enabled. In `Port` by itself m is chosen by
`Next`; in `MIIReceivePath` it is the count of edges the composition keeps.

### Actions

Each action is a whole entry point: its guard is `CanIssue(t)` and
`m \in Advance(OpSkip)`; `Call` applies `Update(port, m)`, then the body,
which yields `Done` (return without scheduling), `Sched` (the call ends in
`scheduleUpdateIfNeeded()`) or `Park` (the thread is put
in a slot, the port scheduled and `DESCHEDULE` returned); `Commit` pushes the
queue entry (`RunnableQueue::push` keeps the earlier time), applies the
callbacks and sets the variables. The guards are those of the code: the
instruction dispatch traps on a port that is not in use, a blocked thread
issues nothing. Operations that the code refuses with `false` (`inpw` on an
unbuffered port, `setCondition(COND_AFTER)`, ...) are steps that leave the
port as `update` left it.

`In`, `Inpw`, `Out`, `Outpw`, `Setpsc`, `Endin`, `Sync`, `Peek`,
`GetTimestamp`, `SetPortTime`, `ClearPortTime`, `ClearBuf`, `SetCInUse`,
`SetCondition`, `SetData`, `GetData`, `SetPortInv`, `SetSamplingEdge`,
`SetPinDelay`, `SetTransferWidth`, `SetBuffered`, `SetReadyMode`,
`SetReady`, `SetMasterSlave`, `SetPortType`, `SetClk`, `SeeEventEnable`,
`SeeOwnerEventEnable` are named after the functions of `Port.cpp`;
`SeePinsChange` is the external driver, `SeeClockStart` the clock block
being started, `Run` the scheduler.

Events. `EventableResource`, the base class, is not in the sources; the
model has of it the flag `eventsPermitted` and three calls.
`SeeEventEnable(t)` and `SeeOwnerEventEnable(t)` are the two ways the flag
is set (the owner enables events on the port, or on itself while the port's
are enabled): the flag is set and the port is asked, which raises the event
at once when time and condition are met and calls
`scheduleUpdateIfNeeded()` otherwise. Neither calls `update(time)`: they
look at the port as the last call left it. `EventDisable(t)` clears the
flag. `event()`, from these two or from `seeSamplingEdge`, is taken by the
owner in the same step: `completeEvent()` sets `holdTransferReg`, and the
flag is cleared until the owner enables events again. The constant
`UseEvents` switches the three actions on.

Ready ports. `SetReady(t, s, v)` is `setReady` with the port `s`, one of the
model values `Sources`, whose ready-out level is `v`; on a port wider than
one bit it returns `false` after `update`. `attachReadyOut` and
`detachReadyOut` of `s` are insertion into and removal from `attachedTo`,
and `Attached` is the pair of calls as the code makes them: the port is
taken from the list of the *new* source. `SeeReadyOutChange(s, v)` is a
source that has the port in its list and calls `handleReadyOutChange` (line
236): the port's `outputValue(v)`. It is enabled for every port in
`attachedTo`; the source `readyOutOf` points at changes its level with it,
another one only drives the pins. The sources are not inverted.

### What is abstracted

- Data: values on the pins, operands and register contents are naturals
  from small sets; shifts and masks are computed as the code computes them
  (`\div`, `%`, `|` from `Bitwise`).
- `CounterBits` stands for the 16 bits of `portCounter` and `timeReg`; all
  counter arithmetic is modulo `2^CounterBits`.
- What a port reads of its pins is `getDataPortPinsValue` (lines 59-66):
  the value driven from outside on an input port, and on an output port the
  low entry of its own shift register. The conditions of `seeEventEnable`
  and `seeOwnerEventEnable` are tested on it whichever way the port points.
- The tracer, the port names and pin delay (stored, never read by the
  engine) are left out.
- The pins and the ready-in signal are constant signals. The branches of
  `update` for a clock signal on the pins (`updateSlow` for everything) are
  not modelled.

### The SPI flash

`SPIFlash` has the variable `flash`, a record with the members of the class
under their names (`state`, `receiveReg`, `receivedBits`,
`receivedAddressBytes`, `readAddress`, `sendReg`, `sendBitsRemaining`,
`MISOValue`, `SCLKValue`, `SSValue`), the field `MOSITracker` for the level
the tracker holds and the field `MISO` for the level last passed to
`MISO->seePinsChange`. The three actions are the three callbacks:
`SeeSCLKChange(v)`, `SeeSSChange(v)` and `SeeMOSIChange(v)`, each with any
level, the present one included (the handlers return early on it). They may
come in any order: SS may rise in the middle of a byte, SCLK may run while
the flash is deselected.

The widths are constants (`ByteBits`, `AddressBytes`, `WordBits`,
`ReadCmd`; 8, 3, 32 and 3 in the code), the file is the constant `Mem`.
Two history variables record what the master did since it selected the
flash: `header`, the first `ByteBits * (1 + AddressBytes)` bits sampled, and
`sampled`, their number. The properties compute from them alone what MISO
owes the master. The wires are one bit wide, and the file is not empty
(`openFile` accepts an empty file, and the first fetch then divides by
zero).

### The Ethernet PHY

The receiver and the transmitter share nothing but the link, and each has
its own pair of modules: an abstract one that says what the MII wires
carry, and one translated from the class.

`EthernetPhyRx` has the variable `rx`, a record with the members of the
class (`state`, `frame`, `nibblesReceieved`, `RXDValue`; the buffer `frame`
and `frameSize` are one sequence) and the fields `RXD` and `RX_DV` for the
levels last passed to those ports, and `wait`, the clock periods until the
scheduler runs the receiver again. `run()` is two actions: `Poll(got)` in
state `IDLE`, where `got` is a frame of the link or `NoFrame`
(`receiveFrame` pads it and `appendCRC32` completes it in the same step),
and `Advance` in the three states that drive the wires. `Pass` is a falling
edge of the interframe gap, for which the receiver is not queued.

`EthernetPhyTx` has `tx`, the members of the class with the three signals
as the levels last seen, `queued`, the PHY's entry in the scheduler's queue
(it is only ever pushed for the next rising edge), `clk`, the level of
TX_CLK, and `sent`, what the last run gave `link->transmitFrame`.
`SeeTXDChange`, `SeeTX_ENChange` and `SeeTX_ERChange` are the callbacks,
with any level and in any order between two edges; `Run` is `run()` on a
rising edge the PHY is queued for, with both branches, the hand-over of the
frame and the requeue; `RisingEdge` is a rising edge it is not queued for,
at which nothing happens; `FallingEdge` is the other half of the period.

The check sequence is the constant operator `Crc(_)`: `crc8` and `crc32`
are not in the sources, and the properties need of it only that receiver,
transmitter and their specifications use the same one. The runs give it the
sum of the bytes modulo 256, in one byte (`CrcSize = 1`); `MinFrameSize`
keeps its role (padding in Rx, the length test in Tx) at a small value.
Pins change between edges. A pin that carries a clock signal
(`isClock()`), and a change at the very tick of an edge, are not modelled.

### The receive path

`MIIReceivePath` puts three actors on the clock RX_CLK: the receiver
(`Phy == INSTANCE EthernetPhyRx`), the port behind RXD (`P == INSTANCE
Port`, with one thread, no events and no ready signals) and the thread
`Receiver`. Their variables are those of the two modules, and

| Variable | Meaning |
|---|---|
| `lag` | the edges of RX_CLK that have passed since the port was last brought up to date: the m of the next call of `Port` |
| `phyDue` | the last edge was a falling one and the receiver has not yet run for it |
| `late` | the edges that have passed while the thread could have issued its instruction |
| `pc` | the instruction the thread issues next |
| `words`, `given` | history: the words the thread's inputs have returned since it armed, and the frame the link last gave the receiver |

| Action | What happens |
|---|---|
| `Tick` | The time of the next edge comes. It is not taken while the receiver is due, while the port is queued for an earlier edge, or when the thread would be more than `MaxLate` edges late. |
| `PortRun` | `Port::run` at the time the port is queued for (`P!Run`). |
| `PhyRun` | `EthernetPhyRx::run` at a falling edge: a step of `Phy` (`Poll`, `Advance` or `Pass`), and, when `setRXD` finds the nibble changed, `P!SeePinsChange` with the value as the receiver computed it and the edges that have passed. |
| `Configure`, `Arm`, `Input` | The thread's program: `setc` (in use), `setBuffered`, `setTransferWidth`, `setData(0xD)`, then for each frame `setCondition(EQ)` and `in` until the delimiter's word and the words of a frame of the minimum size are read. An instruction that deschedules the thread is issued again when the port has woken it. |

The thread's program, the scheduler and the link are not in the sources:
they are the environment, written from the specification. The link gives a
frame only while the thread waits for the delimiter (`Offered`): a frame
that starts while the thread is elsewhere is not what the properties are
about. RX_DV, RX_ER and the port behind RX_CLK are left out; the clock block
of the RXD port is taken to carry the edges of RX_CLK, the receiver running
at the falling ones and the port sampling at the rising ones.

### The system calls

`SyscallHandler` has `sh`, the members of the class (`fds`,
`doneSyscallsRequired`, `doneSyscallsSeen`, and `arg` and `minBufBytes` of
`cmdLine`), `host`, the descriptors open in the simulator's process, and
what a call leaves behind: `r0`, `outcome`, `retval`, and `access`, the
address and size of the memory the call let the host touch. `owned`,
`required` and `dones` are history variables for the properties. Each case
of `doSyscall` is an action whose parameters are the registers it reads,
taken from small sets that hold valid and invalid values, and the host's
answer where the host may fail (`open`, `close`, `read`, `write`, `lseek`,
`rename`, `remove`: each fails by choice as well as for the reasons the
model knows, such as a descriptor that is not open). The host gives the lowest free descriptor,
as POSIX says, so that a descriptor closed and opened again has the same
number. Memory is two intervals of addresses (`isValidRamAddress`,
`isValidRomAddress`) and, for `getString`, the set of addresses that hold a
zero byte. A word has `WordBits` bits and every sum of addresses is taken
modulo `2^WordBits`. After `EXIT` no call is made: the simulation is over,
and the model stops (the run does not check for deadlock).

`Init` is the handler as the loader leaves it: constructed (slots 0 to 2
hold duplicates of the standard descriptors, slots 3 to 5 hold 0), with
`setDoneSyscallsRequired` and `setCmdLine` applied.

## 3. Properties

The passing runs of the port check four invariants, an action property, a
refinement and two liveness properties.

**`FastMatchesSlow`** (hazard: the fast-forward of `update`). After
`scheduleUpdateIfNeeded()`, `Update(port, m)` and the edge-by-edge reference
`EdgeByEdge(port, m)` give the same port record *and the same log of
callbacks at the same edges*, for every m the scheduler may let pass. The
comparison is on all members but `timestampReg` and an unused `readyIn`.

**`NoUnscheduledChange`** (hazard: the heuristic). After
`scheduleUpdateIfNeeded()`, seeing every edge before the one the port is
queued for makes no callback: nothing visible happens at a tick for which
the port is not in the queue.

**`ParkedThreadIsReleased`** (hazard: release of parked threads). A thread
that an instruction descheduled, in any of the three slots, is eventually
scheduled again. Checked for the unbuffered port without ready signals: with
a ready-in signal that stays low the thread rightly waits for ever, and on a
buffered port `setpsc` can park `in` for good (run `port_entries`).

**`EventIsRaised`** (hazard: an event that waits for an edge nobody runs
the port for). `Armed` says that events are permitted on an input port in
use, nothing is held, and the pins meet the condition; `Armed ~> ~Armed`
says that this does not last: the event is raised (or the owner, or the
pins, end the state). It needs `seeEventEnable` to queue the port for the
sampling edge, the input half of the heuristic to count permitted events
as a reason (line 1168), `run()` to come, and `seeSamplingEdge` to call
`event()`. The mutant's `seeSamplingEdge` wakes the thread and raises no
event.

**`HeldValueIsKept`** (an action property; hazard: the clock running on
between an event and the `in` that takes its value). While an input port
holds a valid transfer register for an event (`Held`), no step replaces or
invalidates it, for as long as `holdTransferReg` stays set: neither the
sampling edges of the slow path, nor the closed forms of the fast path, nor
an instruction of the owner other than the ones that end the hold. The
mutant latches without looking at `holdTransferReg`.

**`OutputInOrder`** (a refinement; hazard: the two registers between `out`
and the pins). `Port` implements `PortOutput` (section 6): across every
step, the pins of an output port change only to the entry that was written
next, and the entries that wait change only by losing those that were
shown, by gaining entries at the end (`out`, `outpw`, and `setTransferWidth`
when it lengthens the word in the transfer register) or by losing all
(`clearBuf`, `setCInUse`, the turn to input). The mutant's `out` sets
`validShiftRegEntries` to 1 on an output port as it does on an input port,
which forgets the second half of the word being shifted.

**`OneEntryPerEdge`** (hazard: the same, one edge at a time). From every
reachable state one edge of the clock leaves the output as it is, shows the
next entry and removes it, or turns a port that has nothing left into an
input port (`Tick` of `PortOutput`), and a rising edge leaves it as it is:
the pins change on the falling edges and are stable at the rising ones
(scenario S1 of the specification counts the entries of a word by rising
edges). This is where the rate is checked: a
step of `Port` may pass several edges, and `OutputInOrder` allows it as
many entries. Checked with two entries in the shift register
(`port_buffered`; the mutant counts an entry down without shifting the
register), with a value held back for a port time (`port_plain`) and with
a ready-in signal that is low (`port_ready`; in both the mutant leaves the
transfer register valid when it is taken, and the word is shown twice). It
does not hold when a port time is met while the shift register still holds
entries (`MCPortTimedOutput.cfg`, below).

Both are stated for ports whose counts of entries are within the register
(`WithinRegister`); the run `port_entries` shows how they leave it.

**`TypeOK`**: the type of each member; `data` within the port's width, the
port counter within its bits. It is checked in `port_plain` and
`port_types`, whose regimes between them hold every operand and every
field value of the others.

`FastMatchesSlow` and `NoUnscheduledChange` are stated for the states in
which the code keeps its promise. Four kinds of state are left out, each defined in `Port.tla` and
each a way in which the code is known to part from the edges:

| Predicate | State | What the code does |
|---|---|---|
| `TimedInputSkipsLatching` | timed input port without ready-out | The fast path (lines 359-388) moves `portCounter` only; `seeSamplingEdge` fills the transfer register on every sampling edge before the time. `MCPortEquivalence.cfg`. |
| `TimedSync` | `sync` parked on an output port with a time set | The heuristic (line 1135) asks for the edge at which the time is met; the shift register drains, and `sync` should be released, before. |
| `InputOverrun` | input port with `validShiftRegEntries >= portShiftCount` | `seeSamplingEdge` counts on without bound, the closed form of the fast path wraps modulo `shiftRegEntries`. Run `port_entries`. |
| `StaleReadyOut` | `readyOut` high on a port that no longer uses ready-out | `setMasterSlave`/`setReadyMode` leave `readyOut`; the next falling edge drops it, the heuristic does not ask for that edge. |

Three more statements are defined in `Port.tla` and are in no listed run,
because the code does not keep them once the case they are about can
happen, and without that case they say nothing:

- `ParkedThreadIsHeld`: a descheduled thread is in `pausedIn`, `pausedOut`
  or `pausedSync`, the only places from which an edge schedules a thread.
  The hazard is a second thread parking in a slot that is taken; the
  listed runs have one thread. With two it fails (`MCPortTwoThreads.cfg`).
- `InputIsOfThePins`: the word an edge latches in the transfer register of
  an input port ends in the sample of that edge, cut to the port's width.
  `seeSamplingEdge` shifts the register down by one entry and ors the pins
  in at the top, so this needs the bits it ors into to be empty. In the
  listed runs the operands of `out` and the values on the pins fit the
  port. With a wider operand, or a driver that puts eight bits on four
  pins, as `EthernetPhyRx` does, it fails (`MCPortWideOut.cfg`,
  `MCPortWidePins.cfg`).
- `SubscribedToSource` and `ReadyPortOfOneSource`: a port with `readyOutOf`
  set is in the list of that port, and of no other. The hazard is
  `setReady` on a port that has a source already; the listed runs have one
  source. With two, the first holds (`MCPortSources.cfg`) and the second
  fails (`MCPortWired.cfg`): line 1022 detaches the port from the new
  source and leaves it in the list of the old one.

Two runs of the port expect a violation: each checks a sentence of the
specification against the code and TLC shows the sequence of calls that
breaks it. `PROJECT.json` ("findings") says what each shows. Eight more
counterexamples, those of the three statements above among them, are kept
as configurations beside the listed runs
(`tlc -config MCPortEquivalence.cfg MCPort`, and likewise
`MCPortObserver.cfg`, `MCPortWired.cfg`, `MCPortHeld.cfg`,
`MCPortTimedOutput.cfg`, `MCPortTwoThreads.cfg`, `MCPortWideOut.cfg` and
`MCPortWidePins.cfg`).

| Run | Property | Counterexample |
|---|---|---|
| `port_always_scheduled` | `AlwaysScheduled`: in every state nothing happens before the queued edge | `setCInUse`, `out`, run, `setPortTime(2)`: the time is met two falling edges on, the port turns into an input and the pins fall to 0, and the port is not in the queue, because `setPortTime` does not call `scheduleUpdateIfNeeded()`. |
| (`MCPortEquivalence.cfg`) | `FastEqualsSlow`: fast and slow path agree on the observable state | `setCInUse`, `setPortTime(2)` on the input port: after three edges `transferRegValid` is true edge by edge and false on the fast path. |
| (`MCPortObserver.cfg`) | `ObserverSeesPins`: the loopback has the value the pins carry | The pins are driven to 5 from outside, one sampling edge, `out(5)`: the port loads 5, and `pinsChange` compares it with the 5 it sampled. The observer still has 0. |
| `port_entries` | `EntriesWithinRegister`: `validShiftRegEntries <= shiftRegEntries` | transfer width 8, buffered, one entry shifted in, `setpsc(4)`: `portShiftCount` = 1 = `validShiftRegEntries`; the next sampling edge counts to 2 without latching, and on. |
| (`MCPortWired.cfg`) | `ReadyPortOfOneSource`: the port is in the list of `readyOutOf` and of no other port | `setCInUse`, `setReady(s1)`, `setReady(s2)`: the second call detaches the port from `s2`, where it is not, sets `readyOutOf` to `s2` and attaches it there. The port is in both lists; `setCInUse` would later take it from that of `s2` only, and `s1` goes on calling `outputValue` on it. |
| (`MCPortTimedOutput.cfg`) | `OneEntryPerEdge`, with a port time on a port of two entries | `setCInUse`, `out(0x25)`, `setTransferWidth(8)`, run: the shift register holds 5 and 2, and 5 is on the pins. `setPortTime(1)`: on the next falling edge the counter meets the time, `validShiftRegEntries` is set to 0 (line 517) and, the transfer register being empty, the port turns into an input port. The 2 is never shown. |
| (`MCPortTwoThreads.cfg`) | `ParkedThreadIsHeld`, with two threads | `setCInUse`, `in` of `t1`, which parks in `pausedIn`, `in` of `t2`: `pausedIn = &thread` (line 728) replaces `t1` by `t2`. The next sampling edge wakes `t2`; nothing holds `t1`. |
| (`MCPortWideOut.cfg`) | `InputIsOfThePins`, with an operand of `out` wider than the port | `setCInUse`, `out(0x25)` on the 4-bit port, run: the shift register holds 0x25 and the pins carry 5. `in` parks the thread; the next falling edge turns the port into an input port, the shift register as it is. The sampling edge shifts it down by four bits and ors the pins, which carry 0, in (lines 589-590): the transfer register is 2, and that is what `in` returns. |
| (`MCPortWidePins.cfg`) | `InputIsOfThePins`, with eight bits on the pins | The pins are driven to 0x5a, `setCInUse`, one sampling edge: `seePinsChange` kept the value as given (line 248), and the transfer register of the 4-bit port is 0x5a. |
| (`MCPortHeld.cfg`) | `ParkedThreadIsReleased`, with events | `setCInUse`, a few edges that fill the transfer register, `seeEventEnable` (the event is raised, the transfer register held), `setPortTime(2)`, `in`: the time is not met and the thread parks in `pausedIn`. While the register is held `seeSamplingEdge` skips the block that latches and wakes (line 610), and only the parked thread's `in` would end the hold. |

### The SPI flash

**`MISOCarriesFile`**. When the header is the command READ and an address
A, the level of MISO after the n-th falling edge since is bit n of
`F[A mod |F|], F[(A+1) mod |F|], ...`, highest bit of each byte first,
computed from `header`, `sampled` and `Mem` without the flash's registers.
It holds over every sequence of callbacks of the run `spi_read`, where reads
go round a file of three bytes several times and are abandoned at every
bit. The mutant leaves `sendBitsRemaining` as it is in `reset()`: a read
abandoned inside a byte then makes the next one start with what is left.

**`MISOQuietOutsideRead`** (an action property). MISO changes only in a
step in which the header is a complete READ: after another command the flash
stays in `UNKNOWN_CMD`, whatever is clocked in, until SS has risen.

**`TypeOK`** has `sendBitsRemaining \in 0 .. ByteBits`: the unsigned count
is never decremented at zero.

`MCSPIFlashWrap.cfg`, a configuration kept beside the listed runs, checks
`MISOCarriesFile` with reads long enough for `readAddress` to pass
`2^WordBits`, and TLC finds it violated: the address
goes back to 0 and the file is continued at `F[0]`, not at
`F[2^WordBits mod |F|]`. With the code's widths that is a read of 4 GiB
from a file whose length is no power of two.

### The Ethernet PHY

**`RxImplementsMII`** (refinement). `MIIReceive` gives the wire format as
data: for a frame `f` of the link, RX_DV rises with the preamble nibble,
then come the start frame delimiter and the nibbles of
`Padded(f) \o Crc(Padded(f))`, low nibble of each byte first, then RX_DV
falls and `InterframeGap` periods pass. `EthernetPhyRx` is shown to
implement it under the mapping `rxd <- rx.RXD % 16`, `rxdv <- rx.RX_DV`,
`rest <- Rest(rx)` (the nibbles that state, buffer and `nibblesReceieved`
say are still to come), `idle <- wait`. The mutant sends the high nibble
first. RXD is read modulo 16, as four wires carry it: the code masks
the value with `0xff` (line 285), so what `setRXD` passes to the port for
the low nibble of a byte is the whole byte. `Port` does not cut the value
down (`InputIsOfThePins` under `MCPortWidePins.cfg`): on a port of transfer
width 4 the thread reads the byte.

**`LinkIsPolledAgain`** (liveness). Again and again the receiver is in
`IDLE` with no gap left, in which state `run()` polls the link. The mutant
leaves the state as it is at the end of the frame.

**`TxImplementsMII`** (refinement). `MIITransmit` is a transmitter that
looks at the wires on *every* rising edge: outside a frame it starts one
when TX_EN is high and TXD is the delimiter, inside it takes a nibble, or
notes an error, while TX_EN is high, and on the first edge with TX_EN low
it hands the link the octets of the nibbles taken (an odd last nibble is
dropped), less their check sequence, provided no error was seen, the frame
has the minimum size and the check sequence is right. `EthernetPhyTx`,
which is run only when queued, implements it under the mapping given in
the module: should an edge at which `MIITransmit` acts find the PHY not
queued, `RisingEdge` is no step of `MIITransmit` and TLC shows it. The
mutant assembles the octets high nibble first.

**`QueuedWhileNeeded`**. Whenever the PHY is in a frame or the wires show a
possible delimiter, it is in the queue. The mutant has the callbacks push
the PHY inside frames and not outside.

**`FrameIsEnded`** (liveness). A frame whose TX_EN has fallen is ended by
`reset()`, unless TX_EN rises again first. The mutant drops the requeue at
the end of `run()`.

**`TypeOK`** of the two modules carries, beside the types, that a frame on
the wire has at least the minimum size and fits the buffer (Rx; the mutant
leaves out the padding), and that between frames nothing of the last frame
is left (Tx; the mutant's `reset()` keeps `hasPrevNibble`).

### The receive path

**`ReceivedIsGiven`** (hazards: a word overwritten before it is taken; the
realignment on the delimiter; pin changes between lazy updates; the `0xff`
mask). The words the thread's inputs have returned since it armed are a
prefix of `Expected(given)`: the word that ends with the delimiter, then
the bytes of the frame the link gave the receiver, padded, and of its check
sequence. `Expected` is computed from the frame alone; the words come out
of `P!InValue`, the transfer register as `in` reads it. Between the two lie
`receiveFrame`, the four states of `run`, `setRXD`, which tells the port
only of changes, `seePinsChange`, the sampling edges that `update` sees one
by one or skips on its fast path, the realignment of `seeSamplingEdge`, the
latch and the refill of `in`. The frame may start at either phase of the
port's count of entries, and the thread comes up to `MaxLate` edges after
it could. The mutant's realignment leaves `validShiftRegEntries` where the
phase had put it.

Two configurations beside the run show where the statement ends. Under
`MCMIIReceivePathLate.cfg` the thread may be four edges late, which is the
time of one transfer of 8 bits: the transfer register is latched again
before `in` has taken the word in it, and the thread reads the frame with a
byte missing. The port has no flag for it. Under
`MCMIIReceivePathNibbles.cfg` the transfer width is 4 and the thread reads
nibbles: for the low nibble of the byte `0x5a` the receiver gives
`seePinsChange` the value `0x5a` (line 285 masks with `0xff`), the port
shifts it in as given, and `in` returns 90 where the frame has 10. With a
transfer width of 8 the four bits too many are shifted out again by the
next sampling edge, on which the high nibble, which is what they were,
comes in: the run `mii_receive` reads every frame right, and the bug is
hidden for as long as the program reads bytes.

**`FrameIsTaken`** (liveness; hazard: the thread parked in `in` is woken
for the delimiter's word and for every word after it). A frame the receiver
has started to drive is read to its last word and the thread arms again:
`rx.state = "TX_SFD2" ~> pc = "setCondition"`. It needs the port queued for
the sampling edge on which the condition is met, the realignment to leave
the condition at `FULL`, and `seeSamplingEdge` to schedule the thread it
finds in `pausedIn`. The mutant empties the slot and does not schedule.

**`TypeOK`** of the composition has, beside the types of the two modules,
that `validShiftRegEntries` stays within the entries of a transfer: the
program never brings the port into the `InputOverrun` states. The mutant
lets the port counter run past its bits.

### The system calls

**`NoDescriptorLost`**. Every host descriptor that `dup` or `open` gave
the handler and `close` has not closed is in the table `fds`. It holds
over all orders of open and close with the table full, the host out of
descriptors and either call failing. The mutant calls the host's `open`
before it looks for a free slot.

**`DoneCountsCores`**. `doneSyscallsRequired` is the count the loader set
less the number of cores that have called `done`, and the simulation has
not continued past the last of them. The mutant counts calls, not cores.

**`HostStaysInMemory`**. The memory a call gives the host (`read`,
`write`, `time`, `argv`, the load image callback) lies within RAM or
within ROM, for buffers whose end does not pass the end of the address
space. The mutant checks the first address only.

**`TypeOK`** has `minBufBytes = StrPos(arg)`, the assertion at the end of
`doOsCallArgv`: the loop writes as many bytes as `setCmdLine` counted. The
mutant forgets the zero byte of each argument.

`MCSyscallHandlerMemory.cfg`, a configuration kept beside the listed
runs, checks `HostGivenMemoryOnly`, the same without the condition on the
end of the buffer, and TLC finds it violated: with
6-bit words, RAM at 32 to 55, `read(fd, 52, 44)` passes `getRamBuffer`
because 52 + 44 = 96 is 32 modulo 64, a valid address, and the host is
told to write 44 bytes at an address that has 4 left. With the code's
widths that is a size near 2^32.

Two more things the model shows and no run watches. Slots 3 to 5 of the
table are initialised to host descriptor 0 and are valid: `close(3)` by
the program closes the simulator's standard input, and if the host then
gives descriptor 0 to the next `open`, the slots 4 and 5 name that file
too. And `setDoneSyscallsRequired(0)` makes the first `done` wrap the
count to `2^32 - 1`; the constructor sets 1 (line 96), and the runs start
from 1 to 3.

Every property of a passing run has a mutant in `PROJECT.json`: a plausible
bug in one mapped definition under which TLC finds the property violated.

## 4. Runs and bounds

One port and one thread. The space of configurations is split into five
regimes, each exploring all interleavings of its operations:

| Run | cfg | Regime |
|---|---|---|
| `port_plain` | `MCPortPlain.cfg` | 4-bit port, no ready signals, `setPortTime(2)` with a 2-bit counter; with fairness and the liveness property |
| `port_buffered` | `MCPortBuffered.cfg` | transfer widths 4 and 8, `inpw`/`outpw`/`setpsc` with 4 and 8 bits; with the refinement of `PortOutput` |
| `port_ready` | `MCPortReady.cfg` | ready modes strobed and handshake, master and slave, ready-in 0 and 1 |
| `port_types` | `MCPortTypes.cfg` | 1-bit port: inversion, both sampling edges, port types, `setReady` with one source whose level changes, `setCInUse(false)` |
| `port_events` | `MCPortEvents.cfg` | 4-bit port: conditions EQ/NEQ/AFTER with `setData`, events enabled and disabled; with fairness and the liveness property |
| (not a listed run) | `MCPortWired.cfg` | 1-bit port, data and ready port, `setReady` with two sources |

| Bound | Value | Why it is enough |
|---|---|---|
| `CounterBits` | 1, or 2 with timed operations | The counter wraps within a few edges, so `timeReg` before, at and after `portCounter` and the full wrap all occur. |
| `MaxSkip` | `2 * CounterMod + 2` | The longest quiet time a step may pass: twice round the counter plus one edge of each type, so every time is met and every shift register has drained within one fast-forward. |
| `OpSkip` | 1 | Edges that pass before an instruction: 0 or 1 reach both phases of the clock; longer gaps are made by `Peek`, which passes up to `MaxSkip` edges and does nothing else. In `MIIReceivePath` both are `MaxLag`. |
| `MaxEntries` | 3 | Caps `validShiftRegEntries`, which the code lets grow without bound in the `InputOverrun` states; a step that would pass it is not taken. |
| `Sources` | one port, two in `MCPortWired.cfg` and `MCPortSources.cfg` | One source is enough for a ready port to follow its signal and to be re-attached to it; the second is what `setReady` needs to go wrong, and with it the regime of `port_types` has 1.6 million states, so the two-source regime is a 1-bit port with the port types DATAPORT and READYPORT only. |
| `PinValues`, `OutValues`, `DataValues` | two values each at most | Enough for equal/unequal in conditions and in the pin-change comparison; `DataValues` holds a value wider than the port so that the mask of `setData` matters; in the buffered regime `OutValues` holds a two-entry value whose entries differ. `PinValues` may hold values of up to eight bits, which is what a driver such as the PHY gives `seePinsChange`; the passing runs keep to the four bits of the port, `MCPortWidePins.cfg` does not. |

The SPI flash has two configurations, both with bytes of 2 bits, 3 address
bytes, words of 8 bits, `ReadCmd` = 3 and the file `<<2, 1, 3>>`:

| Run | cfg | Bound | Why |
|---|---|---|---|
| `spi_read` | `MCSPIFlash.cfg` | `MaxBits` = 24 | A selection samples at most 24 bits: the header (8) and 8 bytes read, from each of the 64 addresses, so the file of 3 bytes is gone round more than twice and the address stays below `2^WordBits`. |
| (not a listed run) | `MCSPIFlashWrap.cfg` | `MaxBits` = 520 | 256 bytes read: `readAddress` wraps from every start address. |

The ratio of the widths is the code's (address of 3 bytes in a word of 4),
and 3 divides no power of two, as a file's length need not.

`InUseValues`, `ConditionValues` and the like restrict the operands of the
configuration calls to the regime of the run.

The PHY and the system calls:

| Run | cfg | Bounds | Why they are enough |
|---|---|---|---|
| `eth_rx` | `MCEthernetPhyRx.cfg` | frames of 0 to 3 bytes over {0, 93, 213, 255}; `MinFrameSize` 3, `CrcSize` 1, `MaxFrameSize` 4, `InterframeGap` 3 | Frames shorter than, equal to and longer than the minimum less the check sequence, so padding by 2, 1 and 0 bytes and the full buffer occur; bytes whose nibbles differ and whose low nibble is the preamble (5 in 213) or the delimiter (13 in 93, 213). |
| `eth_tx` | `MCEthernetPhyTx.cfg` | `Levels` {0, 5, 13}, `MinFrameSize` 2, `CrcSize` 1, `MaxFrame` 3 | TXD is the delimiter, the preamble or neither; frames of 0 to 3 bytes with and without a last odd nibble, too short, with a wrong and with a right check sequence (`<<0, 0>>`, `<<5, 5>>`, `<<208, 208>>` and others sum to themselves) are all assembled; a run that would take a fourth byte is not taken. |
| `syscalls` | `MCSyscallHandler.cfg` | `MaxFds` 8, `HostFds` 9, words of 6 bits; RAM 32-55, ROM 8-15; two cores, counts 1 to 3; command lines of 0 and 2 arguments | The table (2 free slots) fills before the host (3 free descriptors) does, and after `close(3)` the host fills first; descriptors passed are valid, free, out of range and negative; addresses lie below, in and between the memories, buffers end inside, at and past the end of RAM; a count above the number of cores is never reached. |
| (not a listed run) | `MCSyscallHandlerMemory.cfg` | the same | `Sizes` holds 44, with which 52 + 44 wraps to the base of RAM. |

The receive path, `mii_receive` (`MCMIIReceivePath.cfg`): 19846 states.

| Bound | Value | Why it is enough |
|---|---|---|
| `PortWidth`, `TransferWidth` | 4, 8 | The four wires of RXD and the byte-wide transfers of an MII receiver: two entries to a word, so a frame can start at either phase of the entry count and the realignment has something to do. `MCMIIReceivePathNibbles.cfg` has 4. |
| `MaxLate` | 3 | A transfer takes four edges (two sampling edges): three is the latest a thread can be and still find every word. With 4 the property fails (`MCMIIReceivePathLate.cfg`), so the bound is the real one and not a convenience. |
| `MaxLag` | 8 | Caps `lag`, which grows without bound while the link is idle, the thread parked and the port not queued: the link answers "no frame" only while two more edges fit, so a frame comes before the count reaches the bound. It is twice round the 2-bit port counter; counts up to 7 occur, and inside a frame `update` is called with three and more edges to pass, on its fast path. |
| `Frames` | the sequences of 0 to 2 bytes over {0, 90, 211} | With `MinFrameSize` 3 and `CrcSize` 1: padded by 2, 1 and 0 bytes. `0x5a` and `0xd3` have nibbles that differ, 0 has equal ones (`setRXD` is silent between them); the low nibble of `0xd3` is 3, its high nibble the delimiter, which the armed condition must not take for one after the frame has begun; `<<0, 0>>` follows the delimiter with five equal nibbles. |
| `CounterBits`, `InterframeGap` | 2, 3 | The port counter wraps inside a frame; after the gap the link is polled again and the next frame is read by the same program. |

## 5. Fairness

`FairSpec` adds two assumptions to `Spec`.

- A port in the queue is eventually run:
  `[]<>(wake = Never) \/ []<><<Run>>_vars`. The scheduler's main loop pops
  the queue until it is empty and simulated time has no other way to
  advance, so a queued runnable is run. It is written without `ENABLED`
  (`Run` is enabled exactly when `wake # Never`, up to the `MaxEntries`
  bound).
- The clock block is not restarted for ever: `<>[][~ClockStart]_vars`. Every
  restart sets `portCounter` to 0, so a port whose clock is restarted again
  and again never meets its time; the property is about ports whose counter
  runs on.

The runs `port_plain` and `port_events` check `FairSpec`. No fairness is
assumed of threads, of the pins' driver or of the sources of a ready port:
they may stop at any time, and `EventIsRaised` holds because the port,
once queued, raises the event by itself. `SPIFlash` has no liveness property and no fairness: the flash
acts only in the master's callbacks.

`EthernetPhyRx`: `FairSpec == Spec /\ WF_vars(Advance) /\ WF_vars(Pass)`.
Every path through `run()` ends in `scheduler.push(*this, nextTime)` (line
300), and the scheduler runs what is queued, so a receiver in the middle of
a frame or of the gap takes its next step. Nothing is assumed of `Poll`,
the step that needs the link.

`EthernetPhyTx`: `FairSpec == Spec /\ WF_vars(Run \/ RisingEdge) /\
WF_vars(FallingEdge)`. TX_CLK is a clock signal that the constructor starts
(lines 69-74) and nothing stops: its edges keep coming, and at a rising
edge the PHY is run if it is queued. Nothing is assumed of the pin
callbacks. Weak fairness is enough in both: an edge, once due, stays due
until it is taken.

`MIIReceivePath`: `FairSpec` is weak fairness of the four things the
scheduler's loop does. Time passes (`WF_vars(Tick)`); the port is run when
the time it is queued for has come (`lag = wake + 1`); the receiver is run
when a falling edge has come (`phyDue`); the thread issues its instruction
when it is not descheduled. The thread is a runnable like the others: unlike
the threads of `Port` by itself, which may stop at any time, the thread of
this module is a program that the core executes. The last three are written
as `[]<>(~due) \/ []<><<A>>_vars`, with the condition under which the
action is due in place of `ENABLED <<A>>_vars`, which TLC would have to
evaluate through the whole of `Update` in every state. While the port's
queue entry is for the present tick (`wake = -1`) only the port runs, as in
`Port`. Nothing is assumed of the link: `FrameIsTaken` is about frames that
were given.

`SyscallHandler` has no liveness property: every call returns at once, and
whether the program makes another is the program's affair.

## 6. Refinement

| Detailed | Abstract | Mapping | Property |
|---|---|---|---|
| `EthernetPhyRx` | `MIIReceive` | `rxd <- rx.RXD % 16`, `rxdv <- rx.RX_DV`, `rest <- Rest(rx)`, `idle <- wait` | `RxImplementsMII` |
| `Port` | `PortOutput` | `out <- Output(port)`: `driving <- outputPort`, `pins <- getPinsOutputValue()`, `pending <-` the entries of `shiftReg` behind the first, up to `validShiftRegEntries`, then the `portShiftCount` entries of a valid `transferReg` | `OutputInOrder`; `OneEntryPerEdge` for single edges |
| `EthernetPhyTx` | `MIITransmit` | `txd`, `txen`, `txer <-` the three signals of `tx`; `active <- tx.inFrame`, `bad <- tx.hadError`, `burst <- Burst(tx)`, `link <- sent`; `clk` is shared | `TxImplementsMII` |

The abstract modules are written from the wire format (4-bit nibbles, the
low nibble of a byte first, the delimiter `5, D`, padding to the minimum
size, the check sequence last) and hold no member of the classes: a frame
is a sequence of nibbles still to be driven (Rx) or taken so far (Tx). The
detailed modules hold the code's byte buffers, counters and flags, and the
mappings compute the one from the other.

The receiver drives one preamble nibble before the delimiter (states
`IDLE` and `TX_SFD2`), and `MIIReceive` says one. Scenario S3 of the
specification expects fourteen, and the check sequence right after a
payload of three bytes, where `receiveFrame` first pads the frame to 60
bytes; `PROJECT.json` lists the difference among the findings.

`PortOutput` knows an output port as what is on its pins and the entries
still to come. A step of it lets the first k of them reach the pins, one
after the other, and then lets the owner add entries at the end
(`Accept`), drop all (`Abandon`), or stop driving (`Release`); a port that
starts to drive (`Open`) may show anything until its first entry arrives,
which is what `out` on an input port does (its pins carry what the shift
register last sampled; finding `ObserverSeesPins`). `Tick` is what one edge
may do. The mapping `Output` reads the entries off the two registers by
division, independently of `nextShiftRegOutputPort`; a port whose counts
exceed its register is mapped as a port that does not drive. The
refinement is checked for ports that are not inverted.

## 7. Not modelled, and the plan

In this order:

1. **An abstract specification of input**, the counterpart of
   `PortOutput`: the values `in` returns are the pins' values at
   consecutive sampling edges, none twice. `ReceivedIsGiven` says it of
   the one program of `MIIReceivePath`; for every sequence of instructions
   it is open.
2. **The other peripherals composed with Port**: the transmit half of the
   PHY behind the ports TXD and TX_EN, where an output port's
   `outputValue` callbacks are the transmitter's pin callbacks and TX_CLK
   is a clock signal on a pin; MISO, MOSI, SCLK and SS of the flash, four
   ports of which the program drives three. Of the receive path, RX_DV as
   a second port (a program that reads RXD while RX_DV is high, where
   this one counts the words), and frames longer than the minimum.
3. **Two threads on one port**: the paused slots hold one thread each, and
   `setCInUse` does not look at them. `MCPortTwoThreads.cfg` shows the
   first consequence; with a second thread the regimes of the port runs
   grow past what a run can explore, and a run of its own needs a regime
   cut down to the instructions that park.
4. **Clock signals on pins**: the `isClock()` branches of `Port::update`
   and of `EthernetPhyTx::possibleSFD`.

Of the events, interrupts, event vectors and the enable bits of the thread
are in `EventableResource` and `Thread`, which are not in the sources; the
model takes an event to be delivered when it is raised. A source of a ready
port is a level and a list, not a second port record: its own inversion
(`handleReadyOutChange` applies the source's `getEffectiveValue`, `setReady`
the ready port's) is left out.

Left out for good: the TAP device behind `NetworkLink` and the host's
files (I/O), the peripheral descriptors and factories (wiring at start-up),
`convertOpenFlags`, `convertOpenMode` and `doException` in
`SyscallHandler` (bit-for-bit translation of flags, and printing),
`WatchpointException` (no behaviour).
