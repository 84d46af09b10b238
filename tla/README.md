# An FIR accelerator on Caravel: models, checks and proofs

The repository is a Caravel SoC (management core, housekeeping, pads) with an
FIR accelerator in its user area, the firmware that drives it, the libraries
that firmware comes with, a testbench that watches the pins, and the FPGA
project that loads and releases the chip. Paths below are relative to `src/`.

Modelled are the parts in which something is decided by order: the user area,
the firmware and the test in full; of the harness, the peripherals the firmware
talks to and the start-up of the pads; the timer library; the C drivers of the
FPGA project. Code that SpinalHDL and LiteX generated (processor, bus) is
modelled only where one of these meets it.

## 1. The system

    FPGA host (C drivers)                        loads and releases the chip
        |
    VexRiscv --iBus/dBus--> shared bus --> wrapper --+--> program memory
    (firmware)              (mgmt_core)   (delay)    +--> bridge --> FIR engine
        |    |                  |  |                        (AXI lite, 2 streams)
        |  timer                |  +--> CSR banks: UART, SPI master, ...
        |                       +--> housekeeping --> pads --> testbench

| Component | State it keeps | Operations | What must be right |
|---|---|---|---|
| FIR engine, `fir.v`, `bram11.v` | state machine, counter, two data pointers, accumulator, `ap_*`, length, read channel, tap and data memories | lite write, lite read, take a sample, compute, give an output, acknowledge | each output is the convolution of this run's samples; one output for a sample; `ap_done` exactly at the end; nothing survives from an earlier run |
| Wrapper, `user_project_interface.v` | `count`, `ready` | decode two windows, delay a transaction, choose the acknowledge | no acknowledge for a request other than the one it is due to |
| Bridge, `user_project_axi.v` | four done flags, `read_data`, acknowledge | one AXI handshake per transaction | a sample is sent once and an output taken once, however long the request is held |
| Program memory, `user_project_bram.v`, `bram.v` | words, read register | read, write by bytes | a read returns the last write, also behind another window's access |
| Firmware, `fir_control.c`, `counter_la_fir.c` | loop counter, `program_config`, outputs | configure, start, poll, send, fetch, read the end | it stores the convolution, returns with the engine idle, and no poll waits for ever |
| End-to-end test, `counter_la_fir_tb.v` | position in the golden outputs, latency counter | wait for levels of the pins, sample a byte of them | it misses no output and does not take one value for another |
| Start-up: `counter_la_fir.c`, `housekeeping.v`, `gpio_control_block.v` | pad configurations, back-door state machine, 32-bit output register and its buffer, serial loader, 38 shift registers | configure a pad, ask for a transfer, poll it, write the pins; SPI edges | no byte is lost or misplaced, no pad shows a mixed mode, the pins change as words, the start-up ends |
| Register access: `csr.h`, `hw/common.h`, `defs.h` against `mgmt_core.v` | none | read, write, extract and replace a field, wide registers and buffers | every name reaches its register; a field's write leaves the others alone |
| UART and SPI: `stub.c`, `isr.c`, `csr.h` with `mgmt_core.v` | two queues, events and their edge detectors, interrupt enable and mask, SPI state | `print`, `putchar`, field writes, `isr`, one character in or out, one SPI clock | output in order; the event of a character that comes in is not lost; a masked interrupt cannot hold `print` |
| Timer library, `simple_system_common.c` | `time_elapsed`, `time_increment`, `mtimecmp`, `mcycle` | `timer_read`, `timecmp_update`, `timer_enable`, `timer_disable`, `get_elapsed_time`, `pcount_*`, the handler | 64-bit values in two words are consistent; no interrupt early, none lost |
| Host drivers, `vivado/vitis_prj/*/drivers/` | the register windows of three cores, IsReady, mappings and descriptors | start, poll, set and get words, interrupts, Initialize, Release | "done" is of the caller's own run; settings survive read-modify-write; nothing leaks |
| Shared bus, processor, verification models, unused memory | see `PROJECT.json` | | |

**Interaction.** The processor's two buses share one bus. An access to
`0x30xxxxxx` or `0x38xxxxxx` reaches the wrapper, which counts `DELAYS` cycles
and raises `ready` for one cycle. The program memory is acknowledged by
`ready` itself; the bridge needs `ready` and a finished handshake. A request
stays up until the acknowledge, so the bridge has to remember that the
handshake is made. The engine is polled: status bits 4 and 5 are `ss_tready`
and `sm_tvalid`. The firmware writes outputs to 16 pins; the testbench waits for
each value. An access to housekeeping is taken apart into four bytes, between
which an SPI master outside may use the same register port. The UART tells the
processor of events by a level of one interrupt line; `isr` masks the line and
returns. The timer's interrupt runs the handler of the library between any two
accesses of the program.

**What is hard.** Everything in the user area is a pipeline of registers that
are one cycle late relative to each other: the address, the word, the product
and the sum; `ss_tready` and the state that takes a sample; the handshake, its
flag and the acknowledge. The memories and half of the bridge have no reset.
One memory port serves three users. The delay counter carries a cycle over into
the next transaction. Software tests a status word that it read some
accesses ago. Outside the user area it is what takes more than one access:
64-bit counters in two words while the clock goes on and an interrupt handler
does the same; read, modify and write of a register whose bits mean something
when they are written; a completion flag that a read clears; a word written
byte by byte to pins that somebody watches; a poll of a register that has
other bits too. `PROJECT.json` lists these under `hazards`, each at its line, with the
properties that would catch it going wrong, or the reason why there is none: in most of
those cases the code does go wrong, and a property excepts it by name (section 6).

## 2. The modules

    Convolution <- FirStream                 what the accelerator promises
         ^             ^
         |             | refines
        Fir  <--- FirProofs                  the engine, and the proofs
         ^
         +--- UserProject <--- FirControl    the slave; the firmware on it
                  |    ^
                  |    +--- UserProjectProofs  its proofs, on FirProofs
                  |              ^
                  |              +--- FirControlProofs   the firmware's, on both
    Wrapper <-----+
         ^
         +--- UserBram <--- UserBramProofs   the program memory behind it
    CounterLaFir                             the testbench and the pins
    StartUp <--- StartUpProofs               main, housekeeping, loader, pads
    CsrMap, CsrAccess <--- Peripherals <--- PeripheralsProofs
                                             names and decoder; UART, SPI, isr
    SimpleTimer <--- SimpleTimerProofs       the timer library, and the proofs
    HostDriver <--- HostDriverProofs         the C drivers and their cores

| Module | Models | Checked by |
|---|---|---|
| `Convolution` | the sum of products the engine has to compute | |
| `FirStream` | abstract accelerator: idle, running, done; no clock, no memory | `fir` (refinement) |
| `Fir` | `fir.v` and its two memories | `fir` |
| `Wrapper` | `user_project_interface.v` | `user_project`, `user_bram` |
| `UserProject` | `user_project_axi.v` with `Fir` and `Wrapper`, the bus master and the rule its software keeps | `user_project`, `eager_bus` |
| `UserBram` | `bram.v`, `user_project_bram.v` with `Wrapper` | `user_bram` |
| `FirControl` | `fir()` on `UserProject`, calls as in `main`, resets | `fir_control` |
| `CounterLaFir` | `main`'s writes to the pins and both testbench processes | `counter_la_fir` |
| `StartUp` | `main` up to its outputs, the wishbone back door, the loader and both chains of pads | `start_up`, `start_up_early` |
| `CsrMap` | the blocks and fields of `csr.h`, the aliases of `defs.h` and the decoder of `mgmt_core.v` | `csr` |
| `CsrAccess` | the macros of `hw/common.h` for registers wider than a word | `csr` |
| `Peripherals` | `stub.c`, `isr.c` and the accessor functions on the UART and the SPI master | `csr` |
| `SimpleTimer` | the timer and counter functions of `simple_system_common.c` | `timer`, `timer_lost` |
| `HostDriver` | `xread_romcode*.c`, `xcaravel_ps*.c`, `xoutput_pin*.c`, the control side of `read_romcode`, the notebook's order | `hls` |
| `FirProofs`, `UserProjectProofs`, `FirControlProofs`, `UserBramProofs`, `StartUpProofs`, `PeripheralsProofs`, `SimpleTimerProofs`, `HostDriverProofs` | proofs about the modules they are named after | TLAPS |

### State and actions against the code

In the modules of the user area a step is one rising edge of the clock (in
`CounterLaFir`, also one step of the testbench, in zero time). A register is a
variable of the same name, an `assign` an operator of the same name. In `Fir`,
`Clock(in)` is the conjunction of the `always` blocks, each an operator that
gives the next value of its registers; the main block has one disjunct for each
state (`Idle`, `InitSram`, `GetData`, `Cal`, `Shift`, `Wait`, `WaitApDone`).
`in` is the record of the input ports. `Contract(in)` is what the firmware may
do to the engine: it writes taps and length while the engine is idle and sends a
sample only when `ss_tready` is set. `UserProject` does not assume the contract:
it puts the bridge and polling software in front of the engine, and
`EngineContract` (its behaviours are behaviours of `Fir!Spec`) shows that the
contract is kept. `UserProject!Requests` are all accesses software may make by
the status it has read; `FirControl` chooses the ones of `fir()`, in its order,
and `KeepsTheRule` shows them to be among those. How many cycles pass between
two accesses, and how many instructions are fetched from the program memory
meanwhile, is left open.

In `StartUp` a step is one clock of the wishbone bus, one edge of the SPI, or the
processor's decision to make its next access. `wb` is the back door's state
machine (`wbbd_*`), `ld` the loader's (`xfer_state`, `pad_count_*`,
`serial_data_staging_*`), `gpio_data` and `gpio_buf` are `mgmt_gpio_data` and
its buffer. `main` is the sequence of `main()`'s accesses.

In the modules of software a step is one access to a register or to a word of
memory that another thread uses, with the computation up to the next one.
`pc` and `loc` (`th` in `HostDriver`) hold where each thread is and its
locals; a function is the actions of its accesses, named after it. The interrupt
comes between any two steps of main, the handler runs to its end; in
`HostDriver` both threads interleave freely. The devices' own steps (`Tick`,
`Sample`, `LineTakes`, `LineGives`, `SpiClock`, `KernelBegins`, `KernelDone`,
`StatusFollows`, `PadsChange`) come at any time.

### Abstractions

- A word of the engine is the integer it stands for. The accumulator is the
  sequence of its products, of which the register holds the sum modulo 2^32. This
  is finer than the number: two products that cancel out are still told apart.
  The wrap of the sum is not modelled (64 samples of 1 do not reach it).
- `awvalid` and `wvalid` are driven by one expression in the bridge and are one
  field; `awready` and `wready` have the same `always` block and are one
  variable.
- Memories are indexed by words. Every address of the engine in the model is that
  of a word; only `UserBram` has byte lanes, two of them: the lowest and the
  highest.
- A reset of the user area is one step that stands for the cycles it lasts. The
  memories are written on its first edge if a write was under way. It comes at
  any moment and as often as the bound allows (any number of times in `fir` and
  `user_project`).
- `SimpleTimer`: a word has W values. The two words of `time_increment` are stored one
  at a time, in either order, between the statements before and after; a handler that
  comes between them uses a mixture (`MixedIncrements`). The handler's own
  read of it is not interrupted. The timer stops at `EndOfTime`.
- `StartUp`: main's writes to the logic analyzer and the UART, which do not pass
  housekeeping, are left out; the SPI master outside reads but does not write.
- `Peripherals`: the transmitter takes a character and the receiver gives one at
  any time (no bit timing); a queue of the receiver is the number of its
  characters. The wide registers of `AccessorsSound` are `B`-valued bytes.
- `HostDriver`: the three cores share one register file, of which each driver uses its
  own registers, and an instance of one driver stands for all; a completion in the
  very cycle of a read is a completion just before or after it. `auto_restart_status`
  follows auto restart a cycle late (`StatusFollows`), so that a run that ends in that cycle
  is both reported and repeated. With the status still set and auto restart off, a
  completion is kept a cycle later than it comes; the model makes this one step, in which
  no `Start` falls. Words of a pointer are
  marked with the pointer they belong to. The notebook makes the same accesses from
  Python, and gives the order of the scripted program.
- The history variables (`accepted`, `emitted`, `fires`, `waited`, `memory`,
  `deadline`, `mixed`, `resetAt`, `sent`, `printed`, `leftover`, `asked`, `clash`,
  `mine`, `swallowed`, `misuse`) record what happened. No other variable depends on them.
- The operators whose comment begins with "Fault" are altered forms of the
  operator that follows them, kept to show that the properties can be broken.

## 3. The runs

| Run | Question | Bounds | Distinct states |
|---|---|---|---|
| `fir` | Does the engine do what `FirStream` says, under any accesses of its contract and any resets? The inductive invariant is checked too. | 3 taps, samples 1 and 2, lengths 1 and 4 | 445,032 |
| `user_project` | Is each access one handshake, with its own word, and is the contract kept? | 5 taps, length 2, `DELAYS` = 3 | 758,672 |
| `eager_bus` | What if software does not poll `sm_tvalid`, and the bus has to wait? | 12 taps, length 2, `DELAYS` = 3 | 95,921 |
| `fir_control` | Does `fir()` store the convolution, return, and find the engine idle again? | 7 taps, N = 8, `DELAYS` = 3, 2 calls, 1 reset at any moment | 8,587 |
| `user_bram` | Does the program memory answer with its last write, in time? | the code's size and delay, the first and last word | 3,604 |
| `counter_la_fir` | Does the test see each output, and end? | the code's values | 401 |
| `start_up` | Do all pads get their modes and main its end, with an SPI master reading at any moment? | the code's sizes: 38 pads of 13 bits; two output words | 67,183 |
| `start_up_early` | Is the transfer over when main says that the test starts? | the same | violation |
| `csr` | Do names, fields and wide registers meet the hardware? Do `print`, `isr` and the SPI end as they should? | bytes of 2 values, words of 4 bytes; a queue of 1 + 1; text "a\n"; SPI lengths 0, 2, 8; 2 characters in; 3 calls | 209,005 |
| `timer` | Are 64-bit values read and written a word at a time right, with the clock running and the handler in between? | words of 3 values, time up to 4, increments 1 and 3, 2 calls | 82,030 |
| `timer_lost` | Does the timer ask at each deadline? | the same | violation |
| `hls` | Do two threads of the host get their own completions, whole words, their settings, and balanced handles? | six programs, two instances of 1 and 2 pages, two pointers, 6 calls of main, 1 of the handler, 2 changes of the pads | 130,717 |

What each property says stands in the comment over it. By run:

- `fir`: `OutputsAreConvolutions`, `OneOutputPerSample`, `DoneMeansAll`, `IInv`
  (the inductive invariant of section 5), `ImplementsStream`.
- `user_project`: `OneHandshakePerAccess`, `ReadsAreFresh`, `StatusStillTrue`
  (a status bit that software has seen set stays set until it acts on it),
  `EngineContract`. `eager_bus`: `AnswersInTime`, `OneHandshakePerAccess`, and
  `EagerOutputsLackLastTap`, which says what an unpolled output is.
- `fir_control`: `StoresConvolution`, `ReturnsComplete`, `KeepsTheRule`, `Terminates`.
- `user_bram`: `ReadsLastWrite`, `AnswersOnTime`. `counter_la_fir`: `ChecksInStep`,
  `LatencyIsOfFir`, `TestPassesInTheEnd`.
- `start_up`: `ConfigAsWritten`, `NoMixedMode`, `PinsChangeTogether`, `StartUpEnds`.
- `csr`: `AccessorsSound`, `PrintedInOrder`, `CharactersHaveEvents`, `PrintReturns`,
  `TransferCompletes`.
- `timer`: `NoSpuriousInterrupt`, `ReadsWithinCall`, `PcountResetClean`, `DeadlineServed`.
- `hls`: `DoneMeansRun`, `WordsBelongTogether`, `SettingsKept`, `HandlesBalanced`,
  `LoadedBeforeRelease`, `PollEnds`.

**Why the bounds are enough.** Four samples on three taps make the circular
buffer wrap and overwrite its oldest word, and let the pointer go round in one
computation; with lengths 1 and 4 both the first output and a later one are
the last of a run, and resets and further runs follow in any order. Two
different samples and a third value left in the memories at power-up tell a
stale, a missing and a foreign sample apart. In the runs on the
bus the tape is long for the delay: with 5 taps an access made without a poll
meets an engine that is still clearing its memory or adding its last product,
with 7 the first read of the status after the start and after a sample finds the
engine not ready, and with 12, the most for which `AnswersInTime` holds, the bus waits
for the output. With the code's 11 taps and ten cycles the delay covers the
computation (section 5), so that these cases would not happen. `DELAYS` = 3 is the
shortest delay the slave works with: a lite read needs three cycles to get its
word, and a transaction behind another may get one cycle less than the delay.
`user_bram`, `counter_la_fir` and `start_up` have no reduced parameter.

With words of three values and a time up to 4 the low word of the clock carries
in every phase of every call, the high word has two values, and a deadline's
low word can be smaller and larger than the old one's; a high word has a value
left that is never reached, as -1 in the code. The increments 1 and 3 differ in both
words, so that a handler between the stores of one uses a mixture, 0 or 4. Two calls let `timer_enable` meet the
handler of the one before. The theorems of section 5 hold for every width.
A queue of one word behind the output register is full after two characters,
which "\r\n" are; two characters that come in are enough to acknowledge one and
leave one. Lengths 0, 2 and 8 are below, inside and at the end of the three-bit
count. Every register, every field with every other field of its register, and
buffers of all element sizes that do not divide evenly are first calls of `csr`.
In `hls` the instances have 1 and 2 pages, so that the size left from another
instance is too large or too small; main's six calls are the notebook's script
from the first setting to the release.

**Deadlock** is checked in `fir`, `user_project`, `eager_bus`, `fir_control`,
`user_bram` and `counter_la_fir`. The others may stop: `csr`, `timer` and `hls`
when the bounded calls are used up or the clock has come to its end, `start_up`'s main ends.

## 4. Liveness and fairness

- `FirControl!Terminates`: all calls return. Assumed: weak fairness of the clock
  (one edge after the other), that a burst of instruction fetches ends (strong
  fairness of `EndsBurst`; it fills one cache line of eight words,
  `VexRiscv_MinDebugCache.v:3595-3616`), and that the program gets to its next
  access (strong fairness of `StartsAccess`; the instructions between two
  accesses are finitely many). Nothing is assumed of the engine, the bridge or the poll.
- `CounterLaFir!TestPassesInTheEnd`: assumed are that the testbench's processes
  run (they take no time) and that `main` goes on, which is `Terminates`.
- `StartUp!StartUpEnds`: the clock runs and the processor goes on (weak fairness
  of `Clock`, `Issue`). The SPI's clock is slower than the bus clock and its
  strobe is up for part of a byte, so a clock without a busy SPI comes again and
  again (strong fairness of `Clock /\ ~SpiBusy`); the property excepts a master
  that stops for ever in front of a byte.
- `Peripherals!PrintReturns`, `TransferCompletes`: the processor goes on, in main
  and in `isr`, and so do the transmitter, the SPI's clock and the edge detectors.
  Characters need not come in.
- `SimpleTimer!DeadlineServed`: the clock counts up to its bound, main and the handler go
  on, and an interrupt that is pending and enabled is taken. It speaks of the deadlines
  before the bound: at the bound, where the model's clock stands still, a
  handler with a mixed increment of 0 sets the same deadline for ever.
- `HostDriver!PollEnds`: a core that is started ends, `auto_restart_status` follows,
  and a thread that is in a call makes its next step.
- `AnswersInTime` and `AnswersOnTime` bound the time of an access, in cycles, as
  invariants.

## 5. What is proved

**The engine.** `FirProofs` proves, for every number of taps from 2 to 15, every
set of samples, taps and lengths other than 0, and any contents of the memories
at power-up (`FirAssumption`):

| Theorem | Statement |
|---|---|
| `TypeCorrect` | `Spec => []TypeOK`: among others, no counter or pointer leaves its range |
| `Correct` | `Spec => [](OutputsAreConvolutions /\ OfferIsComplete)` |
| `Alternates` | `Spec => []OneOutputPerSample` |
| `DoneIsHonest` | `Spec => []DoneMeansAll` |
| `Refines` | `Spec => ImplementsStream`: the engine implements `FirStream` |
| `Invariance` | `Spec => []IInv`, on which the others rest |
| `EagerCorrect` | `EagerSpec => []EagerOutputsLackLastTap`: a master that does not poll |
| `EagerInvariance` | `EagerSpec => []EInv`, its invariant |

*The argument.* None of the properties is inductive: that an output is right says
nothing of the memory it is computed from. `IInv` adds three parts.
`BufferHoldsSamples` says in each state which slot of the circular buffer holds
which sample of this run: all of them while computing, all but the oldest, whose
slot the next sample overwrites, while waiting for it. `PipelineInStep` says how
far address, operands and accumulator are apart: in `S_CAL` with the counter at
n the accumulator holds n-1 products and the operand registers the n-th pair.
`RunInStep` bounds the progress of the run and keeps the bus off the tap memory
during it. The proof has a lemma for each concern (`FlowStep` for the counts,
`BufferStep`, `PipelineStep`, `OutputStep`, and `ClockType` for types), each
with a case for each state of the machine; `EagerStep` puts together those that
hold without the poll. `ResetInv` treats the reset, and
`StreamStep` maps each clock edge to a step of `FirStream` or to a stutter.

`IInv` is `EInv /\ OutputsAreConvolutions`. `EInv` is inductive under `EagerSpec`, in
which the master takes an output whenever `sm_tvalid` is high, in `S_SHIFT` as well:
`PipelineInStep` says that the word offered there has every product but the last
tap's, so that this is all that can be missing. The poll (`PollsOutput`) is
needed for `OutputsAreConvolutions` alone.

**The slave, and the engine behind it.** `UserProjectProofs` proves, for every
delay from 3 to 15 (`UserProjectAssumption`) and everything `FirAssumption`
allows, whether or not software polls `sm_tvalid` for its outputs:

| Theorem | Statement |
|---|---|
| `AckMeansOneHandshake` | `USpec => []OneHandshakePerAccess` |
| `AckMeansFresh` | `USpec => []ReadsAreFresh` |
| `StatusKeeps` | `USpec => []StatusStillTrue` |
| `EagerBehindBus` | `USpec => EagerSpec /\ []EagerOutputsLackLastTap` |
| `SlaveInvariance` | `USpec => []UInv`, on which the others rest |
| `PaceInvariance` | `USpec => []PaceInv`, on which the next three rest |

and, if it polls or the tape is short for the delay:

| Theorem | If | Statement |
|---|---|---|
| `AckInTime` | `PollsForOutput \/ Tape_Num <= 3 * DELAYS + 3` | `USpec => []AnswersInTime` |
| `ContractIsKept` | `PollsForOutput \/ Tape_Num <= DELAYS + 1` | `USpec => EngineContract`: the composition implements `Fir!Spec` |
| `RightBehindBus` | `PollsForOutput \/ Tape_Num <= DELAYS + 1` | `USpec => [](OutputsAreConvolutions /\ OfferIsComplete) /\ ImplementsStream` |

*The argument.* Everything is told by `waited`, the cycle of the access under way.
`DelayInv` bounds it by the delay counter, which a transaction finds at 0, or at 1
behind a delayed one. `ChannelInv` gives for each kind of access the cycle in which
its channel is ready, makes its handshake, and has its word: all of them before the
earliest acknowledge, which is where a delay of 3 is needed. `RequestInv` and
`KnowledgeInv` say that software asks for nothing that the word it read does not
allow, and that this word is still true, from the read channel (`StatusWord`) until
it acts on it; `EngineInv` says what state of the engine goes with an access and
with a run that software has not started; `FreshInv` follows the word that is read.
The parts need each other, and `EInv`: a sample that is sent finds the engine ready
because of what software knows, which stays true because nothing else reaches the
engine. `BusCycleAlike` and `ContractKept` show that each clock of the bridge is one
of the contract's but for the poll, so that `FirProofs` gives the next `EInv`.

What an unpolled access meets depends on how far the engine is when the bus comes,
of which `UInv` says nothing. `PaceInv` does: since the sample was taken, its own
access went on to its acknowledge, and each access in between took its delay, so
that a lower bound of the cycles computed follows from the kind of the access under
way, `count` and `waited`. The bridge raises `sm_tready` in the first cycle of a fetch,
when at least `DELAYS + 3` cycles have passed: with at most `DELAYS + 1` taps the output
is complete by then, so that each clock is one that `PollsOutput` allows. The fetch is
acknowledged at a pulse of `ready` at which it has its output: with at most
`3 * DELAYS + 3` taps, at the second pulse at the latest. `InTime` follows the access
from the first pulse, which may miss, to the second, and is inductive with
`UInv` and `PaceInv`.

Both bounds are exact. TLC finds `AnswersInTime` violated with 13 taps at a delay
of 3, and `OutputsAreConvolutions` with 5 taps at 3 and with 12 at the code's 10. The code's
11 taps at a delay of 10 are just on the bound: `fir()` would get complete outputs without
its poll of `sm_tvalid`, and with one more tap it would not.

**The firmware on the slave.** `FirControlProofs` proves, for every number of samples
and taps, any lengths of the gaps between accesses and a reset at any moment
(`FirControlAssumption`):

| Theorem | Statement |
|---|---|
| `FirmwareKeepsRule` | `CSpec => KeepsTheRule`: the system with `fir()` on it implements `USpec` |
| `FirmwareIsServed` | `CSpec => EngineContract /\ ImplementsStream /\ [](OneHandshakePerAccess /\ ReadsAreFresh /\ StatusStillTrue /\ AnswersInTime)` |
| `StoredIsConvolution` | `CSpec => []StoresConvolution` |
| `ReturnMeansComplete` | `CSpec => ReturnsComplete` |
| `ProgramInvariance` | `CSpec => [](UInv /\ PInv)`, on which the others rest |

*The argument.* `PInv` says, for every place of the program, which access is on the
bus, if any (`ProgramInv`), that the taps and the length below the loop counter are in
the engine from the cycle of their handshake (`SettingsInv`), and how far the
engine's run is: before `ap_start` takes (`Starting`), with a sample to send
(`Sending`: the engine has accepted `InputsTo(i)`), with an output to fetch (`Fetching`:
`InputsTo(i + 1)`), and behind the last one (`Finishing`). Then every step of the
program is a step of `USpec`, so that `UInv` and with it the contract of the
engine carry over, and an output that is stored is the one `Correct` speaks of.

**The program memory.** `UserBramProofs` proves, for every delay that `count` can hold:

| Theorem | Statement |
|---|---|
| `MemoryAnswersOnTime` | `Spec => []AnswersOnTime` |
| `MemoryReadsLastWrite` | `Spec => []ReadsLastWrite`, if no two addresses in use share a slot (`NoAliases`) |
| `BramInvariance` | `Spec => []BramInv`, on which the others rest |

*The argument.* `CountInv` and `WaitInv` tie the cycle of an access to the delay
counter, which the access may find at 0 or at 1; `PortInv` says that the read
register has the word of the request from its second cycle on, whatever access of
the other window went before; `SlotsInv` joins the memory of the property to the
slots. The memory has fewer words than its window has addresses
(`bram.v`, index `A0[N-1:0]`), so that `NoAliases`, which says that the program fits, is needed.

**The timer library.** `SimpleTimerProofs` proves, for every width of a word,
every set of increments and any number of calls, as long as no deadline passes
the largest 64-bit time, also with an increment of mixed words (`TimerAssumption`):

| Theorem | Statement |
|---|---|
| `LibraryTypes` | `Spec => []TTypeOK`: no word or 64-bit value overflows |
| `TimeIsRead` | `Spec => []TimeReadWithinCall`: `timer_read` returns a time between its call and its return |
| `NotEarly` | `Spec => []NoSpuriousInterrupt` |
| `ResetIsClean` | `Spec => []PcountResetClean` |
| `ReadsAreOfTheCall` | `Spec => []ReadsWithinCall`, if `EndOfTime < W * W - W` |
| `LibraryInvariance` | `Spec => []TimerInv`, on which the others rest |

*The argument.* A 64-bit value is the pair of its words, and the order of two
values is decided by the high words unless they are equal (`HighDecides`, `Order`).
`ReadInv` follows a reader from word to word: the high word it has read and the low
one it reads next frame the clock, and if the high word is the same again, the low
word belongs to it. `BaseInv` says that the deadline a thread computes starts
from a time that has been and fits, and `IncrementInv` that outside its two stores
`time_increment` is not 0. `CompareInv` follows the three stores of
`timecmp_update`: after the first, the low word is the largest there is, so that the
second cannot bring the comparison below either deadline; it joins `mtimecmp` to
`deadline` whenever no store is under way and no two updates have overlapped.
`CounterInv` says that between the two stores of
`pcount_reset` the low word is at most the cycles since the first, whatever has been
carried into the high word, which the second store clears. `ElapsedInv` counts the interrupts
since the call of `get_elapsed_time`: each has waited for its deadline, so that
`time_elapsed` grows no faster than the clock and passes at most one high word in
a call. The hypothesis of `ReadsAreOfTheCall` keeps the clock off the last of
its high words, where `time_elapsed` itself would overflow (with 32-bit words,
after some thousands of years); the run's values satisfy it.

**The host drivers.** `HostDriverProofs` proves, for any programs, pointers, contents of
the memory, number and size of instances and number of descriptors (`HostAssumption`):

| Theorem | Statement |
|---|---|
| `DoneIsOfTheRun` | `Spec => []DoneMeansRun` |
| `WordsAreOfOneValue` | `Spec => []WordsBelongTogether` |
| `SettingsStay` | `Spec => []SettingsKept` |
| `HandlesAreBalanced` | `Spec => []HandlesBalanced` |
| `LoadsBeforeRelease` | `Spec => []LoadedBeforeRelease`, if every scripted program is the notebook's six calls without a handler (`ScriptsBoot`) |
| `DriverInvariance`, `HandleInvariance` | `[]HInv` and `[](HandleTypeOK /\ HandleInv)`, on which the others rest |

*The argument.* The two threads interleave at every register access, so that the
invariants speak of places of both: `ClashInv` says which pairs of calls have met,
`KeptInv` what a thread that has read a register and not yet written it back holds
(the value of now, unless the other has met it), `HalvesInv` the
same for the first of two words, `PadsInv` that a word of the pads is of the time of
the call, `RunInv` what `ap_done` can be of while a thread is
between Start and IsDone. `HandleInv` counts: all that is open belongs to
the instance in use (`OneInv`) or is what the findings describe (`BareInv`,
`ReadyInv`). That a descriptor is always left to open, and that `Min` finds it, are
lemmas on finite sets. `BootInv` places each register by the place of the script.

**The start-up.** `StartUpProofs` proves, for every list of words that main writes to
the pads (`OutputsAssumption`) and whatever the SPI master reads meanwhile:

| Theorem | Statement |
|---|---|
| `ModesAsWritten` | `Spec => []ConfigAsWritten` |
| `NoMixture` | `Spec => []NoMixedMode` |
| `WholeWords` | `Spec => []PinsChangeTogether` |
| `StartUpInvariance` | `Spec => []SInv`, on which the others rest |

*The argument.* `main` is built by concatenation; `ThenJoins`, cited for each part, gives its
accesses by position (`MainFacts`), and from them which of them gives a pad its mode
(`PlaceOf`) and so what `Given` chooses (`GivenIs`). `LatchInv` says that the byte the
back door has set up is one of the present access, and `ConfigInv` which bytes of the pad's
configuration are new already: the pad keeps the low bits of its new mode and
the high ones of the old between two bytes, in which any number of SPI bytes may
fall. When the outputs begin, `ConfigInv` implies that the CSB pad is no input any
more (`SpiIsOff`), so that `PinsInv` need only follow the buffer. The chains are
what needs an invariant most: `NoMixedMode` says nothing of the 38 registers that
shift. `Carries(sr, chain, n, c)` says of every bit of every register of a chain which bit of
which pad's configuration it is, when c bits of pad n have entered. A rising
edge takes c to c + 1 (`CarriesShift`), 13 of them n to n - 1 (`CarriesAll`),
and at n = -1 each register has its own pad's (`CarriesEach`). `TransferInv`
supplies what the loader shifts: no transfer is asked for before the last mode
is written, so that each configuration is final (`ConfigFinal`).

**The peripherals.** `PeripheralsProofs` proves, for all texts, every depth of the UART's
queues, all lengths of transfers and any number of calls and characters
(`PeripheralsAssumption`):

| Theorem | Statement |
|---|---|
| `PrintsInOrder` | `Spec => []PrintedInOrder` |
| `EventsStay` | `Spec => []CharactersHaveEvents` |
| `TransfersWhole` | `Spec => []TransferWhole`, the first half of `TransferCompletes` |
| `PeripheralsInvariance` | `Spec => []Inv`, on which the three above rest |
| `NamesReach` | each address of `csr.h`, and each word of the logic analyzer that `defs.h` names, is decoded to its register |
| `FieldsKept` | a write to a field puts what fits of the value there and keeps the register's other fields, for all words of 32 bits and all values |
| `CallsOfRegisters` | `Spec => [](probe.kind # "buffer" => AccessorsSound)` |

*The argument.* `PrintInv` says that what has gone out, what is in the queue and
what `print` has still to store (`ToCome`) make up the expansion of what it was
given, and that between the poll and the store the queue has room: only main fills it, and
the service routine reaches no register of the UART (`DecodesLa`). The expansion
is a `FlattenSeq`, which the community modules define by a function
chosen to satisfy its own equation, so that `ExpandConcat`, the expansion of two texts one after
the other, needs induction over their length. `Induction` states it for a set instead of a
predicate and follows from the well-foundedness of the order on the naturals,
so that the provers can use it. `AccessOk` keeps the accessors on the three registers they are
called for, none of which is the UART's data. `AcknowledgeRx` is where an
event could be lost: the edge of a character that comes in with the clear wins. `BitsOk`
counts the bits of a transfer that was not rewritten, and shows that a length
of 0 or of more than 8, which a count of 3 bits never meets, has no end.

`DecodeAt` gives the register at each place of a bank, and one lemma for each block
finds its names at those places. For the fields, `PutIs` says for any place p and any
number q of values that a word with a value put there is the same below p and
above p * q; the fields that share a register (`Beside`) are one or the other to
each other. The run `csr` tries three words and four values; `FieldsKept` is about all.

*Only model-checked:*

- Liveness (`fir_control`, `counter_la_fir`, `timer`, `start_up`, `csr` and `hls`
  under fairness), and with it the second half of `TransferCompletes`: TLAPS does not reach it.
- `ChecksInStep` and `LatencyIsOfFir`. The test's processes have no parameter, so
  that the run `counter_la_fir` explores all there is.
- `AccessorsSound` for buffers: the accessors of `hw/common.h` cut wide registers into
  powers of a byte of symbolic size, about which the provers know nothing.
- That the bounds of `AckInTime` and `ContractIsKept` are exact.

## 6. Where code and text disagree

Two runs end in a counterexample, which is the finding:

- `timer_lost`: `timecmp_update` (`firmware/simple_system_common.c:184-188`)
  does not keep the timer interrupt out. If `timer_enable` is called while the
  timer runs, the handler's own update can come between main's stores, and
  `mtimecmp` is left with the words of two deadlines: the "Number of time ticks to
  count before interrupt" (`simple_system_common.h:62`) is exceeded, by up to
  2^32. `DeadlineServed` shows that this is the only way to lose a deadline.
- `start_up_early`: `while (reg_mprj_xfer == 1)` (`counter_la_fir.c:105`)
  compares a word that has the two serial data bits in bits 6 and 5
  (`housekeeping.v:434-436`, whose comment says that "serial_busy" is the read-back
  of the register). The loop ends as soon as it meets a data bit that is 1, while the
  transfer goes on. The test does not notice, because `fir()` takes longer;
  `StartUpEnds` shows that the pads get their modes all the same. (With
  `while (reg_mprj_xfer)` and the two data bits left at 1 the loop would never end.)

Observations met while modelling, without a run of their own. In the user area:

- `fir.v:381` takes any lite read that returns a word with bit 1 set for the read
  of `ap_done`; `fir.v:95` says "set to 0 when ap_done is read". A read of the
  length 2 will do. The firmware's 64 has the bit clear.
- The word offered in `S_SHIFT` lacks the product that is being added in that
  cycle (`fir.v:448`); `fir.v:65` says "stream output result". The firmware polls,
  and its last tap is 0. `EagerBehindBus` proves that this is the only thing an
  eager master gets wrong.
- 6 bits of the read address are kept (`fir.v:155`), so that `taps_0` and `taps_4`
  (`firmware/defs.h:449`, `453`) read as the control and the length register. Writes
  are decoded in full.
- `bram.v:24` indexes words with the byte address and holds 256 words that are
  apart from each other; its comment says 16 kB.
- `0x000000ff && outputsignal[63]` (`fir_control.c:81`) is a logical "and"; the
  end mark carries 1, not the final output's byte (line 79).
- The checker waits for levels (`counter_la_fir_tb.v:219`), and outputs 10 to 64 of
  a call are all 183, so that it reports all of them on the first. The `ready`
  pulse is never held, because the program memory's acknowledge, which ends it, is
  `ready` itself (`user_project_interface.v:163`): a handshake made after it waits
  for another delay.

In the harness and its software:

- `hw/common.h:19-21` says that the least significant slice of a wide register is at
  the lowest address; the macros and the hardware have the most significant there.
- Reading the UART's `rxtx` does not take a character off the queue: clearing the
  event does (`mgmt_core.v:3321`). `uart_ev_pending_tx_write` writes back what
  it has read and so acknowledges `rx` too; a character may be lost unread to a
  program that clears its transmit event (no property excludes it; `CharactersHaveEvents`
  says what remains true).
- `spi_master_control_length_write` writes back the start bit and starts another
  transfer, in the model as in the code; no property is about it. A transfer of length 0 or above 8 does not end: the count has 3 bits.
- `isr` clears no event: it returns with the interrupt masked for good.
- `reg_debug_*` use macros that are not defined (`defs.h:308-309`); `TIMER_ONESHOT` and
  its neighbours (`defs.h:429-433`) have no hardware.
- `housekeeping.v:1110-1117` says that the start-up values of `gpio_configure` match
  the pads'; pads 36 and 37 start with 0x0403 (`user_defines.v`) against 0x1803.
- An SPI master that stops before a byte with CSB low holds the processor's access
  until it goes on. A poll that ends early may leave a second transfer to be run.
- `get_elapsed_time` is said to return the "current global time value"
  (`simple_system_common.h:84`). It counts interrupts, and is read in two words
  without a second look at the high one: `ReadsWithinCall` excepts a carry.
- Host drivers: IsReady stays set after Release; a mapping that failed is not 0, so
  that the assertion passes (`xread_romcode_linux.c:127-128`); `uio_info` is static and
  shared by the instances (32, 141-143), so that releasing one may unmap pages of
  another and leave its own descriptor open; the list of `scandir` is not freed; IsIdle, IsReady
  and Start read the register whose read clears `ap_done`; InterruptClear does
  nothing (`xread_romcode.c:151`).

## 7. What is not modelled

- A length of 0 (a run would take 2^32 samples, `fir.v:131`), and software that
  writes `ap_start` while a run is under way or waits for its acknowledge: the firmware
  does neither.
- A write to `d_in` without polling: the engine takes the sample without a
  handshake, and the access is never acknowledged until the bus times out. That
  is why the contract asks for the poll.
- The shared bus and the processor's pipeline, which are generated. The models assume of the
  bus what is read at its lines (one master at a time, `mgmt_core.v:4809-4827`;
  the dBus drops `cyc` for a cycle after each access,
  `VexRiscv_MinDebugCache.v:3651-3656`); its time-out of a million cycles
  (`mgmt_core.v:4897`) is never reached by these slaves (`AckInTime`, `MemoryAnswersOnTime`).
- The behaviour of the other LiteX peripherals (flash controller, timer0, GPIO, user
  interrupts): their registers are decoded, `Decode`, and no code of the
  repository runs them.
- The command decoder of the housekeeping SPI, and its writes; the pad cells; the
  start-up assembly and linker scripts, which run once before anything here.
- The output functions and the exception handler of `simple_system_common.c`
  (7-37, 117-148), which write to a simulator's register.
- The data paths of the HLS cores, which are generated, the block design, and the copies of sources;
  `firmware/generated/csr.h` is a second copy of `csr.h`.
- Memory models, the flash, the UART of the testbench: models of chips outside the design.

What could come next: the SPI's command decoder with writes in `StartUp`; the
processor's two bus bridges in front of an arbiter as a module of its own; and
proofs about the accessors of wide registers, for which the powers of a byte
would have to be developed first.
