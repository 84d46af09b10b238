------------------------------ MODULE StartUp --------------------------------
(***************************************************************************)
(* The start-up of the chip: main() of the end-to-end test configures the  *)
(* pads through the housekeeping block, has the configuration transferred, *)
(* and then writes its marks and outputs to the pads; the wishbone back    *)
(* door of the housekeeping block carries every access out a byte at a     *)
(* time, while an SPI master outside may be reading its registers; the     *)
(* serial loader shifts the configuration through the two chains of pad    *)
(* controllers.  A word is the set of its bits that are 1.  A step is one  *)
(* clock of the wishbone bus, a move of the processor, or an edge of the   *)
(* SPI.  All the sizes are those of the code.                              *)
(***************************************************************************)
EXTENDS Integers, Sequences, SequencesExt

CONSTANT Outputs            \* the words main writes to the pads at the end

ASSUME OutputsAssumption == Outputs \in Seq(SUBSET (16 .. 31))

Pads1 == 19                 \* pads of the first chain
LastPad == 37
Pads == 0 .. LastPad
CtrlBits == 13              \* bits of a pad's configuration
INP_DIS == 3

VARIABLES
  pc, req,                  \* main's next access, and is it on the bus
  wb, dat,                  \* the back door, and the word it has read
  gpio_configure,           \* the configuration of each pad
  serial_xfer,              \* the transfer has been asked for
  gpio_data, gpio_buf,      \* bits 31..0 of mgmt_gpio_data, and their buffer
  ld,                       \* the serial loader
  shift_register, pads,     \* the pad controllers: shift register, outputs
  spi                       \* CSB, SCK and the strobe of the SPI

processor == <<pc, req>>
registers == <<gpio_configure, serial_xfer, gpio_data, gpio_buf>>
chains == <<ld, shift_register, pads>>
vars == <<processor, wb, dat, registers, chains, spi>>

-----------------------------------------------------------------------------
(* The program.                                                            *)

GPIO_MODE_MGMT_STD_OUTPUT == {0, 3, 11, 12}       \* 0x1809
GPIO_MODE_USER_STD_OUTPUT == {3, 11, 12}          \* 0x1808

reg_mprj_xfer == 0
reg_mprj_datal == 12
reg_mprj_io(n) == 36 + 4 * n

Store(addr, word) == [we |-> TRUE, addr |-> addr, word |-> word]
WaitWhile(addr) == [we |-> FALSE, addr |-> addr, word |-> {}]

\* The pads from first down to last are given a mode.
Configure(first, last, mode) ==
  [i \in 1 .. first - last + 1 |-> Store(reg_mprj_io(first + 1 - i), mode)]

StartMark == {22, 24, 25, 27, 29, 31}             \* 0xAB400000
EndMark == {16, 20, 22, 24, 25, 27, 29, 31}       \* 0xAB510000

OutputStores == [i \in DOMAIN Outputs |-> Store(reg_mprj_datal, Outputs[i])]

\* Fault: the pads of the housekeeping SPI keep their modes.
mainKeepsSpi ==
  Configure(31, 16, GPIO_MODE_MGMT_STD_OUTPUT)
    \o Configure(15, 7, GPIO_MODE_USER_STD_OUTPUT)
    \o Configure(6, 6, GPIO_MODE_MGMT_STD_OUTPUT)
    \o <<Store(reg_mprj_xfer, {0}), WaitWhile(reg_mprj_xfer),
         Store(reg_mprj_datal, StartMark)>>
    \o OutputStores \o <<Store(reg_mprj_datal, EndMark)>>

\* main's accesses to the housekeeping block.
main ==
  Configure(31, 16, GPIO_MODE_MGMT_STD_OUTPUT)
    \o Configure(15, 7, GPIO_MODE_USER_STD_OUTPUT)
    \o Configure(5, 0, GPIO_MODE_USER_STD_OUTPUT)
    \o Configure(6, 6, GPIO_MODE_MGMT_STD_OUTPUT)
    \o <<Store(reg_mprj_xfer, {0}), WaitWhile(reg_mprj_xfer),
         Store(reg_mprj_datal, StartMark)>>
    \o OutputStores \o <<Store(reg_mprj_datal, EndMark)>>

Done == pc > Len(main)
Access == main[pc]

-----------------------------------------------------------------------------
(* The register port of the housekeeping block.                            *)

\* The CSB pad is an input and CSB is low; a byte is about to be read.
SpiActive == INP_DIS \notin gpio_configure[3] /\ ~spi.csb
SpiBusy == SpiActive /\ spi.strobe

Byte(word, k) == {b - 8 * k : b \in word \cap (8 * k .. 8 * k + 7)}
Place(byte, k) == {b + 8 * k : b \in byte}
Bits(k) == 8 * k .. 8 * k + 7

Register(name, n) == [name |-> name, n |-> n]
PadOf(addr) == (addr - reg_mprj_io(0)) \div 4

\* Fault: the bytes of a pad's configuration are in the SPI's order.
spiaddrSwapped(addr) ==
  CASE addr = 0 -> Register("xfer", 0)
    [] addr \in 12 .. 15 -> Register("data", addr - 12)
    [] addr \in {reg_mprj_io(n) : n \in Pads} -> Register("config", 2 * PadOf(addr) + 1)
    [] addr \in {reg_mprj_io(n) + 1 : n \in Pads} -> Register("config", 2 * PadOf(addr))
    [] OTHER -> Register("none", 0)

\* The byte a bus address names.  "config" 2n is the low byte of pad n's
\* configuration, 2n + 1 the high one.
spiaddr(addr) ==
  CASE addr = 0 -> Register("xfer", 0)
    [] addr \in 12 .. 15 -> Register("data", addr - 12)
    [] addr \in {reg_mprj_io(n) : n \in Pads} -> Register("config", 2 * PadOf(addr))
    [] addr \in {reg_mprj_io(n) + 1 : n \in Pads} -> Register("config", 2 * PadOf(addr) + 1)
    [] OTHER -> Register("none", 0)

\* A byte is written.  Through the back door the 32 bits of the pads change
\* with their last byte; when the SPI is active each byte is for itself.
WritesByte(r, byte) ==
  /\ gpio_configure' =
       IF r.name = "config"
       THEN [gpio_configure EXCEPT ![r.n \div 2] =
               (@ \ Bits(r.n % 2)) \cup (Place(byte, r.n % 2) \cap (0 .. CtrlBits - 1))]
       ELSE gpio_configure
  /\ serial_xfer' = IF r.name = "xfer" THEN 0 \in byte ELSE serial_xfer
  /\ gpio_data' = CASE r.name = "data" /\ SpiActive ->
                           (gpio_data \ Bits(r.n)) \cup Place(byte, r.n)
                    [] r.name = "data" /\ ~SpiActive /\ r.n = 3 ->
                           gpio_buf \cup Place(byte, 3)
                    [] OTHER -> gpio_data
  /\ gpio_buf' = IF r.name = "data" /\ r.n # 3 /\ ~SpiActive
                 THEN (gpio_buf \ Bits(r.n)) \cup Place(byte, r.n)
                 ELSE gpio_buf

\* A rising edge of the port's clock without a write resets the request.
ReadEdge(edge) ==
  /\ serial_xfer' = (serial_xfer /\ ~edge)
  /\ UNCHANGED <<gpio_configure, gpio_data, gpio_buf>>

-----------------------------------------------------------------------------
(* The back door: four bytes, each set up and then clocked.                *)

At(phase) == wb.phase = phase

SerialData(staging) == CtrlBits - 1 \in staging
Flag(b, n) == IF b THEN {n} ELSE {}
Status == Flag(ld.busy, 0) \cup Flag(SerialData(ld.staging1), 5)
                          \cup Flag(SerialData(ld.staging2), 6)

BackDoorIdle ==
  /\ At("idle")
  /\ wb' = [wb EXCEPT !.busy = FALSE, !.phase = IF req THEN "setup" ELSE "idle", !.k = 0]
  /\ ReadEdge(wb.busy /\ SpiActive /\ spi.sck)      \* the clock is SCK again
  /\ UNCHANGED <<processor, dat>>

\* It waits for an SPI that is about to read its byte.
Setup ==
  /\ At("setup")
  /\ wb' = [wb EXCEPT !.busy = TRUE, !.addr = spiaddr(Access.addr + wb.k),
                      !.byte = Byte(Access.word, wb.k),
                      !.phase = IF SpiBusy THEN "setup" ELSE "rw"]
  /\ UNCHANGED <<processor, dat, registers>>

\* Register 0x13 reads as the state of the loader: busy in bit 0, and in bits 5
\* and 6 the two data bits that are on their way to the chains.
ReadWrite ==
  /\ At("rw")
  /\ dat' = IF wb.addr.name = "xfer" THEN Status ELSE dat
  /\ IF Access.we THEN WritesByte(wb.addr, wb.byte) ELSE ReadEdge(TRUE)
  /\ wb' = IF wb.k = 3 THEN [wb EXCEPT !.phase = "done"]
                       ELSE [wb EXCEPT !.phase = "setup", !.k = @ + 1]
  /\ UNCHANGED processor

\* Fault: the loop goes on while the register reads anything but 0.
AnswersAtZero == Access.we \/ dat = {}

\* Does the processor go on to its next access?  The loop of main compares the
\* word with 1.
Answers == Access.we \/ dat # {0}

Acknowledge ==
  /\ At("done")
  /\ wb' = [wb EXCEPT !.phase = "idle"]
  /\ req' = FALSE
  /\ pc' = IF Answers THEN pc + 1 ELSE pc
  /\ dat' = {}                              \* the word has been compared
  /\ UNCHANGED registers

BackDoor == BackDoorIdle \/ Setup \/ ReadWrite \/ Acknowledge

-----------------------------------------------------------------------------
(* The serial loader and the chains of pad controllers.                    *)

Shifted(staging) == {b + 1 : b \in staging \ {CtrlBits - 1}}

\* The bit that enters each pad's shift register: from the loader into pads 0
\* and 37, from the neighbour's last bit into the others.
DataIn(p) ==
  CASE p = 0 -> SerialData(ld.staging1)
    [] p = LastPad -> SerialData(ld.staging2)
    [] p \in 1 .. Pads1 - 1 -> SerialData(shift_register[p - 1])
    [] OTHER -> SerialData(shift_register[p + 1])

Shift(p) == Shifted(shift_register[p]) \cup Flag(DataIn(p), 0)

LoaderIdle ==
  /\ ld.state = "IDLE"
  /\ ld' = [ld EXCEPT !.pad1 = Pads1 - 1, !.pad2 = Pads1, !.clock = FALSE,
                      !.busy = serial_xfer,
                      !.state = IF serial_xfer THEN "START" ELSE "IDLE"]
  /\ UNCHANGED <<shift_register, pads>>

LoaderStart ==
  /\ ld.state = "START"
  /\ ld' = [ld EXCEPT !.clock = FALSE, !.count = 0, !.state = "XBYTE",
                      !.pad1 = (@ - 1) % 32, !.pad2 = @ + 1,
                      !.staging1 = gpio_configure[ld.pad1],
                      !.staging2 = gpio_configure[ld.pad2]]
  /\ UNCHANGED <<shift_register, pads>>

\* Fault: a configuration has one bit less.
LastBitEarly == ld.count = CtrlBits - 2

LastBit == ld.count = CtrlBits - 1

\* A rising edge of the serial clock, on which every register shifts, then a
\* falling one.
LoaderShift ==
  /\ ld.state = "XBYTE"
  /\ IF ~ld.clock
     THEN /\ shift_register' = [p \in Pads |-> Shift(p)]
          /\ ld' = [ld EXCEPT
               !.clock = TRUE,
               !.count = IF LastBit THEN 0 ELSE @ + 1,
               !.state = CASE ~LastBit -> "XBYTE"
                           [] LastBit /\ ld.pad2 = LastPad + 1 -> "LOAD"
                           [] OTHER -> "START"]
     ELSE /\ ld' = [ld EXCEPT !.clock = FALSE, !.staging1 = Shifted(@),
                              !.staging2 = Shifted(@)]
          /\ UNCHANGED shift_register
  /\ UNCHANGED pads

\* The load strobe rises in the second of three clocks.
LoaderLoad ==
  /\ ld.state = "LOAD"
  /\ ld' = IF ld.count < 2
           THEN [ld EXCEPT !.clock = FALSE, !.count = @ + 1]
           ELSE [ld EXCEPT !.count = @ + 1, !.busy = FALSE, !.state = "IDLE"]
  /\ pads' = IF ld.count = 1 THEN shift_register ELSE pads
  /\ UNCHANGED shift_register

Loader == LoaderIdle \/ LoaderStart \/ LoaderShift \/ LoaderLoad

-----------------------------------------------------------------------------
(* The specification.                                                      *)

SpiAtRest == [csb |-> TRUE, sck |-> FALSE, strobe |-> FALSE]

\* Once the CSB pad is no input the block does not see the SPI any more.
Clock ==
  /\ BackDoor /\ Loader
  /\ spi' = IF INP_DIS \in gpio_configure'[3] THEN SpiAtRest ELSE spi

\* The processor makes its next access at any time after the one before.
Issue ==
  /\ ~Done /\ ~req /\ At("idle")
  /\ req' = TRUE
  /\ UNCHANGED <<pc, wb, dat, registers, chains, spi>>

\* The master outside moves CSB and SCK and only reads: the strobe may rise
\* with SCK.
SpiEdge ==
  /\ INP_DIS \notin gpio_configure[3]
  /\ \/ spi' = [spi EXCEPT !.csb = ~@, !.strobe = FALSE]
     \/ \E strobe \in BOOLEAN :
          /\ ~spi.csb
          /\ spi' = [spi EXCEPT !.sck = ~@, !.strobe = IF spi.sck THEN @ ELSE strobe]
  /\ ReadEdge(~wb.busy /\ ~spi'.csb /\ spi'.sck /\ ~(SpiActive /\ spi.sck))
  /\ UNCHANGED <<processor, wb, dat, chains>>

\* gpio_configure after the power-on reset, and the modes the pads start with.
gpio_configure_default ==
  [p \in Pads |-> CASE p < 2 \/ p > LastPad - 2 -> {0, 1, 11, 12}
                    [] p = 3 -> {0, 11}
                    [] OTHER -> {0, 1, 10}]

gpio_defaults ==
  [p \in Pads |-> CASE p < 2 -> {0, 1, 11, 12}
                    [] p = 3 -> {0, 11}
                    [] OTHER -> {0, 1, 10}]

Init ==
  /\ pc = 1 /\ req = FALSE
  /\ wb = [phase |-> "idle", k |-> 0, busy |-> FALSE, addr |-> Register("none", 0),
           byte |-> {}]
  /\ dat = {}
  /\ gpio_configure = gpio_configure_default
  /\ serial_xfer = FALSE
  /\ gpio_data = {} /\ gpio_buf = {}
  /\ ld = [state |-> "IDLE", count |-> 0, pad1 |-> Pads1 - 1, pad2 |-> Pads1,
           clock |-> FALSE, busy |-> FALSE, staging1 |-> {}, staging2 |-> {}]
  /\ shift_register = [p \in Pads |-> {}]
  /\ pads = gpio_defaults
  /\ spi = SpiAtRest

Next == Clock \/ Issue \/ SpiEdge

\* The clock runs and the processor goes on; the SPI is slower than the clock,
\* so that some clock falls between two of its bytes if there are many.
Spec ==
  /\ Init /\ [][Next]_vars
  /\ WF_vars(Clock) /\ SF_vars(Clock /\ ~SpiBusy) /\ WF_vars(Issue)

-----------------------------------------------------------------------------
(* Properties.                                                             *)

\* The mode the program gives a pad, if it has made the access.
Given(p, n) ==
  LET stores == {i \in 1 .. n : main[i].addr = reg_mprj_io(p)}
  IN IF stores = {} THEN gpio_configure_default[p]
     ELSE main[CHOOSE i \in stores : \A j \in stores : j <= i].word

\* Whatever the SPI master does between the bytes of an access, each pad's
\* configuration is what main has written to it: no byte is lost, none goes to
\* another pad or to the other half.
ConfigAsWritten ==
  At("idle") => \A p \in Pads : gpio_configure[p] = Given(p, pc - 1)

Configured == \A p \in Pads : pads[p] = Given(p, Len(main))

\* When main writes its start mark, which tells the testbench that outputs
\* follow, the transfer it polls for has reached every pad.
ConfiguredBeforeStart == pc > Len(main) - Len(Outputs) - 2 => Configured

\* A pad holds its old mode or its new one, never a mixture of bits on their
\* way to other pads, though its shift register holds nothing else for a while.
NoMixedMode == \A p \in Pads : pads[p] \in {gpio_defaults[p], Given(p, Len(main))}

\* The testbench samples the pads at any time: it sees nothing but whole words
\* main has written, since by then the SPI, which would make every byte
\* show as it is written, has lost its CSB pad.
PinsChangeTogether ==
  gpio_data \in {{}} \cup {main[i].word : i \in {j \in 1 .. Len(main) :
                                               main[j].addr = reg_mprj_datal}}

\* main gets to its end, and every pad to the mode it was given and keeps it,
\* though the poll may end early and a transfer may be made twice.  Only an SPI
\* master that stops in front of a byte, with CSB low, holds the processor.
StartUpEnds == <>[](Done /\ Configured) \/ <>[]SpiBusy
=============================================================================
