----------------------------- MODULE Peripherals -----------------------------
(***************************************************************************)
(* The firmware's own functions over the UART and the SPI master of the    *)
(* management core: print and putchar (firmware/stub.c), the accessor      *)
(* functions of firmware/csr.h and the interrupt service routine           *)
(* (firmware/isr.c), with the hardware they meet (rtl/soc/mgmt_core.v).    *)
(* A step is one access of the processor to a register, or one step of a   *)
(* device; the service routine comes between any two accesses of main.     *)
(***************************************************************************)
EXTENDS CsrMap, CsrAccess, SequencesExt

CONSTANTS
  Depth,        \* words of a UART queue behind its output register, 16
  Texts,        \* what main prints
  Lengths,      \* lengths of SPI transfers it asks for
  Buffers,      \* <<element size, buffer>> it writes to a wide register
  MaxReceived,  \* bound of the characters that come in
  MaxCalls      \* bound of main's calls

ASSUME PeripheralsAssumption ==
  /\ Depth \in Nat \ {0}
  /\ Texts \subseteq Seq(Nat)
  /\ Lengths \subseteq 0 .. 255
  /\ MaxReceived \in Nat /\ MaxCalls \in Nat

VARIABLES
  tx, rx,              \* the UART's queues: what is sent, how many came in
  pending, trigger,    \* its events, and their triggers a clock ago
  enable,              \* its interrupt enable
  spi,                 \* the SPI master
  la_out,              \* logic analyzer outputs, by word
  mask, mie, flag,     \* the UART's bit of the irq mask, mstatus.MIE, isr's flag
  pc, loc,             \* where main and isr are, main's local values
  sent, printed,       \* history: what went out, what print was given
  received,            \* history: characters that came in
  leftover,            \* history: an acknowledgement left characters behind
  calls, probe         \* calls made; outcome of a call on a register

uart_vars == <<tx, rx, pending, trigger, enable>>
device == <<uart_vars, spi, la_out>>
cpu == <<mask, mie, flag>>
history == <<sent, printed, received, leftover>>
vars == <<device, cpu, pc, loc, history, calls, probe>>

Events == {"tx", "rx"}
None == [e \in Events |-> FALSE]
Bit(b) == IF b THEN 1 ELSE 0
Bits(f) == Bit(f["tx"]) + 2 * Bit(f["rx"])
OfBits(w) == [e \in Events |-> (IF e = "tx" THEN w ELSE w \div 2) % 2 = 1]

NL == 10
CR == 13

-----------------------------------------------------------------------------
(* The devices.                                                            *)

writable(level) == level <= Depth

Level == [e \in Events |-> IF e = "tx" THEN writable(Len(tx)) ELSE rx > 0]
Rising == [e \in Events |-> Level[e] /\ ~trigger[e]]
Settled == trigger = Level

\* An event is set by the edge of its trigger; the edge wins over a clear.
Clock(clear) ==
  /\ pending' = [e \in Events |-> Rising[e] \/ (pending[e] /\ ~clear[e])]
  /\ trigger' = Level

Sample ==
  /\ ~Settled /\ Clock(None)
  /\ UNCHANGED <<tx, rx, enable, spi, la_out, cpu, pc, loc, history, calls, probe>>

\* The transmitter takes the next character.
LineTakes ==
  /\ Settled /\ tx # <<>>
  /\ sent' = Append(sent, Head(tx))
  /\ tx' = Tail(tx)
  /\ UNCHANGED <<rx, pending, trigger, enable, spi, la_out, cpu, pc, loc,
                 printed, received, leftover, calls, probe>>

\* One comes in; the receiver drops it if the queue is full.
LineGives ==
  /\ Settled /\ received < MaxReceived
  /\ received' = received + 1
  /\ rx' = IF writable(rx) THEN rx + 1 ELSE rx
  /\ UNCHANGED <<tx, pending, trigger, enable, spi, la_out, cpu, pc, loc,
                 sent, printed, leftover, calls, probe>>

irq == \E e \in Events : pending[e] /\ enable[e]

SpiLength == extract(spi_master.fields.length, spi.control)

\* Fault: the length is compared with the count itself.
SpiClockLate ==
  /\ spi.state # "idle"
  /\ spi' =
       CASE spi.state = "start" -> [spi EXCEPT !.state = "xfer", !.count = 0]
         [] spi.state = "xfer" ->
              [spi EXCEPT !.count = (@ + 1) % 8,
                          !.bits = IF @ = 9 THEN @ ELSE @ + 1,
                          !.state = IF spi.count = SpiLength THEN "end" ELSE @]
         [] spi.state = "end" -> [spi EXCEPT !.state = "idle"]
  /\ UNCHANGED <<uart_vars, la_out, cpu, pc, loc, history, calls, probe>>

\* An edge of the SPI clock: the count has 3 bits, the length 8.
SpiClock ==
  /\ spi.state # "idle"
  /\ spi' =
       CASE spi.state = "start" -> [spi EXCEPT !.state = "xfer", !.count = 0]
         [] spi.state = "xfer" ->
              [spi EXCEPT !.count = (@ + 1) % 8,
                          !.bits = IF @ = 9 THEN @ ELSE @ + 1,
                          !.state = IF spi.count = (SpiLength - 1) % 256
                                    THEN "end" ELSE @]
         [] spi.state = "end" -> [spi EXCEPT !.state = "idle"]
  /\ UNCHANGED <<uart_vars, la_out, cpu, pc, loc, history, calls, probe>>

\* A write to the control register that has the start bit starts a transfer.
Started(v) ==
  IF spi.state = "idle"
  THEN IF extract(spi_master.fields.start, v) = 1
       THEN [control |-> v, state |-> "start", count |-> spi.count,
             bits |-> 0, rewritten |-> FALSE]
       ELSE [spi EXCEPT !.control = v]
  ELSE [spi EXCEPT !.control = v, !.rewritten = TRUE]

-----------------------------------------------------------------------------
(* Accesses of the processor.                                              *)

csr_read_simple(a) ==
  LET r == Decode(a)
  IN CASE r = <<"uart", "txfull">> -> Bit(~writable(Len(tx)))
       [] r = <<"uart", "rxempty">> -> Bit(rx = 0)
       [] r = <<"uart", "ev_pending">> -> Bits(pending)
       [] r = <<"uart", "ev_enable">> -> Bits(enable)
       [] r = <<"spi_master", "control">> -> spi.control
       [] OTHER -> 0

\* Fault: an event is cleared before its edge is seen.
AcknowledgeEdgeLost(v) ==
  LET clear == OfBits(v)
  IN /\ pending' = [e \in Events |-> pending[e] /\ ~clear[e]]
     /\ trigger' = Level
     /\ rx' = IF clear["rx"] /\ rx > 0 THEN rx - 1 ELSE rx
     /\ leftover' = IF clear["rx"] THEN rx > 1 ELSE leftover
     /\ UNCHANGED <<tx, enable, spi, la_out>>

\* A write to ev_pending: to clear rx is what takes a character off the queue.
Acknowledge(v) ==
  LET clear == OfBits(v)
  IN /\ Clock(clear)
     /\ rx' = IF clear["rx"] /\ rx > 0 THEN rx - 1 ELSE rx
     /\ leftover' = IF clear["rx"] THEN rx > 1 ELSE leftover
     /\ UNCHANGED <<tx, enable, spi, la_out>>

csr_write_simple(v, a) ==
  LET r == Decode(a)
  IN \/ /\ r = <<"uart", "rxtx">> /\ Settled
        /\ tx' = IF writable(Len(tx)) THEN Append(tx, v) ELSE tx
        /\ UNCHANGED <<rx, pending, trigger, enable, spi, la_out, leftover>>
     \/ /\ r = <<"uart", "ev_pending">>
        /\ Acknowledge(v)
     \/ /\ r = <<"uart", "ev_enable">>
        /\ enable' = OfBits(v)
        /\ UNCHANGED <<tx, rx, pending, trigger, spi, la_out, leftover>>
     \/ /\ r = <<"spi_master", "control">>
        /\ spi' = Started(v % 2 ^ 16)
        /\ UNCHANGED <<uart_vars, la_out, leftover>>
     \/ /\ r[1] = "la" /\ r[2][1] = "out"
        /\ la_out' = [la_out EXCEPT ![r[2][2]] = v]
        /\ UNCHANGED <<uart_vars, spi, leftover>>

NoLocals ==
  [text |-> <<>>, c |-> 0, return |-> FALSE, adr |-> 0,
   field |-> Field("none", 0, 1), value |-> 0, oldword |-> 0]

At(t, label) == pc[t] = label /\ (t = "main" => pc["isr"] = "idle")
Goto(t, label) == pc' = [pc EXCEPT ![t] = label]

-----------------------------------------------------------------------------
(* isr                                                                     *)

Interrupt ==
  /\ irq /\ mie /\ mask /\ pc["isr"] = "idle"
  /\ mie' = FALSE
  /\ Goto("isr", "setmask")
  /\ UNCHANGED <<device, mask, flag, loc, history, calls, probe>>

\* Fault: the interrupt stays unmasked, and nothing clears its cause.
irq_setmask0Forgotten ==
  /\ At("isr", "setmask")
  /\ Goto("isr", "la1")
  /\ UNCHANGED <<device, cpu, loc, history, calls, probe>>

irq_setmask0 ==
  /\ At("isr", "setmask")
  /\ mask' = FALSE
  /\ Goto("isr", "la1")
  /\ UNCHANGED <<device, mie, flag, loc, history, calls, probe>>

SignalsTest ==
  /\ \/ At("isr", "la1") /\ csr_write_simple(10, reg_la("out", 1)) /\ Goto("isr", "la0")
     \/ At("isr", "la0") /\ csr_write_simple(131072, reg_la("out", 0)) /\ Goto("isr", "flag")
  /\ UNCHANGED <<cpu, loc, sent, printed, received, calls, probe>>

SetsFlag ==
  /\ At("isr", "flag")
  /\ flag' = 1 /\ mie' = TRUE
  /\ Goto("isr", "idle")
  /\ UNCHANGED <<device, mask, loc, history, calls, probe>>

Isr == irq_setmask0 \/ SignalsTest \/ SetsFlag

-----------------------------------------------------------------------------
(* main: print and putchar                                                 *)

Call ==
  /\ At("main", "idle") /\ calls < MaxCalls
  /\ calls' = calls + 1

\* print goes on with the rest of its string, putchar with '\r' before '\n'.
NextChar(text) ==
  IF text = <<>>
  THEN Goto("main", "idle") /\ loc' = NoLocals
  ELSE /\ Goto("main", "poll")
       /\ loc' = [loc EXCEPT !.text = Tail(text), !.c = Head(text),
                             !.return = Head(text) = NL]

CallPrint ==
  /\ Call
  /\ \E text \in Texts : printed' = printed \o text /\ NextChar(text)
  /\ UNCHANGED <<device, cpu, sent, received, leftover, probe>>

\* Fault: the queue is not asked.
PollsNot ==
  /\ At("main", "poll")
  /\ Goto("main", "store")
  /\ UNCHANGED <<device, cpu, loc, history, calls, probe>>

Polls ==
  /\ At("main", "poll")
  /\ csr_read_simple(reg_uart_txfull) # 1
  /\ Goto("main", "store")
  /\ UNCHANGED <<device, cpu, loc, history, calls, probe>>

Stores ==
  /\ At("main", "store")
  /\ csr_write_simple(IF loc.return THEN CR ELSE loc.c, reg_uart_data)
  /\ IF loc.return
     THEN Goto("main", "poll") /\ loc' = [loc EXCEPT !.return = FALSE]
     ELSE NextChar(loc.text)
  /\ UNCHANGED <<cpu, sent, printed, received, calls, probe>>

-----------------------------------------------------------------------------
(* main: the accessors of csr.h                                            *)

\* <reg>_<field>_write(value): the register is read, changed and written.
CallFieldWrite(block, field, value) ==
  /\ Call
  /\ loc' = [loc EXCEPT !.adr = block.regs[field.reg], !.field = field, !.value = value]
  /\ Goto("main", "field_read")
  /\ UNCHANGED <<device, cpu, history, probe>>

FieldRead ==
  /\ At("main", "field_read")
  /\ loc' = [loc EXCEPT !.oldword = csr_read_simple(loc.adr)]
  /\ Goto("main", "field_write")
  /\ UNCHANGED <<device, cpu, history, calls, probe>>

FieldWrite ==
  /\ At("main", "field_write")
  /\ csr_write_simple(replace(loc.field, loc.oldword, loc.value), loc.adr)
  /\ Goto("main", "idle") /\ loc' = NoLocals
  /\ UNCHANGED <<cpu, sent, printed, received, calls, probe>>

UartFieldWrite ==
  \E f \in {"pending_tx", "pending_rx", "enable_tx", "enable_rx"} :
    CallFieldWrite(uart, uart.fields[f], 1)

SpiFieldWrite ==
  \/ CallFieldWrite(spi_master, spi_master.fields.start, 1)
  \/ \E l \in Lengths : CallFieldWrite(spi_master, spi_master.fields.length, l)

spi_master_control_write ==
  /\ Call
  /\ \E l \in Lengths :
       csr_write_simple(replace(spi_master.fields.length, 1, l), spi_master.regs.control)
  /\ UNCHANGED <<cpu, pc, loc, sent, printed, received, probe>>

\* irq_setmask(1 << UART_INTERRUPT), irq_setie(1)
irq_setup ==
  /\ Call
  /\ \/ mask' = TRUE /\ UNCHANGED mie
     \/ mie' = TRUE /\ UNCHANGED mask
  /\ UNCHANGED <<device, flag, pc, loc, history, probe>>

-----------------------------------------------------------------------------
(* main: a first call to any register, field, or wide register.            *)

Probe(outcome) ==
  /\ At("main", "idle") /\ calls = 0
  /\ calls' = MaxCalls
  /\ probe' = outcome
  /\ UNCHANGED <<device, cpu, pc, loc, history>>

\* The address of a register that csr.h gives and the register it reaches.
ProbeRegister ==
  \E b \in DOMAIN Blocks \ {"la"} : \E r \in DOMAIN Blocks[b].regs :
    Probe([kind |-> "register", means |-> <<b, r>>, reaches |-> Decode(Blocks[b].regs[r])])

ProbeLa ==
  \E k \in DOMAIN la.regs, n \in 0 .. 3 :
    Probe([kind |-> "register", means |-> <<"la", <<k, n>>>>, reaches |-> Decode(reg_la(k, n))])

\* Two fields of a register: what a write to one leaves of them.
ProbeField ==
  \E b \in DOMAIN Blocks : \E f, g \in DOMAIN Blocks[b].fields :
    LET written == Blocks[b].fields[f]
        other == Blocks[b].fields[g]
    IN /\ written.reg = other.reg
       /\ \E oldword \in {0, 2 ^ 24 - 1, 5592405}, v \in {0, 1, 170, 511} :
            LET newword == replace(written, oldword, v)
            IN Probe([kind |-> "field", same |-> f = g, value |-> v % 2 ^ written.size,
                      old |-> extract(other, oldword), new |-> extract(other, newword)])

\* A buffer goes to a wide register, and comes back as a buffer and, if a type
\* has its size, as one number.
Cleared == [w \in 0 .. 7 |-> 0]

ProbeBuffer ==
  \E b \in Buffers :
    LET size == b[1]
        buf == b[2]
        cnt == Cardinality(DOMAIN buf)
        slices == csr_wr_buf(Cleared, buf, size, cnt)
    IN Probe([kind |-> "buffer", size |-> size, buf |-> buf,
              back |-> csr_rd_buf(slices, size, cnt),
              number |-> IF size * cnt \in {1, 2, 4, 8}
                         THEN csr_rd(slices, 0, size * cnt) ELSE -1,
              again |-> IF size * cnt \in {1, 2, 4, 8}
                        THEN csr_wr(Cleared, 0, csr_rd(slices, 0, size * cnt), size * cnt) = slices
                        ELSE TRUE])

-----------------------------------------------------------------------------
Init ==
  /\ tx = <<>> /\ rx = 0
  /\ pending = None /\ trigger = None /\ enable = None
  /\ spi = [control |-> 0, state |-> "idle", count |-> 0, bits |-> 0, rewritten |-> FALSE]
  /\ la_out = [n \in 0 .. 3 |-> 0]
  /\ mask = FALSE /\ mie \in BOOLEAN /\ flag = 0
  /\ pc = [t \in {"main", "isr"} |-> "idle"]
  /\ loc = NoLocals
  /\ sent = <<>> /\ printed = <<>> /\ received = 0 /\ leftover = FALSE
  /\ calls = 0 /\ probe = [kind |-> "none"]

Main == Polls \/ Stores \/ FieldRead \/ FieldWrite

Calls ==
  \/ CallPrint \/ UartFieldWrite \/ SpiFieldWrite
  \/ spi_master_control_write \/ irq_setup
  \/ ProbeRegister \/ ProbeLa \/ ProbeField \/ ProbeBuffer

Devices == Sample \/ LineTakes \/ LineGives \/ SpiClock

Next == Main \/ Calls \/ Isr \/ Interrupt \/ Devices

\* The processor and the devices go on; characters need not come in, and the
\* program need not call anything.
Fairness ==
  /\ WF_vars(Main) /\ WF_vars(Isr)
  /\ WF_vars(Sample) /\ WF_vars(LineTakes) /\ WF_vars(SpiClock)

Spec == Init /\ [][Next]_vars /\ Fairness

-----------------------------------------------------------------------------
Digits(buf, size) ==
  LET v[k \in 0 .. Cardinality(DOMAIN buf)] ==
        IF k = 0 THEN 0 ELSE v[k - 1] * B ^ size + buf[k - 1]
  IN v[Cardinality(DOMAIN buf)]

\* The accessors of csr.h and hw/common.h against the hardware's decoder.
\* Every address of csr.h and every word of the logic analyzer that defs.h
\* names reaches the register it is named for.  A write to a field puts what
\* fits of the value there and leaves the register's other fields as they were.
\* A wide register gives back what was put there, and its bytes are one number
\* with the first element the most significant, whichever way it is accessed.
AccessorsSound ==
  /\ probe.kind = "register" => probe.reaches = probe.means
  /\ probe.kind = "field" => probe.new = IF probe.same THEN probe.value ELSE probe.old
  /\ probe.kind = "buffer" =>
       /\ probe.back = probe.buf /\ probe.again
       /\ probe.number \in {-1, Digits(probe.buf, probe.size)}

\* What print was given goes out in order and whole, '\r' before each '\n',
\* with the queue full or not and whatever interrupts it.
Expanded == FlattenSeq([i \in DOMAIN printed |->
              IF printed[i] = NL THEN <<CR, NL>> ELSE <<printed[i]>>])

PrintedInOrder ==
  /\ IsPrefix(sent \o tx, Expanded)
  /\ pc["main"] = "idle" => sent \o tx = Expanded

\* A character waits with its event set, or its edge on the way, unless an
\* acknowledgement took one of several: the rest get no event of their own.
CharactersHaveEvents ==
  rx > 0 => pending["rx"] \/ ~trigger["rx"] \/ leftover

\* print comes to its end, though it polls a full queue and is interrupted by
\* an event that the isr does not clear.
PrintReturns == (pc["main"] = "poll") ~> (pc["main"] = "idle")

\* A transfer has the bits its length says, unless the length was rewritten
\* while it ran; and one of 1 to 8 bits ends, though the length may change.
TransferCompletes ==
  /\ []((spi.state = "end" /\ ~spi.rewritten) => spi.bits = SpiLength)
  /\ (spi.state # "idle" /\ SpiLength \in 1 .. 8) ~>
       (spi.state = "idle" \/ SpiLength \notin 1 .. 8)

=============================================================================
