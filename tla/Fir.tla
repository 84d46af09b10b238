--------------------------------- MODULE Fir ---------------------------------
(***************************************************************************)
(* The FIR engine of rtl/user/fir.v with its two memories (rtl/user/       *)
(* bram11.v), one step per rising edge of axis_clk.                        *)
(*                                                                         *)
(* A register of the code is a variable of the same name; a combinational  *)
(* wire is an operator.  The inputs of an edge are the record "in", one    *)
(* field per input port.  awvalid and wvalid are one field, because the    *)
(* bridge drives both from the same expression, and awready and wready are *)
(* one variable, because their always blocks are the same.                 *)
(*                                                                         *)
(* Data abstractions: a word is the integer it stands for as a signed      *)
(* number, a memory address is a word index (the code's byte address       *)
(* shifted right by two), and cal_result, the 32-bit accumulator, is the   *)
(* sequence of the <<data, tap>> operands multiplied and added since it    *)
(* was cleared, of which the register holds the sum modulo 2^32.           *)
(***************************************************************************)
EXTENDS Integers, Sequences, Convolution

CONSTANTS
  Tape_Num,   \* the number of taps: 11 in the code
  Samples,    \* the words software may stream in
  Taps,       \* the words software may write as taps
  Lengths,    \* the words software may write as the data length
  Garbage     \* the words the memories may hold at power-up

(***************************************************************************)
(* The counter has 4 bits and must reach Tape_Num; with a single tap the   *)
(* clearing pass would be over before it resets the pointers.  A length of *)
(* zero makes length-1 the largest word: no run would ever end.            *)
(***************************************************************************)
ASSUME FirAssumption ==
  /\ Tape_Num \in 2..15
  /\ Samples \subseteq Int
  /\ Taps \subseteq Int
  /\ Lengths \subseteq Nat \ {0}
  /\ Garbage \subseteq Int

VARIABLES
  current_state, counter, pattern_count, length,
  data_address_pointer, data_address_saver, sram_valid_flag, cal_result,
  ap_start, ap_done, ap_idle,
  axi_current_state, save_araddr, arready, rvalid, rdata,
  awready, ss_tready,
  tap_ram, tap_Do, data_ram, data_Do,
  accepted,   \* history: the samples handshaken since the run began
  emitted     \* history: the outputs handshaken since the run began

fsmVars == <<current_state, counter, pattern_count, data_address_pointer,
             data_address_saver>>
ctrlVars == <<ap_start, ap_done, ap_idle, length>>
readVars == <<axi_current_state, save_araddr, arready, rvalid, rdata>>
ramVars == <<tap_ram, tap_Do, data_ram, data_Do>>
history == <<accepted, emitted>>
vars == <<fsmVars, sram_valid_flag, cal_result, ctrlVars, readVars, awready,
          ss_tready, ramVars, history>>

States == {"S_IDLE", "S_INIT_SRAM", "S_GET_DATA", "S_CAL", "S_SHIFT",
           "S_WAIT", "S_WAIT_AP_DONE"}
ReadStates == {"AXI_READ_IDLE", "AXI_READ_SRAM", "AXI_READ_OUT"}

Index == 0 .. Tape_Num - 1
LastIndex == Tape_Num - 1

(***************************************************************************)
(* The register map (firmware/defs.h): byte offsets on the lite bus.       *)
(***************************************************************************)
CtrlAddr == 0
LenAddr == 16
TapAddr(k) == 64 + 4 * k

IsTap(a) == (a \div 64) % 2 = 1           \* awaddr[6], araddr[6]
WordOf(a) == (a % 64) \div 4              \* bits [5:0] as a word index

Bit(b) == IF b THEN 1 ELSE 0
Bit1(w) == (w \div 2) % 2 = 1

-----------------------------------------------------------------------------
(* Combinational outputs.                                                  *)

sm_tvalid == current_state \in {"S_SHIFT", "S_WAIT"}
sm_tdata == cal_result

\* Fault: the memory is not cleared before a run.
data_WENotCleared == current_state = "S_GET_DATA"

data_WE == current_state \in {"S_GET_DATA", "S_INIT_SRAM"}
data_Di(in) == IF current_state = "S_INIT_SRAM" THEN 0 ELSE in.ss_tdata
tap_WE(in) == in.awvalid /\ IsTap(in.awaddr)

\* A lite write has priority on the only port of the tap memory, then a lite
\* read, then the computation.
tap_A(in) ==
  IF tap_WE(in) THEN WordOf(in.awaddr)
  ELSE IF axi_current_state = "AXI_READ_SRAM" THEN WordOf(save_araddr)
  ELSE IF current_state = "S_CAL" THEN counter
  ELSE 0

\* {sm_tvalid, ss_tready, 0, ap_idle, ap_done, ap_start}
Status == 32 * Bit(sm_tvalid) + 16 * Bit(ss_tready)
          + 4 * Bit(ap_idle) + 2 * Bit(ap_done) + Bit(ap_start)

ss_fire(in) == in.ss_tvalid /\ ss_tready
sm_fire(in) == in.sm_tready /\ sm_tvalid

\* Fault: the last output is found one too late.
LastOutputLate == pattern_count = length

LastOutput == pattern_count = length - 1

-----------------------------------------------------------------------------
(* The main process: one action per state of the machine.                  *)

Idle ==
  /\ current_state = "S_IDLE"
  /\ current_state' = IF ap_start THEN "S_INIT_SRAM" ELSE "S_IDLE"
  /\ counter' = 0
  /\ data_address_pointer' = 0
  /\ UNCHANGED <<data_address_saver, pattern_count>>

InitSram ==
  /\ current_state = "S_INIT_SRAM"
  /\ counter' = counter + 1
  /\ data_address_saver' = 0
  /\ IF counter = LastIndex
     THEN /\ current_state' = "S_GET_DATA"
          /\ data_address_pointer' = data_address_saver
     ELSE /\ current_state' = "S_INIT_SRAM"
          /\ data_address_pointer' = data_address_pointer + 1
  /\ UNCHANGED pattern_count

\* The machine moves on in.ss_tvalid alone: ss_tready is not looked at.
GetData(in) ==
  /\ current_state = "S_GET_DATA"
  /\ current_state' = IF in.ss_tvalid THEN "S_CAL" ELSE "S_GET_DATA"
  /\ counter' = 0
  /\ UNCHANGED <<data_address_pointer, data_address_saver, pattern_count>>

Cal ==
  /\ current_state = "S_CAL"
  /\ current_state' = IF counter = LastIndex THEN "S_SHIFT" ELSE "S_CAL"
  /\ counter' = counter + 1
  /\ data_address_pointer' = IF data_address_pointer = LastIndex THEN 0
                             ELSE data_address_pointer + 1
  /\ UNCHANGED <<data_address_saver, pattern_count>>

\* The output is taken, if the master is ready, in S_SHIFT or in S_WAIT.
TakeOutput(in) ==
  /\ current_state' = IF ~in.sm_tready THEN "S_WAIT"
                      ELSE IF LastOutput THEN "S_WAIT_AP_DONE"
                      ELSE "S_GET_DATA"
  /\ pattern_count' = IF sm_fire(in) THEN pattern_count + 1 ELSE pattern_count
  /\ counter' = 0

\* Fault: the buffer is walked upwards.
ShiftUp(in) ==
  /\ current_state = "S_SHIFT"
  /\ TakeOutput(in)
  /\ data_address_saver' = IF data_address_saver = LastIndex THEN 0
                           ELSE data_address_saver + 1
  /\ data_address_pointer' = data_address_saver'

Shift(in) ==
  /\ current_state = "S_SHIFT"
  /\ TakeOutput(in)
  /\ data_address_saver' = IF data_address_saver = 0 THEN LastIndex
                           ELSE data_address_saver - 1
  /\ data_address_pointer' = data_address_saver'

Wait(in) ==
  /\ current_state = "S_WAIT"
  /\ TakeOutput(in)
  /\ UNCHANGED <<data_address_saver, data_address_pointer>>

\* Any read returning a word with bit 1 set counts as the read of ap_done.
WaitApDone ==
  /\ current_state = "S_WAIT_AP_DONE"
  /\ current_state' = IF rvalid /\ Bit1(rdata) THEN "S_IDLE"
                      ELSE "S_WAIT_AP_DONE"
  /\ counter' = 0
  /\ pattern_count' = 0
  /\ UNCHANGED <<data_address_pointer, data_address_saver>>

Main(in) ==
  \/ Idle \/ InitSram \/ GetData(in) \/ Cal \/ Shift(in) \/ Wait(in)
  \/ WaitApDone

-----------------------------------------------------------------------------
(* The other always blocks: each gives the next value of its registers.    *)

\* Fault: the accumulator is not cleared between two samples.
AccumulateOn ==
  /\ sram_valid_flag' = (current_state = "S_CAL")
  /\ cal_result' = IF sram_valid_flag
                   THEN Append(cal_result, <<data_Do, tap_Do>>)
                   ELSE IF current_state = "S_INIT_SRAM" THEN <<>>
                   ELSE cal_result

\* The product of the operands read one cycle earlier is accumulated.
Accumulate ==
  /\ sram_valid_flag' = (current_state = "S_CAL")
  /\ cal_result' = IF sram_valid_flag
                   THEN Append(cal_result, <<data_Do, tap_Do>>)
                   ELSE IF current_state = "S_GET_DATA" THEN <<>>
                   ELSE cal_result

\* Fault: ap_done stays set when the engine has gone idle.
ControlKeepsDone(in) ==
  /\ ap_start' = IF in.awvalid /\ in.awaddr = CtrlAddr THEN in.wdata % 2 = 1
                 ELSE ap_start /\ ~ss_fire(in)
  /\ ap_idle' = (~ap_start /\ (ap_idle \/ current_state = "S_WAIT_AP_DONE"))
  /\ ap_done' = (ap_done \/ current_state = "S_WAIT_AP_DONE")
  /\ length' = IF in.awvalid /\ in.awaddr = LenAddr THEN in.wdata ELSE length

Control(in) ==
  /\ ap_start' = IF in.awvalid /\ in.awaddr = CtrlAddr THEN in.wdata % 2 = 1
                 ELSE ap_start /\ ~ss_fire(in)
  /\ ap_idle' = (~ap_start /\ (ap_idle \/ current_state = "S_WAIT_AP_DONE"))
  /\ ap_done' = (\/ current_state = "S_WAIT_AP_DONE"
                 \/ ap_done /\ current_state # "S_IDLE")
  /\ length' = IF in.awvalid /\ in.awaddr = LenAddr THEN in.wdata ELSE length

LiteWriteReady(in) ==
  awready' = IF in.awvalid THEN ~awready ELSE awready

LiteReadNext(in) ==
  CASE axi_current_state = "AXI_READ_IDLE" ->
         IF ~in.arvalid THEN "AXI_READ_IDLE"
         ELSE IF IsTap(in.araddr) THEN "AXI_READ_SRAM"
         ELSE "AXI_READ_OUT"
    [] axi_current_state = "AXI_READ_SRAM" -> "AXI_READ_OUT"
    [] axi_current_state = "AXI_READ_OUT" ->
         IF in.rready THEN "AXI_READ_IDLE" ELSE "AXI_READ_OUT"

\* The address was saved in 6 bits: the first tap reads as the control
\* register and the fifth as the length.
ReadWord ==
  CASE save_araddr = CtrlAddr -> Status
    [] save_araddr = LenAddr -> length
    [] OTHER -> tap_Do

LiteRead(in) ==
  /\ axi_current_state' = LiteReadNext(in)
  /\ save_araddr' = IF in.arvalid THEN in.araddr % 64 ELSE save_araddr
  /\ arready' = (axi_current_state = "AXI_READ_IDLE" /\ ~in.arvalid)
  /\ rvalid' = (axi_current_state = "AXI_READ_OUT")
  /\ rdata' = IF axi_current_state = "AXI_READ_OUT" THEN ReadWord ELSE 0

\* Fault: ready for one more cycle after the sample was taken.
StreamReadyHeld(in) == ss_tready' = (current_state = "S_GET_DATA")

StreamReady(in) ==
  ss_tready' = (current_state = "S_GET_DATA" /\ ~in.ss_tvalid)

\* Each memory has one port: an edge that writes does not read.
TapRam(in) ==
  IF tap_WE(in)
  THEN tap_ram' = [tap_ram EXCEPT ![tap_A(in)] = in.wdata] /\ UNCHANGED tap_Do
  ELSE tap_Do' = tap_ram[tap_A(in)] /\ UNCHANGED tap_ram

DataRam(in) ==
  IF data_WE
  THEN /\ data_ram' = [data_ram EXCEPT ![data_address_pointer] = data_Di(in)]
       /\ UNCHANGED data_Do
  ELSE data_Do' = data_ram[data_address_pointer] /\ UNCHANGED data_ram

\* History only: what was handshaken on the two streams in this run.
Record(in) ==
  IF current_state = "S_IDLE"
  THEN accepted' = <<>> /\ emitted' = <<>>
  ELSE /\ accepted' = IF ss_fire(in) THEN Append(accepted, in.ss_tdata)
                      ELSE accepted
       /\ emitted' = IF sm_fire(in) THEN Append(emitted, sm_tdata)
                     ELSE emitted

Clock(in) ==
  /\ Main(in)
  /\ Accumulate
  /\ Control(in)
  /\ LiteWriteReady(in)
  /\ LiteRead(in)
  /\ StreamReady(in)
  /\ TapRam(in)
  /\ DataRam(in)
  /\ Record(in)

-----------------------------------------------------------------------------
(* Reset.  The memories, their outputs and ss_tready have no reset: they   *)
(* are clocked while the other registers are held, and after two edges of  *)
(* reset ss_tready is low and both memories have read word 0.              *)

Init ==
  /\ current_state = "S_IDLE"
  /\ counter = 0
  /\ pattern_count = 0
  /\ length = 0
  /\ data_address_pointer = 0
  /\ data_address_saver = 0
  /\ sram_valid_flag = FALSE
  /\ cal_result = <<>>
  /\ ap_start = FALSE
  /\ ap_done = FALSE
  /\ ap_idle = TRUE
  /\ axi_current_state = "AXI_READ_IDLE"
  /\ save_araddr = 0
  /\ arready = TRUE
  /\ rvalid = FALSE
  /\ rdata = 0
  /\ awready = FALSE
  /\ ss_tready = FALSE
  /\ accepted = <<>>
  /\ emitted = <<>>
  /\ tap_ram \in [Index -> Garbage]
  /\ data_ram \in [Index -> Garbage]
  /\ tap_Do = tap_ram[0]
  /\ data_Do = data_ram[0]

\* The first edge of reset still performs the memory write under way.
Reset(in) ==
  /\ current_state' = "S_IDLE"
  /\ counter' = 0
  /\ pattern_count' = 0
  /\ length' = 0
  /\ data_address_pointer' = 0
  /\ data_address_saver' = 0
  /\ sram_valid_flag' = FALSE
  /\ cal_result' = <<>>
  /\ ap_start' = FALSE
  /\ ap_done' = FALSE
  /\ ap_idle' = TRUE
  /\ axi_current_state' = "AXI_READ_IDLE"
  /\ save_araddr' = 0
  /\ arready' = TRUE
  /\ rvalid' = FALSE
  /\ rdata' = 0
  /\ awready' = FALSE
  /\ ss_tready' = FALSE
  /\ accepted' = <<>>
  /\ emitted' = <<>>
  /\ tap_ram' = IF tap_WE(in) THEN [tap_ram EXCEPT ![tap_A(in)] = in.wdata]
                ELSE tap_ram
  /\ data_ram' = IF data_WE
                 THEN [data_ram EXCEPT ![data_address_pointer] = data_Di(in)]
                 ELSE data_ram
  /\ tap_Do' = tap_ram'[0]
  /\ data_Do' = data_ram'[0]

-----------------------------------------------------------------------------
(* The environment.  The bus bridge drives at most one channel per cycle.  *)

Cycle(kind, a, w) ==
  [awvalid |-> kind = "write", awaddr |-> a, wdata |-> w,
   arvalid |-> kind = "read", araddr |-> a, rready |-> kind \in {"read", "wait"},
   ss_tvalid |-> kind = "send", ss_tdata |-> IF kind = "send" THEN w ELSE 0,
   sm_tready |-> kind = "fetch"]

BusCycles ==
  {Cycle(kind, 0, 0) : kind \in {"none", "wait", "fetch"}}
  \cup {Cycle("write", CtrlAddr, w) : w \in {0, 1}}
  \cup {Cycle("write", LenAddr, n) : n \in Lengths}
  \cup {Cycle("write", TapAddr(k), t) : k \in Index, t \in Taps}
  \cup {Cycle("read", a, 0) :
          a \in {CtrlAddr, LenAddr} \cup {TapAddr(k) : k \in Index}}
  \cup {Cycle("send", 0, d) : d \in Samples}

(***************************************************************************)
(* What the control software must observe for the engine to work.  It is   *)
(* what fir_control.c does: taps and length are accessed before the run,   *)
(* and a sample is sent only after ss_tready was read as 1.                *)
(***************************************************************************)
Contract(in) ==
  /\ in.awvalid /\ in.awaddr # CtrlAddr => current_state = "S_IDLE" /\ ~ap_start
  /\ in.awvalid /\ in.awaddr = CtrlAddr /\ in.wdata = 1 => length # 0
  /\ in.arvalid => arready
  /\ in.arvalid /\ IsTap(in.araddr) => current_state = "S_IDLE" /\ ~ap_start
  /\ in.ss_tvalid => ss_tready

\* An output is fetched only after sm_tvalid was read as 1 (fir_control.c),
\* so never in S_SHIFT, the first cycle sm_tvalid is high.
PollsOutput(in) == in.sm_tready => current_state = "S_WAIT"

Next ==
  \E in \in BusCycles :
    Contract(in) /\ ((PollsOutput(in) /\ Clock(in)) \/ Reset(in))

Spec == Init /\ [][Next]_vars

\* The same engine under a master that reads an output whenever it likes.
EagerNext == \E in \in BusCycles : Contract(in) /\ (Clock(in) \/ Reset(in))

EagerSpec == Init /\ [][EagerNext]_vars

-----------------------------------------------------------------------------
(* Type correctness.                                                       *)

Words == Int
Sums == Seq(Words \X Words)

\* Every register stays in its range; in particular the counter never wraps
\* and the memory addresses stay inside the memories.
TypeOK ==
  /\ current_state \in States
  /\ counter \in 0 .. Tape_Num
  /\ pattern_count \in Nat
  /\ length \in Nat
  /\ data_address_pointer \in Index
  /\ data_address_saver \in Index
  /\ sram_valid_flag \in BOOLEAN
  /\ ap_start \in BOOLEAN /\ ap_done \in BOOLEAN /\ ap_idle \in BOOLEAN
  /\ arready \in BOOLEAN /\ rvalid \in BOOLEAN /\ awready \in BOOLEAN
  /\ ss_tready \in BOOLEAN
  /\ cal_result \in Sums
  /\ axi_current_state \in ReadStates
  /\ save_araddr \in 0 .. 63
  /\ rdata \in Words
  /\ tap_ram \in [Index -> Words]
  /\ data_ram \in [Index -> Words]
  /\ tap_Do \in Words
  /\ data_Do \in Words
  /\ accepted \in Seq(Words)
  /\ emitted \in Seq(Sums)

-----------------------------------------------------------------------------
(* What the engine promises.                                               *)

\* The output due when the samples a have been taken.
Y(a) == ProductsOf(tap_ram, a, Tape_Num)

Running == current_state \notin {"S_IDLE", "S_WAIT_AP_DONE"}

\* Every output taken in this run is the convolution of the samples taken up
\* to then: the circular data memory, the pointers and the one-cycle-late
\* accumulation never mix in a stale, missing or foreign sample.
OutputsAreConvolutions ==
  current_state # "S_IDLE" =>
    \A j \in 1 .. Len(emitted) :
      emitted[j] = Y(SubSeq(accepted, 1, j))

\* The word on offer while the engine waits for the master is complete.
OfferIsComplete == current_state = "S_WAIT" => sm_tdata = Y(accepted)

\* Samples and outputs alternate: an output is pending exactly from the
\* sample's handshake to the output's, the engine is ready for a sample only
\* when none is pending, and pattern_count counts the outputs.
OneOutputPerSample ==
  current_state # "S_IDLE" =>
    /\ Len(accepted) = Len(emitted)
         + Bit(current_state \in {"S_CAL", "S_SHIFT", "S_WAIT"})
    /\ ss_tready => current_state = "S_GET_DATA"
    /\ current_state # "S_WAIT_AP_DONE" =>
         /\ pattern_count = Len(emitted)
         /\ Len(accepted) <= length

\* ap_done, in the register or in a word read from it, means that all of the
\* length outputs have been taken; ap_idle means that no run is under way.
DoneMeansAll ==
  /\ ap_done => Len(emitted) = length /\ Len(accepted) = length
  /\ ap_idle => ~Running

\* The engine implements the abstract accelerator of FirStream: nothing the
\* bus does between a start and the last output, polling and reading included,
\* changes what is computed, for how many samples, or with which taps.
Phase == CASE current_state = "S_IDLE" -> "idle"
           [] current_state = "S_WAIT_AP_DONE" -> "done"
           [] OTHER -> "running"
Stream == INSTANCE FirStream WITH phase <- Phase, taps <- tap_ram
ImplementsStream == Stream!SSpec

-----------------------------------------------------------------------------
(* Why the outputs are right: what the memory and the pipeline hold in     *)
(* each state.                                                             *)

\* The place of the k-th newest sample when the newest is at s.
Slot(s, k) == IF s + k < Tape_Num THEN s + k ELSE s + k - Tape_Num

\* The data memory is a circular buffer of the last samples of this run. The
\* slot about to be overwritten is the one of the oldest.
BufferHoldsSamples ==
  /\ current_state = "S_INIT_SRAM" =>
       \A j \in Index : j < counter => data_ram[j] = 0
  /\ current_state \in {"S_CAL", "S_SHIFT"} =>
       \A k \in Index :
         data_ram[Slot(data_address_saver, k)] = Newest(accepted, k)
  /\ current_state \in {"S_WAIT", "S_GET_DATA"} =>
       \A k \in 1 .. LastIndex :
         data_ram[Slot(data_address_saver, k)] = Newest(accepted, k - 1)

\* Address, operands and accumulator are one cycle apart from each other.
PipelineInStep ==
  /\ current_state = "S_INIT_SRAM" =>
       /\ counter \in Index /\ data_address_pointer = counter
       /\ counter > 0 => data_address_saver = 0
       /\ accepted = <<>> /\ emitted = <<>> /\ pattern_count = 0
  /\ current_state = "S_CAL" =>
       /\ counter \in Index
       /\ data_address_pointer = Slot(data_address_saver, counter)
       /\ cal_result =
            ProductsOf(tap_ram, accepted, IF counter = 0 THEN 0 ELSE counter - 1)
  /\ current_state = "S_SHIFT" =>
       /\ counter = Tape_Num
       /\ cal_result = ProductsOf(tap_ram, accepted, LastIndex)
  /\ sram_valid_flag <=> \/ current_state = "S_CAL" /\ counter > 0
                         \/ current_state = "S_SHIFT"
  /\ sram_valid_flag =>
       /\ data_Do = Newest(accepted, counter - 1)
       /\ tap_Do = tap_ram[counter - 1]
  /\ current_state \in {"S_GET_DATA", "S_WAIT"} =>
       data_address_pointer = data_address_saver

\* How far the run is in each state, and what the bus can do in it: a length
\* is set before a run, and the tap memory is not read by the bus during one.
RunInStep ==
  /\ ss_tready => current_state = "S_GET_DATA"
  /\ axi_current_state = "AXI_READ_SRAM" =>
       current_state = "S_IDLE" /\ WordOf(save_araddr) \in Index
  /\ ap_start \/ current_state # "S_IDLE" => length > 0
  /\ current_state \in {"S_INIT_SRAM", "S_GET_DATA"} => Len(accepted) < length
  /\ current_state = "S_WAIT_AP_DONE" => Len(accepted) = length
  /\ current_state = "S_IDLE" => pattern_count = 0
  /\ ap_done => current_state \in {"S_IDLE", "S_WAIT_AP_DONE"}

\* A master that does not poll sm_tvalid gets the convolution, or all of it
\* but the product of the last tap.
EagerOutputsLackLastTap ==
  current_state # "S_IDLE" =>
    \A j \in 1 .. Len(emitted) :
      LET y == Y(SubSeq(accepted, 1, j))
      IN  emitted[j] \in {y, SubSeq(y, 1, LastIndex)}

\* What holds whether or not the master polls sm_tvalid, and if it does.
EInv ==
  /\ TypeOK
  /\ EagerOutputsLackLastTap /\ OfferIsComplete
  /\ OneOutputPerSample /\ DoneMeansAll
  /\ BufferHoldsSamples /\ PipelineInStep /\ RunInStep

IInv == EInv /\ OutputsAreConvolutions
=============================================================================
