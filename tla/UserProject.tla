---------------------------- MODULE UserProject ----------------------------
(***************************************************************************)
(* The user project: the FIR engine behind its Wishbone slave.  The slave  *)
(* is the wrapper of rtl/user/user_project_interface.v, which decodes the  *)
(* address and delays every transaction, the bridge of                     *)
(* rtl/user/user_project_axi.v, which turns a transaction of the           *)
(* accelerator's window into one AXI handshake, and the acknowledge of     *)
(* rtl/user/user_project_bram.v, the program memory in the other window.   *)
(*                                                                         *)
(* A step is one rising edge of wb_clk_i.  The bus master is the           *)
(* management core: it holds a request until the acknowledge, may fetch    *)
(* instructions from the program memory back to back, and leaves at least  *)
(* one cycle between an access to the accelerator and anything else.       *)
(*                                                                         *)
(* The request is the variables cyc (wbs_cyc_i and wbs_stb_i, which the    *)
(* master drives together, with the window the address decodes to), we,    *)
(* adr (the offset in the window) and dat.  Only words are accessed.       *)
(***************************************************************************)
EXTENDS Fir, Wrapper

CONSTANT
  PollsForOutput    \* whether software polls sm_tvalid before it reads d_out

(***************************************************************************)
(* A transaction that follows a delayed one waits one cycle less, and a    *)
(* lite read needs three cycles to fetch its word.                         *)
(***************************************************************************)
ASSUME UserProjectAssumption ==
  /\ DELAYS \in 3 .. 15
  /\ PollsForOutput \in BOOLEAN

VARIABLES
  we, adr, dat,     \* the request, with cyc
  read_data,
  axi_w_done, axi_r_done, ss_done, sm_done,
  program_config,   \* software: the status word it read last
  started,          \* software: between a start and having read ap_done
  toSend,           \* software: the next stream access is to d_in
  fires,            \* history: the handshakes made by this transaction
  waited            \* history: the cycles this transaction has taken

request == <<cyc, we, adr, dat>>
bridge == <<axi_ack, read_data, axi_w_done, axi_r_done, ss_done, sm_done>>
software == <<program_config, started, toSend>>
uvars == <<vars, request, bridge, wrapper, software, fires, waited>>

DinAddr == 128
DoutAddr == 132

-----------------------------------------------------------------------------
(* Combinational signals.                                                  *)

is_lite == (adr \div 128) % 2 = 0

\* What the bridge drives on the AXI ports.  A handshake that was made is not
\* offered again until the acknowledge.
Ports ==
  [awvalid |-> axi_enable /\ is_lite /\ we /\ ~axi_w_done,
   awaddr |-> adr,
   wdata |-> dat,
   arvalid |-> axi_enable /\ is_lite /\ ~we /\ ~axi_r_done,
   araddr |-> adr,
   rready |-> axi_enable /\ is_lite /\ ~we,
   ss_tvalid |-> axi_enable /\ ~is_lite /\ we /\ ~ss_done,
   ss_tdata |-> IF axi_enable /\ ~is_lite /\ we THEN dat ELSE 0,
   sm_tready |-> axi_enable /\ ~is_lite /\ ~we /\ ~sm_done]

aw_fire == Ports.awvalid /\ awready
ar_fire == Ports.arvalid /\ arready

-----------------------------------------------------------------------------
(* The registers of the bridge.                                            *)

\* Fault: the handshake is forgotten before the acknowledge.
DoneNotHeld(done, fire) == fire

Done(done, fire) == fire \/ (axi_enable /\ done /\ ~axi_ack)

\* read_data holds what cal_result does, a sum of products: a word w that is
\* not an output is w * 1, and zero is the empty sum.
AsSum(w) == <<<<w, 1>>>>
AsWord(s) == s[1][1]

\* Fault: the word is taken from the bus before it is valid, and after.
ReadDataAlways == IF ~axi_enable THEN <<>>
                  ELSE IF Ports.rready THEN AsSum(rdata)
                  ELSE IF sm_fire(Ports) THEN sm_tdata
                  ELSE read_data

ReadData == IF ~axi_enable THEN <<>>
            ELSE IF rvalid /\ Ports.rready THEN AsSum(rdata)
            ELSE IF sm_fire(Ports) THEN sm_tdata
            ELSE read_data

\* Fault: both handshakes of a kind are waited for.
HandshakeMadeBoth == IF is_lite THEN axi_w_done /\ axi_r_done
                     ELSE ss_done /\ sm_done

HandshakeMade == IF is_lite THEN axi_w_done \/ axi_r_done
                 ELSE ss_done \/ sm_done

Bridge ==
  /\ read_data' = ReadData
  /\ axi_w_done' = Done(axi_w_done, aw_fire)
  /\ axi_r_done' = Done(axi_r_done, ar_fire)
  /\ ss_done' = Done(ss_done, ss_fire(Ports))
  /\ sm_done' = Done(sm_done, sm_fire(Ports))
  /\ axi_ack' = (~axi_ack /\ ready /\ HandshakeMade)

\* The bound of AnswersInTime, beyond which waited does not count.
MaxWait == IF PollsForOutput THEN DELAYS + 2 ELSE 2 * DELAYS + 3

History ==
  /\ fires' = IF wbs_ack_o \/ ~axi_enable THEN 0
              ELSE fires + Bit(aw_fire) + Bit(ar_fire)
                     + Bit(ss_fire(Ports)) + Bit(sm_fire(Ports))
  /\ waited' = IF wbs_ack_o \/ ~axi_enable THEN 0
               ELSE IF waited > MaxWait THEN waited ELSE waited + 1

Edge == Clock(Ports) /\ Bridge /\ WrapperStep /\ History

-----------------------------------------------------------------------------
(* The bus master and the rule its software follows.                       *)

ConfigIdle == ~started

\* Fault: a sample is sent without a look at the status.
CanSendAtOnce == toSend

CanSend == toSend /\ (program_config \div 16) % 2 = 1
CanFetch == ~toSend /\ (PollsForOutput => (program_config \div 32) % 2 = 1)

\* What software may ask for next: [we, adr, dat].
WriteOf(a, w) == [we |-> TRUE, adr |-> a, dat |-> w]
ReadOf(a) == [we |-> FALSE, adr |-> a, dat |-> 0]

Requests ==
  {ReadOf(CtrlAddr)}
  \cup (IF ConfigIdle
        THEN {WriteOf(LenAddr, n) : n \in Lengths}
             \cup {WriteOf(TapAddr(k), t) : k \in Index, t \in Taps}
             \cup {ReadOf(LenAddr)} \cup {ReadOf(TapAddr(k)) : k \in Index}
        ELSE {})
  \cup (IF ConfigIdle /\ length # 0 THEN {WriteOf(CtrlAddr, 1)} ELSE {})
  \cup (IF started /\ CanSend
        THEN {WriteOf(DinAddr, d) : d \in Samples} ELSE {})
  \cup (IF started /\ CanFetch THEN {ReadOf(DoutAddr)} ELSE {})

\* Whatever else is on the shared bus is not decoded to either window.
NoRequest == cyc' = "none" /\ we' = FALSE /\ adr' = 0 /\ dat' = 0

MasterIdles ==
  /\ cyc = "none"
  /\ NoRequest
  /\ UNCHANGED software

Access(r) ==
  /\ cyc = "none"
  /\ cyc' = "axi" /\ we' = r.we /\ adr' = r.adr /\ dat' = r.dat
  /\ UNCHANGED software

\* Instructions are fetched from the program memory one after the other.
Fetch ==
  /\ cyc = "none" \/ (cyc = "bram" /\ wbs_ack_o)
  /\ cyc' = "bram" /\ UNCHANGED <<we, adr, dat>>
  /\ UNCHANGED software

MasterWaits ==
  /\ cyc # "none" /\ ~wbs_ack_o
  /\ UNCHANGED <<request, software>>

FetchEnds ==
  /\ cyc = "bram" /\ wbs_ack_o
  /\ NoRequest
  /\ UNCHANGED software

\* What software makes of the acknowledge of its access.  Without the second
\* poll it has to forget the status that let it send.
AccessEnds ==
  /\ axi_enable /\ wbs_ack_o
  /\ NoRequest
  /\ program_config' = IF ~we /\ adr = CtrlAddr THEN AsWord(read_data)
                       ELSE IF adr = DinAddr /\ ~PollsForOutput THEN 0
                       ELSE program_config
  /\ started' = IF adr # CtrlAddr THEN started
                ELSE we \/ (started /\ ~Bit1(AsWord(read_data)))
  /\ toSend' = IF adr \in {DinAddr, DoutAddr} THEN adr = DoutAddr ELSE toSend

Master ==
  \/ MasterIdles \/ Fetch \/ FetchEnds \/ MasterWaits \/ AccessEnds
  \/ \E r \in Requests : Access(r)

UInit ==
  /\ Init
  /\ cyc = "none" /\ we = FALSE /\ adr = 0 /\ dat = 0
  /\ WrapperInit /\ axi_ack = FALSE /\ read_data = <<>>
  /\ axi_w_done = FALSE /\ axi_r_done = FALSE
  /\ ss_done = FALSE /\ sm_done = FALSE
  /\ program_config = 0 /\ started = FALSE /\ toSend = TRUE
  /\ fires = 0 /\ waited = 0

\* The reset resets the core too: the bus is idle while it lasts, which also
\* clears the registers of the bridge, that have no reset of their own.
UReset ==
  /\ Reset(Ports)
  /\ NoRequest
  /\ WrapperReset /\ axi_ack' = FALSE /\ read_data' = <<>>
  /\ axi_w_done' = FALSE /\ axi_r_done' = FALSE
  /\ ss_done' = FALSE /\ sm_done' = FALSE
  /\ program_config' = 0 /\ started' = FALSE /\ toSend' = TRUE
  /\ fires' = 0 /\ waited' = 0

UNext == (Edge /\ Master) \/ UReset

USpec == UInit /\ [][UNext]_uvars

-----------------------------------------------------------------------------
(* What the slave and a polling software promise each other.               *)

\* Driven through the bus, the engine only ever sees what its contract allows.
EngineContract == Spec

\* An access to the accelerator is acknowledged only after the handshake it
\* stands for, and makes it once: neither the registered acknowledge nor a
\* request held beyond it sends a sample twice or drops an output.
OneHandshakePerAccess ==
  /\ fires <= 1
  /\ axi_ack => axi_enable /\ fires = 1

\* The word returned with the acknowledge is the one of this access.  The
\* taps whose offset is taken for another register are left out.
ReadsAreFresh ==
  axi_ack /\ ~we =>
    /\ adr = LenAddr => read_data = AsSum(length)
    /\ \A k \in Index :
         adr = TapAddr(k) /\ adr % 64 \notin {CtrlAddr, LenAddr} =>
           read_data = AsSum(tap_ram[k])
    /\ adr = DoutAddr => read_data = emitted[Len(emitted)]

\* What software last read of the status is still true when it acts on it,
\* however long it was away: no bit that was read is withdrawn, and a word
\* read before its last access never allows the next one.
StatusStillTrue ==
  ~axi_enable =>
    /\ started /\ CanSend => ss_tready
    /\ started /\ CanFetch /\ PollsForOutput => current_state = "S_WAIT"
    /\ ~started => current_state = "S_IDLE" /\ ~ap_start

\* An access is acknowledged within one delay if its handshake can be made at
\* once, as it can when software polls, and within two if the bus has to wait
\* for an output (whose products take at most three delays and three cycles).
AnswersInTime == waited <= MaxWait
=============================================================================
