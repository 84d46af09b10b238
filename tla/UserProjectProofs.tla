-------------------------- MODULE UserProjectProofs --------------------------
(***************************************************************************)
(* The user project is right for every delay that the slave works with,    *)
(* every tape length and all words: its bridge makes one handshake for an  *)
(* access, returns the word of this access, and shows the engine nothing   *)
(* but what the engine's contract allows, so that the theorems of          *)
(* FirProofs hold of the engine behind the bus: those of a master that     *)
(* polls if software polls for the output, or if the taps are so few that  *)
(* an output is always there when software comes for it, and those of an   *)
(* eager master otherwise.                                                 *)
(***************************************************************************)
EXTENDS UserProject, FirProofs

-----------------------------------------------------------------------------
(* The inductive invariant.                                                *)

LiteWrites == axi_enable /\ is_lite /\ we
LiteReads == axi_enable /\ is_lite /\ ~we
StreamWrites == axi_enable /\ ~is_lite /\ we
StreamReads == axi_enable /\ ~is_lite /\ ~we

\* A fetch of software that does not poll, for which the bus may have to wait.
MayWait == StreamReads /\ ~PollsForOutput

\* The accesses of software.
Configures == \/ we /\ adr = LenAddr /\ dat \in Lengths
              \/ we /\ \E k \in Index : adr = TapAddr(k) /\ dat \in Taps
ReadsBack == ~we /\ (adr = LenAddr \/ \E k \in Index : adr = TapAddr(k))
Starts == we /\ adr = CtrlAddr /\ dat = 1
ReadsStatus == ~we /\ adr = CtrlAddr
Sends == we /\ adr = DinAddr /\ dat \in Samples
Fetches == ~we /\ adr = DoutAddr

ReadyBit(w) == (w \div 16) % 2 = 1
ValidBit(w) == (w \div 32) % 2 = 1

\* What is requested, and under which knowledge.
RequestInv ==
  /\ cyc \in {"none", "axi", "bram"}
  /\ ~axi_enable => ~we /\ adr = 0 /\ dat = 0
  /\ axi_enable =>
       \/ ~started /\ Configures
       \/ ~started /\ ReadsBack /\ dat = 0
       \/ ~started /\ Starts /\ length # 0
       \/ ReadsStatus /\ dat = 0
       \/ started /\ CanSend /\ Sends
       \/ started /\ CanFetch /\ Fetches /\ dat = 0

\* The delay: a transaction finds count at 0, or at 1 behind a delayed one.
DelayInv ==
  /\ waited \in Nat /\ count \in 0 .. DELAYS
  /\ ~axi_enable => waited = 0 /\ ~axi_ack
  /\ cyc = "none" => ~ready /\ count \in {0, 1}
  /\ cyc = "bram" /\ ready => count = 0
  /\ MayWait =>
       \/ ~ready /\ ~axi_ack /\ waited >= count - 1
       \/ ready /\ ~axi_ack /\ count = 0 /\ waited >= DELAYS
       \/ ~ready /\ axi_ack /\ count = 0 /\ waited > DELAYS /\ sm_done
  /\ axi_enable /\ ~MayWait =>
       \/ ~ready /\ ~axi_ack /\ count \in {waited, waited + 1}
       \/ ready /\ ~axi_ack /\ count = 0 /\ waited \in {DELAYS, DELAYS + 1}
       \/ ~ready /\ axi_ack /\ count = 0 /\ waited \in {DELAYS + 1, DELAYS + 2}

\* The cycle in which the read channel has its word.
OutCycle == IF IsTap(adr) THEN 2 ELSE 1

\* Each channel makes its handshake at a known cycle of the access.
ChannelInv ==
  /\ axi_w_done <=> LiteWrites /\ waited >= 2
  /\ awready <=> LiteWrites /\ waited = 1
  /\ axi_r_done <=> LiteReads /\ waited >= 1
  /\ arready <=> ~(LiteReads /\ waited \in 1 .. OutCycle + 1)
  /\ rvalid <=> LiteReads /\ waited = OutCycle + 1
  /\ axi_current_state =
       CASE LiteReads /\ waited = OutCycle -> "AXI_READ_OUT"
         [] LiteReads /\ waited = 1 /\ OutCycle = 2 -> "AXI_READ_SRAM"
         [] OTHER -> "AXI_READ_IDLE"
  /\ LiteReads /\ waited >= 1 => save_araddr = adr % 64
  /\ ss_done <=> StreamWrites /\ waited >= 1
  /\ sm_done => StreamReads /\ waited >= 1
  /\ StreamReads /\ waited >= 1 /\ ~MayWait => sm_done
  /\ fires = IF LiteWrites THEN Bit(waited >= 2)
             ELSE IF StreamReads THEN Bit(sm_done)
             ELSE IF axi_enable THEN Bit(waited >= 1)
             ELSE 0

\* The state of the engine that the access under way, and what software knows,
\* stand for.
EngineInv ==
  /\ ~started =>
       \/ current_state = "S_IDLE" /\ ~ap_start
       \/ axi_enable /\ Starts /\ waited = 1 /\ current_state = "S_IDLE"
       \/ axi_enable /\ Starts /\ waited > 1
  /\ ap_start => current_state \in {"S_IDLE", "S_INIT_SRAM", "S_GET_DATA"}
  /\ ap_done => \/ current_state = "S_WAIT_AP_DONE"
                \/ /\ current_state = "S_IDLE" /\ ~ap_start
                   /\ axi_enable /\ ReadsStatus /\ waited = 3
  /\ StreamWrites /\ waited >= 1 => current_state \in {"S_CAL", "S_SHIFT", "S_WAIT"}
  /\ sm_done => current_state \in {"S_GET_DATA", "S_WAIT_AP_DONE"}

\* A word read from the status register, as long as it is of use.
StillTrue(w) ==
  /\ ReadyBit(w) => ss_tready
  /\ ValidBit(w) => current_state = "S_WAIT"
  /\ Bit1(w) => current_state \in {"S_IDLE", "S_WAIT_AP_DONE"} /\ ~ap_start

\* The word of a status read, from the read channel to the bridge.
StatusFetched == waited = 2 => rdata \in Nat /\ StillTrue(rdata)
StatusHeld ==
  waited >= 3 => \E w \in Nat : /\ read_data = AsSum(w) /\ StillTrue(w)
                                /\ Bit1(w) => current_state = "S_IDLE"
StatusWord == axi_enable /\ ReadsStatus => StatusFetched /\ StatusHeld

\* No status that allows both, none before a start, and one that is true while
\* software may act on it.
KnowledgeInv ==
  /\ program_config \in Nat /\ started \in BOOLEAN /\ toSend \in BOOLEAN
  /\ ~(ReadyBit(program_config) /\ ValidBit(program_config))
  /\ ~started => ~ReadyBit(program_config) /\ ~ValidBit(program_config)
  /\ started /\ CanSend /\ ~(StreamWrites /\ waited >= 1) => ss_tready
  /\ PollsForOutput /\ started /\ CanFetch /\ ~sm_done => current_state = "S_WAIT"
  /\ ~toSend /\ ~sm_done => current_state \in {"S_CAL", "S_SHIFT", "S_WAIT"}
  /\ ~toSend /\ ~PollsForOutput => ~ReadyBit(program_config)
  /\ StatusWord

\* The word on its way through the read channel and the bridge.
FreshInv ==
  /\ axi_enable /\ ~we /\ adr = LenAddr =>
       /\ waited = 2 => rdata = length
       /\ waited >= 3 => read_data = AsSum(length)
  /\ \A k \in Index :
       axi_enable /\ ~we /\ adr = TapAddr(k) /\ adr % 64 \notin {CtrlAddr, LenAddr} =>
         /\ waited = 2 => tap_Do = tap_ram[k]
         /\ waited = 3 => rdata = tap_ram[k]
         /\ waited >= 4 => read_data = AsSum(tap_ram[k])
  /\ sm_done => read_data = emitted[Len(emitted)]

UInv ==
  /\ EInv
  /\ RequestInv /\ DelayInv /\ ChannelInv /\ EngineInv /\ KnowledgeInv /\ FreshInv

-----------------------------------------------------------------------------
(* The kinds of accesses.                                                  *)

\* The window of the accelerator: taps and registers below 128, streams above.
LEMMA AddrFacts ==
  /\ CtrlAddr = 0 /\ LenAddr = 16 /\ DinAddr = 128 /\ DoutAddr = 132
  /\ ~IsTap(CtrlAddr) /\ ~IsTap(LenAddr)
  /\ \A k \in Index : /\ TapAddr(k) \in 64 .. 127 /\ IsTap(TapAddr(k))
                      /\ WordOf(TapAddr(k) % 64) = k
  /\ \A k, j \in Index : TapAddr(k) = TapAddr(j) => k = j
  /\ \A a \in 0 .. 127 : (a \div 128) % 2 = 0
  /\ (128 \div 128) % 2 = 1 /\ (132 \div 128) % 2 = 1
<1>1. \A k \in Index : k \in 0 .. 14
  BY FirAssumption DEF Index
<1>2. \A k \in Index : TapAddr(k) \in 64 .. 127
  BY <1>1 DEF TapAddr
<1>3. \A k, j \in Index : TapAddr(k) = TapAddr(j) => k = j
  BY <1>1 DEF TapAddr
<1>4. \A a \in 0 .. 127 : (a \div 128) % 2 = 0
  OBVIOUS
<1>5. (128 \div 128) % 2 = 1 /\ (132 \div 128) % 2 = 1
  OBVIOUS
<1>6. 0 \in Index
  BY FirAssumption DEF Index
<1>7. ~IsTap(CtrlAddr) /\ ~IsTap(LenAddr)
  BY <1>6, TapAddrFacts
<1>8. \A k \in Index : IsTap(TapAddr(k)) /\ WordOf(TapAddr(k) % 64) = k
  BY TapAddrFacts
<1>9. CtrlAddr = 0 /\ LenAddr = 16 /\ DinAddr = 128 /\ DoutAddr = 132
  BY DEF CtrlAddr, LenAddr, DinAddr, DoutAddr
<1> QED
  BY <1>2, <1>3, <1>4, <1>5, <1>7, <1>8, <1>9

\* Each access is of one kind, and software has made sure that it may make it.
LEMMA KindFacts ==
  ASSUME RequestInv, axi_enable
  PROVE  /\ LiteWrites => ~started /\ (Configures \/ (Starts /\ length # 0))
         /\ LiteReads => dat = 0 /\ (ReadsStatus \/ (~started /\ ReadsBack))
         /\ StreamWrites => started /\ CanSend /\ Sends
         /\ StreamReads => started /\ CanFetch /\ Fetches /\ dat = 0
         /\ LiteWrites \/ LiteReads \/ StreamWrites \/ StreamReads
         /\ we \in BOOLEAN
<1>1. Configures \/ Starts \/ ReadsBack \/ ReadsStatus => is_lite
  BY AddrFacts DEF Configures, Starts, ReadsBack, ReadsStatus, is_lite
<1>2. Sends \/ Fetches => ~is_lite
  BY AddrFacts DEF Sends, Fetches, is_lite
<1>3. Configures \/ Starts \/ Sends => we = TRUE
  BY DEF Configures, Starts, Sends
<1>4. ReadsBack \/ ReadsStatus \/ Fetches => we = FALSE
  BY DEF ReadsBack, ReadsStatus, Fetches
<1> QED
  BY <1>1, <1>2, <1>3, <1>4
     DEF RequestInv, LiteWrites, LiteReads, StreamWrites, StreamReads

\* The kinds exclude each other.
LEMMA KindsApart ==
  /\ LiteWrites => axi_enable /\ is_lite /\ we /\ ~LiteReads /\ ~StreamWrites /\ ~StreamReads
  /\ LiteReads => axi_enable /\ is_lite /\ ~we /\ ~StreamWrites /\ ~StreamReads
  /\ StreamWrites => axi_enable /\ ~is_lite /\ we /\ ~StreamReads
  /\ StreamReads => axi_enable /\ ~is_lite /\ ~we
  /\ MayWait <=> StreamReads /\ ~PollsForOutput
BY DEF LiteWrites, LiteReads, StreamWrites, StreamReads, MayWait

-----------------------------------------------------------------------------
(* The bridge shows the engine one of the cycles of its contract.          *)

\* What the bridge drives: each handshake is offered until it is made.
LEMMA PortFacts ==
  ASSUME RequestInv, DelayInv, ChannelInv
  PROVE  /\ Ports.awvalid <=> LiteWrites /\ waited < 2
         /\ Ports.arvalid <=> LiteReads /\ waited = 0
         /\ Ports.rready <=> LiteReads
         /\ Ports.ss_tvalid <=> StreamWrites /\ waited = 0
         /\ Ports.sm_tready <=> StreamReads /\ ~sm_done
         /\ Ports.awaddr = adr /\ Ports.wdata = dat /\ Ports.araddr = adr
         /\ StreamWrites => Ports.ss_tdata = dat
         /\ ~StreamWrites => Ports.ss_tdata = 0
<1>1. waited \in Nat
  BY DEF DelayInv
<1>2. /\ Ports.awvalid <=> LiteWrites /\ ~axi_w_done
      /\ Ports.arvalid <=> LiteReads /\ ~axi_r_done
      /\ Ports.rready <=> LiteReads
      /\ Ports.ss_tvalid <=> StreamWrites /\ ~ss_done
      /\ Ports.sm_tready <=> StreamReads /\ ~sm_done
  BY DEF Ports, LiteWrites, LiteReads, StreamWrites, StreamReads
<1>3. /\ Ports.awaddr = adr /\ Ports.wdata = dat /\ Ports.araddr = adr
      /\ StreamWrites => Ports.ss_tdata = dat
      /\ ~StreamWrites => Ports.ss_tdata = 0
  BY DEF Ports, StreamWrites
<1>4. /\ LiteWrites /\ ~axi_w_done <=> LiteWrites /\ waited < 2
      /\ LiteReads /\ ~axi_r_done <=> LiteReads /\ waited = 0
      /\ StreamWrites /\ ~ss_done <=> StreamWrites /\ waited = 0
  BY <1>1 DEF ChannelInv
<1> QED
  BY <1>2, <1>3, <1>4

\* The same cycle with the fields that no channel uses at 0.
BusCycle ==
  IF LiteWrites /\ waited < 2 THEN Cycle("write", adr, dat)
  ELSE IF LiteReads /\ waited = 0 THEN Cycle("read", adr, 0)
  ELSE IF LiteReads THEN Cycle("wait", 0, 0)
  ELSE IF StreamWrites /\ waited = 0 THEN Cycle("send", 0, dat)
  ELSE IF StreamReads /\ ~sm_done THEN Cycle("fetch", 0, 0)
  ELSE Cycle("none", 0, 0)

\* The engine tells two cycles apart only by what is valid in them.
LEMMA AlikeCycles ==
  ASSUME NEW i, NEW j,
         i.awvalid <=> j.awvalid, i.arvalid <=> j.arvalid, i.rready <=> j.rready,
         i.ss_tvalid <=> j.ss_tvalid, i.sm_tready <=> j.sm_tready,
         i.awvalid => i.awaddr = j.awaddr /\ i.wdata = j.wdata,
         i.arvalid => i.araddr = j.araddr,
         i.ss_tvalid \/ current_state = "S_GET_DATA" => i.ss_tdata = j.ss_tdata
  PROVE  (Clock(i) => Clock(j)) /\ (Reset(i) => Reset(j))
<1>1. /\ ss_fire(i) <=> ss_fire(j)
      /\ sm_fire(i) <=> sm_fire(j)
      /\ tap_WE(i) <=> tap_WE(j)
      /\ tap_A(i) = tap_A(j)
      /\ data_WE => data_Di(i) = data_Di(j)
      /\ LiteReadNext(i) = LiteReadNext(j)
  BY DEF ss_fire, sm_fire, tap_WE, tap_A, data_WE, data_Di, LiteReadNext
<1>2. Main(i) => Main(j)
  BY <1>1 DEF Main, GetData, Shift, Wait, TakeOutput
<1>3. Control(i) => Control(j)
  BY <1>1 DEF Control
<1>4. /\ LiteWriteReady(i) => LiteWriteReady(j)
      /\ LiteRead(i) => LiteRead(j)
      /\ StreamReady(i) => StreamReady(j)
  BY <1>1 DEF LiteWriteReady, LiteRead, StreamReady
<1>5. TapRam(i) => TapRam(j)
  BY <1>1 DEF TapRam, tap_WE
<1>6. DataRam(i) => DataRam(j)
  BY <1>1 DEF DataRam
<1>7. Record(i) => Record(j)
  BY <1>1 DEF Record, ss_fire
<1>8. Reset(i) => Reset(j)
  BY <1>1 DEF Reset, tap_WE
<1> QED
  BY <1>2, <1>3, <1>4, <1>5, <1>6, <1>7, <1>8 DEF Clock

\* Cycles of the bus are of the form the contract speaks of.
LEMMA BusCycleIs ==
  ASSUME RequestInv, DelayInv, ChannelInv
  PROVE  BusCycle \in BusCycles
<1>1. waited \in Nat
  BY DEF DelayInv
<1>2. CASE LiteWrites /\ waited < 2
  <2>1. BusCycle = Cycle("write", adr, dat)
    BY <1>2 DEF BusCycle
  <2>2. Configures \/ Starts
    BY <1>2, KindFacts DEF LiteWrites
  <2> QED
    BY <2>1, <2>2 DEF Configures, Starts, BusCycles
<1>3. CASE LiteReads
  <2>1. adr \in {CtrlAddr, LenAddr} \cup {TapAddr(k) : k \in Index}
    BY <1>3, KindFacts DEF LiteReads, ReadsStatus, ReadsBack
  <2>2. BusCycle \in {Cycle("read", adr, 0), Cycle("wait", 0, 0)}
    BY <1>3, KindsApart DEF BusCycle
  <2> QED
    BY <2>1, <2>2 DEF BusCycles
<1>4. CASE StreamWrites /\ waited = 0
  <2>1. BusCycle = Cycle("send", 0, dat)
    BY <1>4, KindsApart DEF BusCycle
  <2>2. dat \in Samples
    BY <1>4, KindFacts DEF StreamWrites, Sends
  <2> QED
    BY <2>1, <2>2 DEF BusCycles
<1>5. CASE ~(LiteWrites /\ waited < 2) /\ ~LiteReads /\ ~(StreamWrites /\ waited = 0)
  BY <1>5 DEF BusCycle, BusCycles
<1> QED
  BY <1>2, <1>3, <1>4, <1>5

LEMMA BusCycleAlike ==
  ASSUME UInv
  PROVE  (Clock(Ports) => Clock(BusCycle)) /\ (Reset(Ports) => Reset(BusCycle))
<1>. DEFINE i == Ports
            j == BusCycle
<1>1. RequestInv /\ DelayInv /\ ChannelInv /\ EngineInv /\ waited \in Nat
  BY DEF UInv, DelayInv
<1>2. /\ i.awvalid <=> LiteWrites /\ waited < 2
      /\ i.arvalid <=> LiteReads /\ waited = 0
      /\ i.rready <=> LiteReads
      /\ i.ss_tvalid <=> StreamWrites /\ waited = 0
      /\ i.sm_tready <=> StreamReads /\ ~sm_done
      /\ i.awaddr = adr /\ i.wdata = dat /\ i.araddr = adr
      /\ StreamWrites => i.ss_tdata = dat
      /\ ~StreamWrites => i.ss_tdata = 0
  BY <1>1, PortFacts
<1>3. StreamWrites /\ current_state = "S_GET_DATA" => waited = 0
  BY <1>1 DEF EngineInv
<1>4. /\ j.awvalid <=> LiteWrites /\ waited < 2
      /\ j.arvalid <=> LiteReads /\ waited = 0
      /\ j.rready <=> LiteReads
      /\ j.ss_tvalid <=> StreamWrites /\ waited = 0
      /\ j.sm_tready <=> StreamReads /\ ~sm_done
  BY KindsApart DEF BusCycle, Cycle
<1>5. /\ LiteWrites /\ waited < 2 => j.awaddr = adr /\ j.wdata = dat
      /\ LiteReads /\ waited = 0 => j.araddr = adr
      /\ StreamWrites /\ waited = 0 => j.ss_tdata = dat
      /\ ~(StreamWrites /\ waited = 0) => j.ss_tdata = 0
  BY KindsApart DEF BusCycle, Cycle
<1>. HIDE DEF i, j
<1>6. /\ i.awvalid <=> j.awvalid
      /\ i.arvalid <=> j.arvalid
      /\ i.rready <=> j.rready
      /\ i.ss_tvalid <=> j.ss_tvalid
      /\ i.sm_tready <=> j.sm_tready
      /\ i.awvalid => i.awaddr = j.awaddr /\ i.wdata = j.wdata
      /\ i.arvalid => i.araddr = j.araddr
  BY <1>2, <1>4, <1>5
<1>7. i.ss_tvalid \/ current_state = "S_GET_DATA" => i.ss_tdata = j.ss_tdata
  BY <1>2, <1>3, <1>5
<1>8. (Clock(i) => Clock(j)) /\ (Reset(i) => Reset(j))
  BY <1>6, <1>7, AlikeCycles
<1> QED
  BY <1>8 DEF i, j

\* What software makes sure of before each access is what the contract asks.
LEMMA ContractKept ==
  ASSUME UInv
  PROVE  Contract(BusCycle) /\ (PollsForOutput => PollsOutput(BusCycle))
<1>. DEFINE j == BusCycle
<1>1. /\ RequestInv /\ DelayInv /\ ChannelInv /\ EngineInv /\ KnowledgeInv
      /\ waited \in Nat
  BY DEF UInv, DelayInv
<1>2. /\ j.awvalid => LiteWrites /\ waited < 2 /\ j.awaddr = adr /\ j.wdata = dat
      /\ j.arvalid => LiteReads /\ waited = 0 /\ j.araddr = adr
      /\ j.ss_tvalid => StreamWrites /\ waited = 0
      /\ j.sm_tready => StreamReads /\ ~sm_done
  BY KindsApart DEF BusCycle, Cycle
<1>. HIDE DEF j
<1>3. /\ Configures \/ ReadsBack => adr # CtrlAddr
      /\ Configures => adr # CtrlAddr
  BY AddrFacts DEF Configures, ReadsBack
<1>4. ~started /\ ~(axi_enable /\ Starts) => current_state = "S_IDLE" /\ ~ap_start
  BY <1>1 DEF EngineInv
<1>5. j.awvalid /\ j.awaddr # CtrlAddr => current_state = "S_IDLE" /\ ~ap_start
  <2>1. SUFFICES ASSUME LiteWrites, adr # CtrlAddr
                 PROVE  current_state = "S_IDLE" /\ ~ap_start
    BY <1>2
  <2> QED
    BY <1>1, <1>4, <2>1, KindFacts DEF LiteWrites, Starts
<1>6. j.awvalid /\ j.awaddr = CtrlAddr /\ j.wdata = 1 => length # 0
  BY <1>1, <1>2, <1>3, KindFacts DEF LiteWrites
<1>7. j.arvalid => arready
  BY <1>1, <1>2 DEF ChannelInv
<1>8. j.arvalid /\ IsTap(j.araddr) => current_state = "S_IDLE" /\ ~ap_start
  <2>1. SUFFICES ASSUME LiteReads, IsTap(adr)
                 PROVE  current_state = "S_IDLE" /\ ~ap_start
    BY <1>2
  <2>2. adr # CtrlAddr
    BY <2>1, AddrFacts
  <2> QED
    BY <1>1, <1>4, <2>1, <2>2, KindFacts DEF LiteReads, ReadsStatus, Starts
<1>9. j.ss_tvalid => ss_tready
  BY <1>1, <1>2, KindFacts DEF StreamWrites, KnowledgeInv
<1>10. PollsForOutput /\ j.sm_tready => current_state = "S_WAIT"
  BY <1>1, <1>2, KindFacts DEF StreamReads, KnowledgeInv
<1>11. Contract(j)
  BY <1>5, <1>6, <1>7, <1>8, <1>9 DEF Contract
<1>12. PollsForOutput => PollsOutput(j)
  BY <1>10 DEF PollsOutput
<1> QED
  BY <1>11, <1>12 DEF j

\* So the engine makes a step of its own specification, and keeps its invariant.
LEMMA EngineStep ==
  ASSUME UInv, [UNext]_uvars
  PROVE  /\ [EagerNext]_vars /\ EInv'
         /\ PollsOutput(BusCycle) => [Next]_vars
<1>1. UNCHANGED uvars => UNCHANGED vars
  BY DEF uvars
<1>2. UNext => EagerNext /\ (PollsOutput(BusCycle) => Next)
  <2>1. UNext => Clock(Ports) \/ Reset(Ports)
    BY DEF UNext, Edge, UReset
  <2>2. BusCycle \in BusCycles
    BY BusCycleIs DEF UInv
  <2> QED
    BY <2>1, <2>2, BusCycleAlike, ContractKept DEF Next, EagerNext
<1>3. [EagerNext]_vars
  BY <1>1, <1>2
<1> QED
  BY <1>1, <1>2, <1>3, EagerStep DEF UInv

-----------------------------------------------------------------------------
(* The moves of the bus master, and the delay.                             *)

\* The access under way goes on.
Holds ==
  /\ axi_enable /\ ~axi_ack
  /\ cyc' = cyc /\ we' = we /\ adr' = adr /\ dat' = dat
  /\ UNCHANGED software
  /\ waited' = IF waited > MaxWait THEN waited ELSE waited + 1
  /\ waited' >= 1
  /\ ~MayWait => waited \in 0 .. DELAYS + 1 /\ waited' = waited + 1

\* It is over, long after its handshake.
Ends == AccessEnds /\ axi_ack /\ waited > DELAYS /\ waited' = 0

\* There is none, and there may be one in the next cycle.
Rests ==
  /\ ~axi_enable /\ UNCHANGED software
  /\ waited = 0 /\ waited' = 0
  /\ \/ ~axi_enable' /\ ~we' /\ adr' = 0 /\ dat' = 0
     \/ \E r \in Requests : Access(r)

LEMMA MasterMoves ==
  ASSUME UInv, Edge, Master
  PROVE  /\ Holds \/ Ends \/ Rests
         /\ DELAYS \in Nat /\ DELAYS >= 3
<1>1. DELAYS \in Nat /\ DELAYS >= 3
  BY UserProjectAssumption
<1>2. RequestInv /\ DelayInv /\ waited \in Nat /\ count \in 0 .. DELAYS
  BY DEF UInv, DelayInv
<1>3. axi_enable => (wbs_ack_o <=> axi_ack)
  BY DEF wbs_ack_o, axi_enable, user_project_bram_enable
<1>4. axi_enable => cyc = "axi" /\ cyc # "none" /\ cyc # "bram"
  BY DEF axi_enable
<1>5. CASE axi_enable /\ ~axi_ack
  <2>1. MasterWaits
    BY <1>3, <1>4, <1>5 DEF Master, MasterIdles, Fetch, FetchEnds, AccessEnds, Access
  <2>2. waited' = IF waited > MaxWait THEN waited ELSE waited + 1
    BY <1>3, <1>5 DEF Edge, History
  <2>3. MaxWait \in Nat /\ MaxWait >= DELAYS + 2
    BY <1>1 DEF MaxWait
  <2>4. ~MayWait => waited \in 0 .. DELAYS + 1 /\ waited' = waited + 1
    BY <1>1, <1>2, <1>5, <2>2, <2>3 DEF DelayInv
  <2>5. waited' >= 1
    BY <1>1, <1>2, <2>2, <2>3
  <2> QED
    BY <1>1, <1>5, <2>1, <2>2, <2>4, <2>5 DEF Holds, MasterWaits, request
<1>6. CASE axi_enable /\ axi_ack
  <2>1. AccessEnds
    BY <1>3, <1>4, <1>6 DEF Master, MasterIdles, Fetch, FetchEnds, MasterWaits, Access
  <2>2. waited > DELAYS
    BY <1>1, <1>2, <1>6 DEF DelayInv
  <2>3. waited' = 0
    BY <1>3, <1>6 DEF Edge, History
  <2> QED
    BY <1>1, <1>6, <2>1, <2>2, <2>3 DEF Ends
<1>7. CASE ~axi_enable
  <2>1. waited = 0 /\ waited' = 0
    BY <1>2, <1>7 DEF DelayInv, Edge, History
  <2>2. ~we /\ adr = 0 /\ dat = 0 /\ cyc # "axi"
    BY <1>2, <1>7 DEF RequestInv, axi_enable
  <2>3. UNCHANGED software
    BY <1>7 DEF Master, MasterIdles, Fetch, FetchEnds, MasterWaits, AccessEnds, Access
  <2>4. (\E r \in Requests : Access(r)) \/ (~axi_enable' /\ ~we' /\ adr' = 0 /\ dat' = 0)
    BY <1>7, <2>2 DEF Master, MasterIdles, Fetch, FetchEnds, MasterWaits, AccessEnds,
                      NoRequest, request, axi_enable
  <2> QED
    BY <1>1, <1>7, <2>1, <2>3, <2>4 DEF Rests
<1> QED
  BY <1>5, <1>6, <1>7

\* The handshakes of a cycle.
LEMMA Handshakes ==
  ASSUME UInv
  PROVE  /\ aw_fire <=> LiteWrites /\ waited = 1
         /\ ar_fire <=> LiteReads /\ waited = 0
         /\ ss_fire(Ports) <=> StreamWrites /\ waited = 0
         /\ sm_fire(Ports) <=> /\ StreamReads /\ ~sm_done
                               /\ current_state \in {"S_SHIFT", "S_WAIT"}
         /\ StreamReads /\ ~MayWait => (sm_fire(Ports) <=> waited = 0)
<1>1. /\ RequestInv /\ DelayInv /\ ChannelInv /\ KnowledgeInv
      /\ waited \in Nat
  BY DEF UInv, DelayInv
<1>2. /\ LiteWrites => (awready <=> waited = 1)
      /\ LiteReads /\ waited = 0 => arready
  BY <1>1 DEF ChannelInv
<1>3. StreamWrites /\ waited = 0 => ss_tready
  BY <1>1, KindFacts DEF StreamWrites, KnowledgeInv
<1>4. sm_fire(Ports) <=> /\ StreamReads /\ ~sm_done
                         /\ current_state \in {"S_SHIFT", "S_WAIT"}
  BY <1>1, PortFacts DEF sm_fire, sm_tvalid
<1>5. StreamReads /\ ~MayWait => (~sm_done <=> waited = 0)
  BY <1>1 DEF ChannelInv
<1>6. StreamReads /\ ~MayWait /\ ~sm_done => current_state = "S_WAIT"
  BY <1>1, KindFacts, KindsApart DEF StreamReads, KnowledgeInv
<1> QED
  BY <1>1, <1>2, <1>3, <1>4, <1>5, <1>6, PortFacts DEF aw_fire, ar_fire, ss_fire

\* While an access goes on it remains of its kind.
LEMMA KindHolds ==
  ASSUME Holds
  PROVE  /\ axi_enable' <=> axi_enable
         /\ LiteWrites' <=> LiteWrites
         /\ LiteReads' <=> LiteReads
         /\ StreamWrites' <=> StreamWrites
         /\ StreamReads' <=> StreamReads
         /\ MayWait' <=> MayWait
         /\ OutCycle' = OutCycle
BY DEF Holds, LiteWrites, LiteReads, StreamWrites, StreamReads, MayWait, axi_enable,
       is_lite, OutCycle, IsTap

\* The count and ready delay the acknowledge, whatever was on the bus before.
LEMMA DelayStep ==
  ASSUME UInv, Edge, Master
  PROVE  DelayInv'
<1>1. /\ DelayInv /\ ChannelInv /\ RequestInv /\ waited \in Nat
      /\ count \in 0 .. DELAYS /\ DELAYS \in 3 .. 15
  BY UserProjectAssumption DEF UInv, DelayInv
<1>2. /\ ready' <=> (valid /\ ~ready /\ count = DELAYS) \/ (ready /\ ~(ready \/ axi_ack))
      /\ count' = IF valid /\ ~ready
                  THEN IF count = DELAYS THEN 0 ELSE (count + 1) % 16
                  ELSE count
      /\ axi_ack' <=> ~axi_ack /\ ready /\ HandshakeMade
  <2>1. ready' <=> (valid /\ ~ready /\ count = DELAYS) \/ (ready /\ ~(ready \/ axi_ack))
    BY DEF Edge, WrapperStep, user_project_bram_ack
  <2>2. count' = IF valid /\ ~ready
                 THEN IF count = DELAYS THEN 0 ELSE (count + 1) % 16
                 ELSE count
    BY DEF Edge, WrapperStep
  <2>3. axi_ack' <=> ~axi_ack /\ ready /\ HandshakeMade
    BY DEF Edge, Bridge
  <2> QED
    BY <2>1, <2>2, <2>3
<1>3. count # DELAYS => (count + 1) % 16 = count + 1 /\ count + 1 \in 0 .. DELAYS
  BY <1>1
<1>4. CASE Holds /\ ~MayWait
  <2>1. /\ axi_enable /\ valid /\ axi_enable' /\ ~axi_ack
        /\ cyc' # "none" /\ cyc' # "bram" /\ waited' = waited + 1
        /\ ~MayWait'
    BY <1>4, KindHolds DEF Holds, valid, axi_enable, MayWait
  <2>2. CASE ~ready
    <3>1. /\ ready' <=> count = DELAYS
          /\ count' = IF count = DELAYS THEN 0 ELSE count + 1
          /\ ~axi_ack' /\ count \in {waited, waited + 1}
      BY <1>1, <1>2, <1>3, <1>4, <2>1, <2>2 DEF DelayInv
    <3>2. CASE count = DELAYS
      BY <1>1, <2>1, <3>1, <3>2 DEF DelayInv
    <3>3. CASE count # DELAYS
      BY <1>1, <1>3, <2>1, <3>1, <3>3 DEF DelayInv
    <3> QED
      BY <3>2, <3>3
  <2>3. CASE ready
    <3>1. waited \in {DELAYS, DELAYS + 1} /\ count = 0
      BY <1>1, <1>4, <2>1, <2>3 DEF DelayInv
    <3>2. HandshakeMade
      <4>1. waited >= 3
        BY <1>1, <3>1
      <4>2. /\ LiteWrites => axi_w_done
            /\ LiteReads => axi_r_done
            /\ StreamWrites => ss_done
            /\ StreamReads => sm_done
        BY <1>1, <1>4, <4>1 DEF ChannelInv
      <4> QED
        BY <2>1, <4>2 DEF HandshakeMade, LiteWrites, LiteReads, StreamWrites, StreamReads
    <3>3. ~ready' /\ axi_ack' /\ count' = 0
      BY <1>2, <2>1, <2>3, <3>1, <3>2
    <3> QED
      BY <1>1, <2>1, <3>1, <3>3 DEF DelayInv
  <2> QED
    BY <2>2, <2>3
<1>7. CASE Holds /\ MayWait
  <2>1. /\ axi_enable /\ valid /\ axi_enable' /\ ~axi_ack /\ MayWait'
        /\ cyc' # "none" /\ cyc' # "bram"
    BY <1>7, KindHolds DEF Holds, valid, axi_enable, MayWait
  <2>2. /\ waited' = IF waited > MaxWait THEN waited ELSE waited + 1
        /\ MaxWait \in Nat /\ MaxWait > DELAYS
    BY <1>1, <1>7 DEF Holds, MaxWait
  <2>3. waited' \in Nat /\ waited' >= waited /\ (waited <= DELAYS => waited' = waited + 1)
    BY <1>1, <2>2
  <2>6. waited \in Nat /\ DELAYS \in Nat /\ count \in 0 .. DELAYS /\ waited' \in Nat
    BY <1>1, <2>3
  <2>4. CASE ~ready
    <3>1. /\ ready' <=> count = DELAYS
          /\ count' = IF count = DELAYS THEN 0 ELSE count + 1
          /\ ~axi_ack' /\ waited >= count - 1
      BY <1>1, <1>2, <1>3, <1>7, <2>1, <2>4 DEF DelayInv
    <3>4. ~(axi_enable' /\ ~MayWait') /\ waited' \in Nat
      BY <2>1, <2>3
    <3>2. CASE count = DELAYS
      BY <1>1, <2>1, <2>3, <3>1, <3>2, <3>4 DEF DelayInv
    <3>3. CASE count # DELAYS
      <4>2. ~ready' /\ count' = count + 1 /\ count' \in 0 .. DELAYS
        BY <1>3, <3>1, <3>3
      <4>3. waited' >= count' - 1
        <5>1. CASE waited <= DELAYS
          BY <2>3, <2>6, <3>1, <4>2, <5>1
        <5>2. CASE waited > DELAYS
          BY <2>3, <2>6, <4>2, <5>2
        <5> QED
          BY <2>6, <5>1, <5>2
      <4>1. ~ready' /\ count' \in 0 .. DELAYS /\ waited' >= count' - 1
        BY <4>2, <4>3
      <4> QED
        BY <2>1, <3>1, <3>4, <4>1 DEF DelayInv
    <3> QED
      BY <3>2, <3>3
  <2>5. CASE ready
    <3>1. waited >= DELAYS /\ count = 0 /\ waited' > DELAYS
      BY <1>1, <1>7, <2>1, <2>3, <2>5 DEF DelayInv
    <3>2. ~ready' /\ count' = 0 /\ (axi_ack' => HandshakeMade)
      BY <1>2, <2>1, <2>5, <3>1
    <3>3. HandshakeMade => sm_done
      BY <1>1, <1>7, KindsApart DEF HandshakeMade, ChannelInv
    <3>4. sm_done => sm_done'
      BY <2>1 DEF Edge, Bridge, Done
    <3>5. ~(axi_enable' /\ ~MayWait') /\ waited' \in Nat
      BY <2>1, <2>3
    <3>6. axi_ack' => sm_done'
      BY <2>1, <3>2, <3>3, <3>4
    <3>7. DELAYS \in Nat /\ 0 \in 0 .. DELAYS /\ waited' >= count' - 1
      BY <2>6, <3>2
    <3> QED
      BY <2>1, <3>1, <3>2, <3>5, <3>6, <3>7 DEF DelayInv
  <2> QED
    BY <2>4, <2>5
<1>5. CASE Ends
  <2>1. /\ axi_enable /\ axi_ack /\ waited' = 0 /\ cyc' = "none" /\ ~axi_enable'
        /\ valid
    BY <1>5 DEF Ends, AccessEnds, NoRequest, axi_enable, valid
  <2>2. ~ready /\ count = 0
    BY <1>1, <2>1 DEF DelayInv
  <2>3. ~ready' /\ count' = 1 /\ ~axi_ack'
    BY <1>1, <1>2, <1>3, <2>1, <2>2
  <2> QED
    BY <1>1, <2>1, <2>3 DEF DelayInv, MayWait, StreamReads
<1>6. CASE Rests
  <2>1. ~axi_enable /\ waited' = 0 /\ waited = 0 /\ ~axi_ack /\ cyc \in {"none", "bram"}
    BY <1>1, <1>6 DEF Rests, DelayInv, RequestInv, axi_enable
  <2>2. ~axi_ack'
    <3>1. ~axi_w_done /\ ~axi_r_done /\ ~ss_done /\ ~sm_done
      BY <1>1, <2>1 DEF ChannelInv, LiteWrites, LiteReads, StreamWrites, StreamReads
    <3> QED
      BY <1>2, <3>1 DEF HandshakeMade
  <2>3. CASE cyc = "none"
    <3>1. ~ready /\ count \in {0, 1} /\ ~ready' /\ count' = count
      BY <1>1, <1>2, <2>1, <2>3 DEF DelayInv, valid, axi_enable, user_project_bram_enable
    <3> QED
      BY <1>1, <2>1, <2>2, <3>1 DEF DelayInv
  <2>4. CASE cyc = "bram"
    <3>1. cyc' \in {"none", "bram"} /\ (~ready => cyc' = "bram")
      BY <2>4 DEF Master, MasterIdles, Fetch, FetchEnds, MasterWaits, AccessEnds, Access,
                  NoRequest, request, wbs_ack_o, user_project_bram_enable,
                  user_project_bram_ack, axi_enable
    <3>2. ~axi_enable' /\ valid
      BY <2>4, <3>1 DEF axi_enable, valid, user_project_bram_enable
    <3>3. CASE ready
      <4>1. ~ready' /\ count' = 0
        BY <1>1, <1>2, <2>4, <3>3 DEF DelayInv
      <4> QED
        BY <1>1, <2>1, <2>2, <3>2, <4>1 DEF DelayInv
    <3>4. CASE ~ready
      <4>1. cyc' = "bram" /\ count' \in 0 .. DELAYS /\ (ready' => count' = 0)
        BY <1>1, <1>2, <1>3, <3>1, <3>2, <3>4
      <4>2. ~MayWait'
        BY <3>2 DEF MayWait, StreamReads
      <4> QED
        BY <2>1, <2>2, <3>2, <4>1, <4>2 DEF DelayInv
    <3> QED
      BY <3>3, <3>4
  <2> QED
    BY <2>1, <2>3, <2>4
<1> QED
  BY <1>4, <1>5, <1>6, <1>7, MasterMoves

-----------------------------------------------------------------------------
(* The channels.                                                           *)

\* Before the first cycle of an access no channel is in use.
LEMMA ChannelsAtRest ==
  ASSUME waited' = 0, ~axi_w_done', ~awready', ~axi_r_done', arready', ~rvalid',
         axi_current_state' = "AXI_READ_IDLE", ~ss_done', ~sm_done', fires' = 0
  PROVE  ChannelInv'
<1>1. OutCycle' \in {1, 2}
  BY DEF OutCycle
<1> QED
  BY <1>1 DEF ChannelInv, Bit

\* What the bridge and the lite channels do in a clock.
LEMMA ChannelNext ==
  ASSUME UInv, Edge
  PROVE  /\ axi_w_done' <=> \/ LiteWrites /\ waited = 1
                            \/ axi_enable /\ axi_w_done /\ ~axi_ack
         /\ axi_r_done' <=> \/ LiteReads /\ waited = 0
                            \/ axi_enable /\ axi_r_done /\ ~axi_ack
         /\ ss_done' <=> \/ StreamWrites /\ waited = 0
                         \/ axi_enable /\ ss_done /\ ~axi_ack
         /\ sm_done' <=> \/ sm_fire(Ports)
                         \/ axi_enable /\ sm_done /\ ~axi_ack
         /\ awready' <=> IF LiteWrites /\ waited < 2 THEN ~awready ELSE awready
         /\ arready' <=> axi_current_state = "AXI_READ_IDLE" /\ ~(LiteReads /\ waited = 0)
         /\ rvalid' <=> axi_current_state = "AXI_READ_OUT"
         /\ save_araddr' = IF LiteReads /\ waited = 0 THEN adr % 64 ELSE save_araddr
         /\ axi_current_state' =
              IF LiteReads /\ waited = 0
              THEN IF IsTap(adr) THEN "AXI_READ_SRAM" ELSE "AXI_READ_OUT"
              ELSE IF axi_current_state = "AXI_READ_SRAM" THEN "AXI_READ_OUT"
              ELSE "AXI_READ_IDLE"
         /\ rdata' = IF axi_current_state = "AXI_READ_OUT" THEN ReadWord ELSE 0
<1>1. /\ RequestInv /\ DelayInv /\ ChannelInv /\ waited \in Nat
      /\ awready \in BOOLEAN
  BY DEF UInv, DelayInv, EInv, TypeOK
<1>2. /\ axi_w_done' <=> aw_fire \/ (axi_enable /\ axi_w_done /\ ~axi_ack)
      /\ axi_r_done' <=> ar_fire \/ (axi_enable /\ axi_r_done /\ ~axi_ack)
      /\ ss_done' <=> ss_fire(Ports) \/ (axi_enable /\ ss_done /\ ~axi_ack)
      /\ sm_done' <=> sm_fire(Ports) \/ (axi_enable /\ sm_done /\ ~axi_ack)
  BY DEF Edge, Bridge, Done
<1>3. /\ LiteWriteReady(Ports) /\ LiteRead(Ports)
  BY DEF Edge, Clock
<1>4. awready' <=> IF LiteWrites /\ waited < 2 THEN ~awready ELSE awready
  BY <1>1, <1>3, PortFacts DEF LiteWriteReady
<1>5. /\ arready' <=> axi_current_state = "AXI_READ_IDLE" /\ ~(LiteReads /\ waited = 0)
      /\ rvalid' <=> axi_current_state = "AXI_READ_OUT"
      /\ save_araddr' = IF LiteReads /\ waited = 0 THEN adr % 64 ELSE save_araddr
      /\ rdata' = IF axi_current_state = "AXI_READ_OUT" THEN ReadWord ELSE 0
  BY <1>1, <1>3, PortFacts DEF LiteRead
<1>6. axi_current_state' =
        IF LiteReads /\ waited = 0
        THEN IF IsTap(adr) THEN "AXI_READ_SRAM" ELSE "AXI_READ_OUT"
        ELSE IF axi_current_state = "AXI_READ_SRAM" THEN "AXI_READ_OUT"
        ELSE "AXI_READ_IDLE"
  <2>1. axi_current_state' = LiteReadNext(Ports)
    BY <1>3 DEF LiteRead
  <2>2. axi_current_state \in {"AXI_READ_IDLE", "AXI_READ_SRAM", "AXI_READ_OUT"}
    BY DEF UInv, EInv, TypeOK, ReadStates
  <2>3. LiteReads /\ waited = 0 => axi_current_state = "AXI_READ_IDLE"
    BY <1>1 DEF ChannelInv, OutCycle
  <2>4. axi_current_state = "AXI_READ_OUT" => LiteReads
    BY <1>1 DEF ChannelInv
  <2> QED
    BY <1>1, <2>1, <2>2, <2>3, <2>4, PortFacts DEF LiteReadNext
<1> QED
  BY <1>2, <1>4, <1>5, <1>6, Handshakes

\* A channel makes its handshake once, in its cycle of the access.
LEMMA ChannelStep ==
  ASSUME UInv, Edge, Master
  PROVE  ChannelInv'
<1>1. /\ RequestInv /\ DelayInv /\ ChannelInv /\ waited \in Nat
  BY DEF UInv, DelayInv
<1>2. OutCycle \in {1, 2}
  BY DEF OutCycle
<1>3. CASE Ends \/ Rests
  <2>1. /\ waited' = 0
        /\ (waited = 0 /\ ~axi_enable) \/ (waited > 3 /\ axi_enable /\ axi_ack)
    BY <1>1, <1>3, MasterMoves DEF Ends, Rests, AccessEnds
  <2>2. axi_current_state = "AXI_READ_IDLE" /\ ~awready
    BY <1>1, <1>2, <2>1, KindsApart DEF ChannelInv
  <2>3. ~(LiteWrites /\ waited < 2) /\ ~(LiteReads /\ waited = 0)
        /\ ~(StreamWrites /\ waited = 0) /\ ~sm_fire(Ports)
    <3>1. axi_ack /\ StreamReads => sm_done
      BY <1>1, <1>3, <2>1, KindsApart DEF DelayInv, ChannelInv
    <3> QED
      BY <1>1, <2>1, <3>1, Handshakes, KindsApart
  <2>4. fires' = 0
    <3>1. wbs_ack_o \/ ~axi_enable
      BY <2>1 DEF wbs_ack_o, axi_enable, user_project_bram_enable
    <3> QED
      BY <3>1 DEF Edge, History
  <2> QED
    BY <1>1, <2>1, <2>2, <2>3, <2>4, ChannelNext, ChannelsAtRest
<1>4. CASE Holds
  <2>1. /\ axi_enable /\ ~axi_ack /\ waited' >= 1
        /\ ~StreamReads => waited' = waited + 1
    BY <1>4, KindsApart DEF Holds
  <2>2. fires' = fires + Bit(aw_fire) + Bit(ar_fire) + Bit(ss_fire(Ports)) + Bit(sm_fire(Ports))
    <3>1. ~wbs_ack_o
      BY <2>1 DEF wbs_ack_o, axi_enable, user_project_bram_enable
    <3> QED
      BY <2>1, <3>1 DEF Edge, History
  <2>3. /\ (axi_w_done <=> LiteWrites /\ waited >= 2)'
        /\ (awready <=> LiteWrites /\ waited = 1)'
        /\ (axi_r_done <=> LiteReads /\ waited >= 1)'
        /\ (ss_done <=> StreamWrites /\ waited >= 1)'
    BY <1>1, <1>4, <2>1, ChannelNext, KindHolds, KindsApart DEF ChannelInv
  <2>8. /\ (sm_done => StreamReads /\ waited >= 1)'
        /\ (StreamReads /\ waited >= 1 /\ ~MayWait => sm_done)'
    BY <1>1, <1>4, <2>1, ChannelNext, KindHolds, Handshakes DEF ChannelInv
  <2>4. (axi_current_state =
           CASE LiteReads /\ waited = OutCycle -> "AXI_READ_OUT"
             [] LiteReads /\ waited = 1 /\ OutCycle = 2 -> "AXI_READ_SRAM"
             [] OTHER -> "AXI_READ_IDLE")'
    <3>1. CASE LiteReads /\ waited = 0
      BY <1>1, <1>2, <1>4, <2>1, <3>1, ChannelNext, KindHolds, KindsApart
         DEF ChannelInv, OutCycle
    <3>2. CASE ~(LiteReads /\ waited = 0)
      BY <1>1, <1>2, <1>4, <2>1, <3>2, ChannelNext, KindHolds, KindsApart DEF ChannelInv
    <3> QED
      BY <3>1, <3>2
  <2>5. /\ (arready <=> ~(LiteReads /\ waited \in 1 .. OutCycle + 1))'
        /\ (rvalid <=> LiteReads /\ waited = OutCycle + 1)'
    <3>1. axi_current_state = "AXI_READ_IDLE" <=> ~(LiteReads /\ waited \in 1 .. OutCycle)
      BY <1>1, <1>2 DEF ChannelInv
    <3>2. axi_current_state = "AXI_READ_OUT" <=> LiteReads /\ waited = OutCycle
      BY <1>1, <1>2 DEF ChannelInv
    <3> QED
      BY <1>1, <1>2, <1>4, <2>1, <3>1, <3>2, ChannelNext, KindHolds, KindsApart
  <2>6. (LiteReads /\ waited >= 1 => save_araddr = adr % 64)'
    BY <1>1, <1>4, <2>1, ChannelNext, KindHolds, KindsApart DEF ChannelInv, Holds
  <2>7. (fires = IF LiteWrites THEN Bit(waited >= 2)
                 ELSE IF StreamReads THEN Bit(sm_done)
                 ELSE IF axi_enable THEN Bit(waited >= 1)
                 ELSE 0)'
    <3>1. CASE LiteWrites
      <4>1. fires = Bit(waited >= 2)
        BY <1>1, <3>1 DEF ChannelInv
      <4>2. fires' = Bit(waited' >= 2)
        <5>1. aw_fire <=> waited = 1
          BY <3>1, Handshakes
        <5>2. ~ar_fire /\ ~ss_fire(Ports) /\ ~sm_fire(Ports)
          BY <3>1, Handshakes, KindsApart
        <5>3. /\ Bit(ar_fire) = 0 /\ Bit(ss_fire(Ports)) = 0 /\ Bit(sm_fire(Ports)) = 0
              /\ Bit(aw_fire) = IF waited = 1 THEN 1 ELSE 0
          BY <5>1, <5>2 DEF Bit
        <5>4. waited' = waited + 1
          BY <2>1, <3>1, KindsApart
        <5> QED
          BY <1>1, <2>2, <4>1, <5>3, <5>4 DEF Bit
      <4> QED
        BY <1>4, <3>1, <4>2, KindHolds
    <3>2. CASE StreamReads
      <4>1. fires = Bit(sm_done) /\ ~aw_fire /\ ~ar_fire /\ ~ss_fire(Ports)
        BY <1>1, <3>2, Handshakes, KindsApart DEF ChannelInv
      <4>2. fires' = Bit(sm_done) + Bit(sm_fire(Ports))
        BY <2>2, <4>1 DEF Bit
      <4>3. fires' = Bit(sm_done')
        <5>1. sm_done' <=> sm_fire(Ports) \/ sm_done
          BY <2>1, ChannelNext
        <5>2. ~(sm_fire(Ports) /\ sm_done)
          BY Handshakes
        <5> QED
          BY <4>2, <5>1, <5>2 DEF Bit
      <4> QED
        BY <1>4, <3>2, <4>3, KindHolds, KindsApart
    <3>3. CASE ~LiteWrites /\ ~StreamReads
      <4>1. fires = Bit(waited >= 1) /\ ~aw_fire /\ ~sm_fire(Ports)
        BY <1>1, <2>1, <3>3, Handshakes DEF ChannelInv
      <4>2. Bit(ar_fire) + Bit(ss_fire(Ports)) = Bit(waited = 0)
        BY <1>1, <2>1, <3>3, Handshakes, KindsApart, KindFacts DEF Bit
      <4>3. fires' = Bit(waited' >= 1)
        <5>1. /\ Bit(aw_fire) = 0 /\ Bit(sm_fire(Ports)) = 0
              /\ Bit(ar_fire) \in Nat /\ Bit(ss_fire(Ports)) \in Nat
              /\ Bit(waited >= 1) \in Nat
          BY <4>1 DEF Bit
        <5>2. fires' = Bit(waited >= 1) + Bit(waited = 0)
          BY <2>2, <4>1, <4>2, <5>1
        <5> QED
          BY <1>1, <2>1, <3>3, <5>2 DEF Bit
      <4> QED
        BY <1>4, <2>1, <3>3, <4>3, KindHolds
    <3> QED
      BY <3>1, <3>2, <3>3
  <2> QED
    BY <2>3, <2>4, <2>5, <2>6, <2>7, <2>8 DEF ChannelInv
<1> QED
  BY <1>3, <1>4, MasterMoves

-----------------------------------------------------------------------------
(* The engine.                                                             *)

\* The states and flags of the engine, by the accesses to it.
LEMMA EngineNext ==
  ASSUME UInv, Edge
  PROVE  /\ length' = IF LiteWrites /\ waited < 2 /\ adr = LenAddr THEN dat ELSE length
         /\ ap_start' <=> IF LiteWrites /\ waited < 2 /\ adr = CtrlAddr THEN dat % 2 = 1
                          ELSE ap_start /\ ~(StreamWrites /\ waited = 0)
         /\ ap_done' <=> current_state = "S_WAIT_AP_DONE" \/ (ap_done /\ current_state # "S_IDLE")
         /\ ss_tready' <=> current_state = "S_GET_DATA" /\ ~(StreamWrites /\ waited = 0)
         /\ current_state = "S_IDLE" =>
              current_state' = IF ap_start THEN "S_INIT_SRAM" ELSE "S_IDLE"
         /\ current_state = "S_INIT_SRAM" => current_state' \in {"S_INIT_SRAM", "S_GET_DATA"}
         /\ current_state = "S_GET_DATA" =>
              current_state' = IF StreamWrites /\ waited = 0 THEN "S_CAL" ELSE "S_GET_DATA"
         /\ current_state = "S_CAL" => current_state' \in {"S_CAL", "S_SHIFT"}
         /\ current_state \in {"S_SHIFT", "S_WAIT"} =>
              IF sm_fire(Ports)
              THEN current_state' \in {"S_WAIT_AP_DONE", "S_GET_DATA"}
              ELSE current_state' = "S_WAIT"
         /\ current_state = "S_WAIT_AP_DONE" =>
              current_state' = IF rvalid /\ Bit1(rdata) THEN "S_IDLE" ELSE "S_WAIT_AP_DONE"
         /\ current_state \in States
<1>1. RequestInv /\ DelayInv /\ ChannelInv /\ KnowledgeInv /\ current_state \in States
  BY DEF UInv, EInv, TypeOK
<1>2. Main(Ports) /\ Control(Ports) /\ StreamReady(Ports)
  BY DEF Edge, Clock
<1>3. length' = IF LiteWrites /\ waited < 2 /\ adr = LenAddr THEN dat ELSE length
  BY <1>1, <1>2, PortFacts DEF Control
<1>4. ap_start' <=> IF LiteWrites /\ waited < 2 /\ adr = CtrlAddr THEN dat % 2 = 1
                    ELSE ap_start /\ ~(StreamWrites /\ waited = 0)
  BY <1>1, <1>2, PortFacts, Handshakes DEF Control
<1>5. ap_done' <=> current_state = "S_WAIT_AP_DONE" \/ (ap_done /\ current_state # "S_IDLE")
  BY <1>2 DEF Control
<1>6. ss_tready' <=> current_state = "S_GET_DATA" /\ ~(StreamWrites /\ waited = 0)
  BY <1>1, <1>2, PortFacts DEF StreamReady
<1>7. /\ Ports.ss_tvalid <=> StreamWrites /\ waited = 0
      /\ sm_fire(Ports) <=> Ports.sm_tready /\ current_state \in {"S_SHIFT", "S_WAIT"}
  BY <1>1, PortFacts DEF sm_fire, sm_tvalid
<1>9. /\ current_state = "S_IDLE" =>
           current_state' = IF ap_start THEN "S_INIT_SRAM" ELSE "S_IDLE"
      /\ current_state = "S_INIT_SRAM" => current_state' \in {"S_INIT_SRAM", "S_GET_DATA"}
      /\ current_state = "S_CAL" => current_state' \in {"S_CAL", "S_SHIFT"}
      /\ current_state = "S_WAIT_AP_DONE" =>
           current_state' = IF rvalid /\ Bit1(rdata) THEN "S_IDLE" ELSE "S_WAIT_AP_DONE"
  BY <1>2 DEF Main, Idle, InitSram, GetData, Cal, Shift, Wait, WaitApDone
<1>10. current_state = "S_GET_DATA" =>
         current_state' = IF StreamWrites /\ waited = 0 THEN "S_CAL" ELSE "S_GET_DATA"
  BY <1>2, <1>7 DEF Main, Idle, InitSram, GetData, Cal, Shift, Wait, WaitApDone
<1>11. current_state \in {"S_SHIFT", "S_WAIT"} =>
         IF sm_fire(Ports)
         THEN current_state' \in {"S_WAIT_AP_DONE", "S_GET_DATA"}
         ELSE current_state' = "S_WAIT"
  BY <1>2, <1>7 DEF Main, Idle, InitSram, GetData, Cal, Shift, Wait, WaitApDone,
                          TakeOutput
<1> QED
  BY <1>1, <1>3, <1>4, <1>5, <1>6, <1>9, <1>10, <1>11

\* Software asks for nothing that it does not know to be allowed.
LEMMA RequestStep ==
  ASSUME UInv, Edge, Master
  PROVE  RequestInv'
<1>1. RequestInv
  BY DEF UInv
<1>2. CASE Holds
  <2>1. /\ cyc' = cyc /\ we' = we /\ adr' = adr /\ dat' = dat
        /\ program_config' = program_config /\ started' = started /\ toSend' = toSend
    BY <1>2 DEF Holds, software
  <2>2. axi_enable
    BY <1>2 DEF Holds
  <2>3. Starts => length' = length
    BY EngineNext, AddrFacts DEF Starts
  <2>4. /\ Configures' <=> Configures
        /\ ReadsBack' <=> ReadsBack
        /\ Starts' <=> Starts
        /\ ReadsStatus' <=> ReadsStatus
        /\ Sends' <=> Sends
        /\ Fetches' <=> Fetches
        /\ CanSend' <=> CanSend
        /\ CanFetch' <=> CanFetch
        /\ axi_enable' <=> axi_enable
    BY <2>1 DEF Configures, ReadsBack, Starts, ReadsStatus, Sends, Fetches, CanSend,
                CanFetch, axi_enable
  <2> QED
    BY <1>1, <2>1, <2>2, <2>3, <2>4 DEF RequestInv
<1>3. CASE Ends
  BY <1>3 DEF Ends, AccessEnds, NoRequest, RequestInv, axi_enable
<1>4. CASE Rests
  <2>1. /\ program_config' = program_config /\ started' = started /\ toSend' = toSend
        /\ ~axi_enable
    BY <1>4 DEF Rests, software
  <2>2. length' = length
    BY <2>1, EngineNext, KindsApart
  <2>3. CASE ~axi_enable' /\ ~we' /\ adr' = 0 /\ dat' = 0
    <3>1. cyc' \in {"none", "bram"}
      BY <1>1, <2>1, <2>3 DEF RequestInv, axi_enable, Master, MasterIdles, Fetch, FetchEnds,
             MasterWaits, AccessEnds, Access, NoRequest, request
    <3> QED
      BY <2>3, <3>1 DEF RequestInv
  <2>4. ASSUME NEW r \in Requests, Access(r)
        PROVE  RequestInv'
    <3>1. cyc' = "axi" /\ we' = r.we /\ adr' = r.adr /\ dat' = r.dat /\ axi_enable'
      BY <2>4 DEF Access, axi_enable
    <3>2. CASE r = ReadOf(CtrlAddr)
      <4>1. ReadsStatus' /\ dat' = 0
        BY <3>1, <3>2 DEF ReadOf, ReadsStatus
      <4> QED
        BY <3>1, <4>1 DEF RequestInv
    <3>3. CASE ~started /\ \E n \in Lengths : r = WriteOf(LenAddr, n)
      <4>1. Configures'
        BY <3>1, <3>3 DEF WriteOf, Configures
      <4> QED
        BY <2>1, <3>1, <3>3, <4>1 DEF RequestInv
    <3>4. CASE ~started /\ \E k \in Index, t \in Taps : r = WriteOf(TapAddr(k), t)
      <4>1. Configures'
        BY <3>1, <3>4 DEF WriteOf, Configures
      <4> QED
        BY <2>1, <3>1, <3>4, <4>1 DEF RequestInv
    <3>5. CASE ~started /\ (r = ReadOf(LenAddr) \/ \E k \in Index : r = ReadOf(TapAddr(k)))
      <4>1. ReadsBack' /\ dat' = 0
        BY <3>1, <3>5 DEF ReadOf, ReadsBack
      <4> QED
        BY <2>1, <3>1, <3>5, <4>1 DEF RequestInv
    <3>6. CASE ~started /\ length # 0 /\ r = WriteOf(CtrlAddr, 1)
      <4>1. Starts'
        BY <3>1, <3>6 DEF WriteOf, Starts
      <4> QED
        BY <2>1, <2>2, <3>1, <3>6, <4>1 DEF RequestInv
    <3>7. CASE started /\ CanSend /\ \E d \in Samples : r = WriteOf(DinAddr, d)
      <4>1. Sends' /\ CanSend'
        BY <2>1, <3>1, <3>7 DEF WriteOf, Sends, CanSend
      <4> QED
        BY <2>1, <3>1, <3>7, <4>1 DEF RequestInv
    <3>8. CASE started /\ CanFetch /\ r = ReadOf(DoutAddr)
      <4>1. Fetches' /\ CanFetch' /\ dat' = 0
        BY <2>1, <3>1, <3>8 DEF ReadOf, Fetches, CanFetch
      <4> QED
        BY <2>1, <3>1, <3>8, <4>1 DEF RequestInv
    <3> QED
      BY <2>4, <3>2, <3>3, <3>4, <3>5, <3>6, <3>7, <3>8 DEF Requests, ConfigIdle
  <2> QED
    BY <1>4, <2>3, <2>4 DEF Rests
<1> QED
  BY <1>2, <1>3, <1>4, MasterMoves

\* A run that software has not started, or knows to be over, is not under way.
LEMMA EngineKept ==
  ASSUME UInv, Edge, Master
  PROVE  EngineInv'
<1>1. /\ RequestInv /\ DelayInv /\ ChannelInv /\ EngineInv /\ KnowledgeInv
      /\ waited \in Nat /\ RunInStep
  BY DEF UInv, DelayInv, EInv
<1>2. LiteWrites /\ adr = CtrlAddr => Starts /\ ~started
  BY <1>1, KindFacts, AddrFacts DEF LiteWrites, Configures
<1>3. Starts => adr = CtrlAddr /\ we /\ dat % 2 = 1
  BY DEF Starts
<1>4. (LiteWrites /\ waited < 2 /\ adr = CtrlAddr) => current_state = "S_IDLE"
  BY <1>1, <1>2 DEF EngineInv
<1>5. (~started => \/ current_state = "S_IDLE" /\ ~ap_start
                   \/ axi_enable /\ Starts /\ waited = 1 /\ current_state = "S_IDLE"
                   \/ axi_enable /\ Starts /\ waited > 1)'
  <2>1. CASE Holds
    <3>1. /\ started' = started /\ axi_enable /\ axi_enable'
          /\ (Starts' <=> Starts)
      BY <2>1 DEF Holds, software, axi_enable, Starts
    <3>5. Starts => waited' = waited + 1
      BY <2>1, KindsApart DEF Holds, Starts
    <3>2. SUFFICES ASSUME ~started
                   PROVE  \/ current_state' = "S_IDLE" /\ ~ap_start'
                          \/ Starts /\ waited = 0 /\ current_state' = "S_IDLE"
                          \/ Starts /\ waited > 0
      BY <1>1, <3>1, <3>5
    <3>3. CASE Starts
      <4>1. waited = 0 => current_state = "S_IDLE" /\ ~ap_start
        BY <1>1, <3>2 DEF EngineInv
      <4> QED
        BY <1>1, <3>3, <4>1, EngineNext
    <3>4. CASE ~Starts
      <4>1. current_state = "S_IDLE" /\ ~ap_start
        BY <1>1, <3>2, <3>4 DEF EngineInv
      <4> QED
        BY <1>2, <3>4, <4>1, EngineNext
    <3> QED
      BY <3>3, <3>4
  <2>2. CASE Ends
    <3>1. /\ axi_enable /\ waited > 3
          /\ started' = IF adr # CtrlAddr THEN started
                        ELSE we \/ (started /\ ~Bit1(AsWord(read_data)))
      BY <1>1, <2>2, MasterMoves DEF Ends, AccessEnds
    <3>2. SUFFICES ASSUME ~started'
                   PROVE  current_state' = "S_IDLE" /\ ~ap_start'
      OBVIOUS
    <3>3. CASE started
      <4>1. adr = CtrlAddr /\ ~we /\ Bit1(AsWord(read_data))
        BY <3>1, <3>2, <3>3
      <4>2. PICK w \in Nat : /\ read_data = AsSum(w) /\ StillTrue(w)
                             /\ Bit1(w) => current_state = "S_IDLE"
        BY <1>1, <3>1, <4>1 DEF KnowledgeInv, StatusWord, StatusFetched, StatusHeld, ReadsStatus
      <4>3. AsWord(read_data) = w
        BY <4>2 DEF AsSum, AsWord
      <4>4. current_state = "S_IDLE" /\ ~ap_start
        BY <4>1, <4>2, <4>3 DEF StillTrue
      <4> QED
        BY <1>1, <3>1, <4>4, EngineNext
    <3>4. CASE ~started
      <4>1. ~Starts
        BY <1>3, <3>1, <3>2
      <4>2. current_state = "S_IDLE" /\ ~ap_start
        BY <1>1, <3>4, <4>1 DEF EngineInv
      <4> QED
        BY <1>1, <3>1, <4>2, EngineNext
    <3> QED
      BY <3>3, <3>4
  <2>3. CASE Rests
    <3>1. started' = started /\ ~axi_enable
      BY <2>3 DEF Rests, software
    <3>2. ~started => current_state = "S_IDLE" /\ ~ap_start
      BY <1>1, <3>1 DEF EngineInv
    <3> QED
      BY <3>1, <3>2, EngineNext, KindsApart
  <2> QED
    BY <2>1, <2>2, <2>3, MasterMoves
<1>6. (ap_start => current_state \in {"S_IDLE", "S_INIT_SRAM", "S_GET_DATA"})'
  <2>1. CASE LiteWrites /\ waited < 2 /\ adr = CtrlAddr
    BY <1>4, <2>1, EngineNext
  <2>2. CASE ~(LiteWrites /\ waited < 2 /\ adr = CtrlAddr)
    <3>1. ap_start' => ap_start /\ ~(StreamWrites /\ waited = 0)
      BY <2>2, EngineNext
    <3>2. ap_start => current_state \in {"S_IDLE", "S_INIT_SRAM", "S_GET_DATA"}
      BY <1>1 DEF EngineInv
    <3> QED
      BY <3>1, <3>2, EngineNext
  <2> QED
    BY <2>1, <2>2
<1>7. (ap_done => \/ current_state = "S_WAIT_AP_DONE"
                  \/ /\ current_state = "S_IDLE" /\ ~ap_start
                     /\ axi_enable /\ ReadsStatus /\ waited = 3)'
  <2>1. SUFFICES ASSUME ap_done', current_state' # "S_WAIT_AP_DONE"
                 PROVE  /\ current_state' = "S_IDLE" /\ ~ap_start'
                        /\ axi_enable' /\ ReadsStatus' /\ waited' = 3
    OBVIOUS
  <2>2. current_state = "S_WAIT_AP_DONE"
    BY <1>1, <2>1, EngineNext DEF EngineInv
  <2>3. rvalid /\ current_state' = "S_IDLE"
    BY <2>1, <2>2, EngineNext
  <2>4. LiteReads /\ waited = OutCycle + 1
    BY <1>1, <2>3 DEF ChannelInv
  <2>5. started
    BY <1>1, <2>2, <2>4 DEF EngineInv, LiteReads, Starts
  <2>6. ReadsStatus /\ axi_enable
    BY <1>1, <2>4, <2>5, KindFacts DEF LiteReads
  <2>7. waited = 2
    BY <2>4, <2>6, AddrFacts DEF ReadsStatus, OutCycle
  <2>8. Holds
    BY <2>6, <2>7, MasterMoves DEF Ends, Rests
  <2>11. waited' = 3
    BY <2>4, <2>7, <2>8, KindsApart DEF Holds
  <2>9. ~ap_start
    BY <1>1, <2>2 DEF EngineInv
  <2>10. ~ap_start'
    BY <2>4, <2>9, EngineNext, KindsApart
  <2> QED
    BY <2>3, <2>6, <2>8, <2>10, <2>11 DEF Holds, ReadsStatus, axi_enable
<1>8. (StreamWrites /\ waited >= 1 => current_state \in {"S_CAL", "S_SHIFT", "S_WAIT"})'
  <2>1. SUFFICES ASSUME StreamWrites', waited' >= 1
                 PROVE  current_state' \in {"S_CAL", "S_SHIFT", "S_WAIT"}
    OBVIOUS
  <2>2. Holds
    BY <2>1, MasterMoves DEF Ends, Rests
  <2>3. StreamWrites /\ ~StreamReads
    BY <2>1, <2>2, KindHolds, KindsApart
  <2>4. CASE waited = 0
    <3>1. ss_tready
      BY <1>1, <2>3, <2>4, KindFacts DEF StreamWrites, KnowledgeInv
    <3>2. current_state = "S_GET_DATA"
      BY <1>1, <3>1 DEF RunInStep
    <3> QED
      BY <2>3, <2>4, <3>2, EngineNext
  <2>5. CASE waited # 0
    <3>1. current_state \in {"S_CAL", "S_SHIFT", "S_WAIT"} /\ ~sm_fire(Ports)
      BY <1>1, <2>3, <2>5, Handshakes DEF EngineInv
    <3> QED
      BY <3>1, EngineNext
  <2> QED
    BY <2>4, <2>5
<1>9. (sm_done => current_state \in {"S_GET_DATA", "S_WAIT_AP_DONE"})'
  <2>1. CASE sm_fire(Ports)
    BY <2>1, Handshakes, EngineNext
  <2>2. CASE sm_done
    <3>1. current_state \in {"S_GET_DATA", "S_WAIT_AP_DONE"} /\ StreamReads
      BY <1>1, <2>2 DEF EngineInv, ChannelInv
    <3>2. ~StreamWrites /\ ~rvalid
      BY <1>1, <3>1, KindsApart DEF ChannelInv
    <3> QED
      BY <3>1, <3>2, EngineNext
  <2> QED
    BY <2>1, <2>2, ChannelNext
<1> QED
  BY <1>5, <1>6, <1>7, <1>8, <1>9 DEF EngineInv

-----------------------------------------------------------------------------
(* What software knows.                                                    *)

\* The bits that software looks at in the word of the status register.
LEMMA StatusBits ==
  /\ Status \in Nat
  /\ ReadyBit(Status) <=> ss_tready
  /\ ValidBit(Status) <=> sm_tvalid
  /\ Bit1(Status) <=> ap_done
<1>1. \A v, r, i, d, s \in {0, 1} :
        LET w == 32 * v + 16 * r + 4 * i + 2 * d + s
        IN /\ w \in Nat
           /\ (w \div 16) % 2 = r /\ (w \div 32) % 2 = v /\ (w \div 2) % 2 = d
  OBVIOUS
<1>. DEFINE v == Bit(sm_tvalid)
            r == Bit(ss_tready)
            i == Bit(ap_idle)
            d == Bit(ap_done)
            s == Bit(ap_start)
<1>2. /\ v \in {0, 1} /\ r \in {0, 1} /\ i \in {0, 1} /\ d \in {0, 1} /\ s \in {0, 1}
      /\ (v = 1 <=> sm_tvalid) /\ (r = 1 <=> ss_tready) /\ (d = 1 <=> ap_done)
  BY DEF Bit
<1>3. Status = 32 * v + 16 * r + 4 * i + 2 * d + s
  BY DEF Status
<1>. HIDE DEF v, r, i, d, s
<1>4. /\ Status \in Nat
      /\ (Status \div 16) % 2 = r /\ (Status \div 32) % 2 = v /\ (Status \div 2) % 2 = d
  BY <1>1, <1>2, <1>3
<1> QED
  BY <1>2, <1>4 DEF ReadyBit, ValidBit, Bit1

\* The engine withdraws nothing that a word of its status register says.
LEMMA StillTrueStep ==
  ASSUME UInv, Edge, NEW w \in Nat, StillTrue(w),
         ~LiteWrites, ~StreamWrites, ~StreamReads
  PROVE  /\ StillTrue(w)'
         /\ current_state = "S_IDLE" /\ Bit1(w) => current_state' = "S_IDLE"
<1>1. RunInStep
  BY DEF UInv, EInv
<1>2. ReadyBit(w) => ss_tready'
  BY <1>1, EngineNext DEF StillTrue, RunInStep
<1>3. ValidBit(w) => current_state' = "S_WAIT"
  BY EngineNext, Handshakes DEF StillTrue
<1>4. Bit1(w) => current_state' \in {"S_IDLE", "S_WAIT_AP_DONE"} /\ ~ap_start'
  BY EngineNext DEF StillTrue
<1>5. current_state = "S_IDLE" /\ Bit1(w) => current_state' = "S_IDLE"
  BY EngineNext DEF StillTrue
<1> QED
  BY <1>2, <1>3, <1>4, <1>5 DEF StillTrue, ReadyBit, ValidBit, Bit1

\* The status word stays true while it passes to the bridge and waits there.
LEMMA StatusWordStep ==
  ASSUME UInv, Edge, Master
  PROVE  StatusWord'
<1>1. /\ RequestInv /\ DelayInv /\ ChannelInv /\ EngineInv /\ KnowledgeInv
      /\ waited \in Nat /\ RunInStep
  BY DEF UInv, DelayInv, EInv
<1>2. SUFFICES ASSUME axi_enable', ReadsStatus', waited' >= 2
               PROVE  StatusFetched' /\ StatusHeld'
  <2>1. waited' \in Nat
    BY DelayStep DEF DelayInv
  <2>2. ~(waited' >= 2) => StatusFetched' /\ StatusHeld'
    BY <2>1 DEF StatusFetched, StatusHeld
  <2> QED
    BY <2>2 DEF StatusWord
<1>3. Holds
  BY <1>2, MasterMoves DEF Ends, Rests
<1>13. axi_enable /\ ~axi_ack /\ ReadsStatus
  BY <1>2, <1>3 DEF Holds, ReadsStatus
<1>5. LiteReads /\ ~LiteWrites /\ ~StreamWrites /\ ~StreamReads
  <2>1. is_lite /\ ~we
    BY <1>13, AddrFacts DEF ReadsStatus, is_lite
  <2> QED
    BY <1>13, <2>1, KindsApart DEF LiteReads
<1>4. waited' = waited + 1 /\ axi_enable /\ ~axi_ack /\ ReadsStatus
  BY <1>3, <1>5, <1>13, KindsApart DEF Holds
<1>6. OutCycle = 1 /\ adr = CtrlAddr
  BY <1>4, AddrFacts DEF OutCycle, ReadsStatus
<1>7. ASSUME waited = 1
      PROVE  rdata' \in Nat /\ StillTrue(rdata)'
  <2>1. axi_current_state = "AXI_READ_OUT" /\ save_araddr = adr % 64
    BY <1>1, <1>5, <1>6, <1>7 DEF ChannelInv
  <2>2. rdata' = Status
    <3>1. save_araddr = CtrlAddr
      BY <1>6, <2>1 DEF CtrlAddr
    <3> QED
      BY <2>1, <3>1, ChannelNext, AddrFacts DEF ReadWord
  <2>3. ReadyBit(Status) => ss_tready'
    BY <1>1, <1>5, StatusBits, EngineNext DEF RunInStep
  <2>4. ValidBit(Status) => current_state' = "S_WAIT"
    BY <1>5, StatusBits, EngineNext, Handshakes DEF sm_tvalid
  <2>5. Bit1(Status) => current_state' \in {"S_IDLE", "S_WAIT_AP_DONE"} /\ ~ap_start'
    <3>1. Bit1(Status) => current_state = "S_WAIT_AP_DONE" /\ ~ap_start
      BY <1>1, <1>7, StatusBits DEF EngineInv
    <3> QED
      BY <1>5, <3>1, EngineNext
  <2> QED
    BY <2>2, <2>3, <2>4, <2>5, StatusBits DEF StillTrue, ReadyBit, ValidBit, Bit1
<1>8. /\ rvalid /\ Ports.rready => read_data' = AsSum(rdata)
      /\ ~rvalid => read_data' = read_data
  BY <1>4, <1>5, Handshakes DEF Edge, Bridge, ReadData
<1>9. ASSUME waited = 2
      PROVE  \E w \in Nat : /\ read_data' = AsSum(w) /\ StillTrue(w)'
                            /\ Bit1(w) => current_state' = "S_IDLE"
  <2>1. rvalid /\ Ports.rready
    BY <1>1, <1>5, <1>6, <1>9, PortFacts DEF ChannelInv
  <2>2. PICK w \in Nat : w = rdata
    BY <1>1, <1>4, <1>9 DEF KnowledgeInv, StatusWord, StatusFetched, StatusHeld
  <2>3. StillTrue(w)
    BY <1>1, <1>4, <1>9, <2>2 DEF KnowledgeInv, StatusWord, StatusFetched, StatusHeld
  <2>4. StillTrue(w)'
    BY <1>5, <2>3, StillTrueStep
  <2>5. Bit1(w) => current_state' = "S_IDLE"
    BY <2>1, <2>2, <2>3, EngineNext DEF StillTrue
  <2> QED
    BY <1>8, <2>1, <2>2, <2>4, <2>5
<1>10. ASSUME waited >= 3
       PROVE  \E w \in Nat : /\ read_data' = AsSum(w) /\ StillTrue(w)'
                             /\ Bit1(w) => current_state' = "S_IDLE"
  <2>1. ~rvalid
    BY <1>1, <1>6, <1>10 DEF ChannelInv
  <2>2. PICK w \in Nat : /\ read_data = AsSum(w) /\ StillTrue(w)
                         /\ Bit1(w) => current_state = "S_IDLE"
    BY <1>1, <1>4, <1>10 DEF KnowledgeInv, StatusWord, StatusFetched, StatusHeld
  <2>3. StillTrue(w)' /\ (Bit1(w) => current_state' = "S_IDLE")
    BY <1>5, <2>2, StillTrueStep
  <2> QED
    BY <1>8, <2>1, <2>2, <2>3
<1>11. StatusFetched'
  <2>1. waited' = 2 => waited = 1
    BY <1>1, <1>4
  <2> QED
    BY <1>7, <2>1 DEF StatusFetched
<1>12. StatusHeld'
  <2>1. waited' >= 3 => waited = 2 \/ waited >= 3
    BY <1>1, <1>4
  <2> QED
    BY <1>9, <1>10, <2>1 DEF StatusHeld
<1> QED
  BY <1>11, <1>12

\* What software may still do, when it has made the access: nothing, unless it
\* read the status.
LEMMA AccessTaught ==
  ASSUME UInv, Edge, Ends
  PROVE  \/ /\ ReadsStatus
            /\ \E w \in Nat : /\ StillTrue(w) /\ (Bit1(w) => current_state = "S_IDLE")
                              /\ program_config' = w /\ toSend' = toSend
                              /\ started' = (started /\ ~Bit1(w))
         \/ /\ program_config' \in {program_config, 0} /\ toSend' \in BOOLEAN
            /\ started' \in BOOLEAN /\ (started => started')
            /\ started' => ~CanSend' /\ (PollsForOutput => ~CanFetch')
            /\ ~toSend' => \/ ~toSend /\ program_config' = program_config /\ ~StreamReads
                           \/ StreamWrites /\ (PollsForOutput \/ program_config' = 0)
<1>1. /\ RequestInv /\ KnowledgeInv /\ axi_enable /\ waited >= 3
  BY UserProjectAssumption DEF UInv, DelayInv, Ends, AccessEnds
<1>2. /\ program_config' = IF ~we /\ adr = CtrlAddr THEN AsWord(read_data)
                           ELSE IF adr = DinAddr /\ ~PollsForOutput THEN 0
                           ELSE program_config
      /\ started' = IF adr # CtrlAddr THEN started
                    ELSE we \/ (started /\ ~Bit1(AsWord(read_data)))
      /\ toSend' = IF adr \in {DinAddr, DoutAddr} THEN adr = DoutAddr ELSE toSend
  BY DEF Ends, AccessEnds
<1>3. /\ CanSend <=> toSend /\ ReadyBit(program_config)
      /\ CanFetch <=> ~toSend /\ (PollsForOutput => ValidBit(program_config))
      /\ CanSend' <=> toSend' /\ ReadyBit(program_config')
      /\ CanFetch' <=> ~toSend' /\ (PollsForOutput => ValidBit(program_config'))
  BY DEF CanSend, CanFetch, ReadyBit, ValidBit
<1>4. /\ program_config \in Nat /\ started \in BOOLEAN /\ toSend \in BOOLEAN
      /\ ~(ReadyBit(program_config) /\ ValidBit(program_config))
      /\ ~started => ~ReadyBit(program_config) /\ ~ValidBit(program_config)
      /\ ~toSend /\ ~PollsForOutput => ~ReadyBit(program_config)
  BY <1>1 DEF KnowledgeInv
<1>5. /\ CtrlAddr \notin {DinAddr, DoutAddr} /\ DinAddr # DoutAddr
      /\ DinAddr # CtrlAddr /\ DoutAddr # CtrlAddr
  BY AddrFacts
<1>11. /\ Configures \/ ReadsBack \/ Starts => ~StreamReads
       /\ Sends => StreamWrites
       /\ ~ReadyBit(0) /\ ~ValidBit(0)
  BY <1>1, AddrFacts DEF Configures, ReadsBack, Starts, Sends, StreamReads, StreamWrites,
                         is_lite, ReadyBit, ValidBit
<1>6. CASE ReadsStatus
  <2>1. PICK w \in Nat : /\ read_data = AsSum(w) /\ StillTrue(w)
                         /\ Bit1(w) => current_state = "S_IDLE"
    BY <1>1, <1>6 DEF KnowledgeInv, StatusWord, StatusHeld
  <2>2. AsWord(read_data) = w
    BY <2>1 DEF AsSum, AsWord
  <2>3. program_config' = w /\ toSend' = toSend /\ started' = (started /\ ~Bit1(w))
    BY <1>2, <1>6, <2>2, AddrFacts DEF ReadsStatus
  <2> QED
    BY <1>6, <2>1, <2>3
<1>7. CASE ~started /\ (Configures \/ ReadsBack)
  <2>1. adr \notin {CtrlAddr, DinAddr, DoutAddr}
    BY <1>7, AddrFacts DEF Configures, ReadsBack
  <2>2. program_config' = program_config /\ toSend' = toSend /\ started' = started
    BY <1>2, <2>1
  <2> QED
    BY <1>4, <1>7, <1>11, <2>2
<1>8. CASE ~started /\ Starts
  <2>1. program_config' = program_config /\ toSend' = toSend /\ started' = TRUE
    BY <1>2, <1>8, <1>5 DEF Starts
  <2> QED
    BY <1>3, <1>4, <1>8, <1>11, <2>1
<1>9. CASE started /\ CanSend /\ Sends
  <2>1. /\ program_config' = IF PollsForOutput THEN program_config ELSE 0
        /\ toSend' = FALSE /\ started' = started
    BY <1>2, <1>9, <1>5, UserProjectAssumption DEF Sends
  <2> QED
    BY <1>3, <1>4, <1>9, <1>11, <2>1
<1>10. CASE started /\ CanFetch /\ Fetches
  <2>1. program_config' = program_config /\ toSend' = TRUE /\ started' = started
    BY <1>2, <1>10, <1>5 DEF Fetches
  <2> QED
    BY <1>3, <1>4, <1>10, <2>1
<1> QED
  BY <1>1, <1>6, <1>7, <1>8, <1>9, <1>10 DEF RequestInv

\* Software never knows more than is true.
LEMMA KnowledgeStep ==
  ASSUME UInv, Edge, Master
  PROVE  KnowledgeInv'
<1>1. /\ RequestInv /\ DelayInv /\ ChannelInv /\ EngineInv /\ KnowledgeInv
      /\ waited \in Nat /\ RunInStep
  BY DEF UInv, DelayInv, EInv
<1>2. /\ CanSend <=> toSend /\ ReadyBit(program_config)
      /\ CanFetch <=> ~toSend /\ (PollsForOutput => ValidBit(program_config))
      /\ CanSend' <=> toSend' /\ ReadyBit(program_config')
      /\ CanFetch' <=> ~toSend' /\ (PollsForOutput => ValidBit(program_config'))
  BY DEF CanSend, CanFetch, ReadyBit, ValidBit
<1>3. /\ program_config \in Nat /\ started \in BOOLEAN /\ toSend \in BOOLEAN
      /\ ~(ReadyBit(program_config) /\ ValidBit(program_config))
      /\ ~started => ~ReadyBit(program_config) /\ ~ValidBit(program_config)
  BY <1>1 DEF KnowledgeInv
<1>4. /\ ss_tready /\ ~StreamWrites => ss_tready'
      /\ ~sm_fire(Ports) =>
           /\ current_state = "S_WAIT" => current_state' = "S_WAIT"
           /\ current_state \in {"S_CAL", "S_SHIFT", "S_WAIT"} =>
                current_state' \in {"S_CAL", "S_SHIFT", "S_WAIT"}
  BY <1>1, EngineNext DEF RunInStep
<1>7. /\ started /\ CanSend /\ ~(StreamWrites /\ waited >= 1) => ss_tready
      /\ PollsForOutput /\ started /\ CanFetch /\ ~sm_done => current_state = "S_WAIT"
      /\ ~toSend /\ ~sm_done => current_state \in {"S_CAL", "S_SHIFT", "S_WAIT"}
      /\ ~toSend /\ ~PollsForOutput => ~ReadyBit(program_config)
  BY <1>1 DEF KnowledgeInv
<1>8. ~StreamReads => ~sm_done /\ ~sm_fire(Ports)
  BY <1>1, Handshakes DEF ChannelInv
<1>5. /\ program_config' \in Nat /\ started' \in BOOLEAN /\ toSend' \in BOOLEAN
      /\ ~(ReadyBit(program_config') /\ ValidBit(program_config'))
      /\ ~started' => ~ReadyBit(program_config') /\ ~ValidBit(program_config')
      /\ started' /\ CanSend' /\ ~(StreamWrites' /\ waited' >= 1) => ss_tready'
      /\ PollsForOutput /\ started' /\ CanFetch' /\ ~sm_done' => current_state' = "S_WAIT"
      /\ ~toSend' /\ ~sm_done' => current_state' \in {"S_CAL", "S_SHIFT", "S_WAIT"}
      /\ ~toSend' /\ ~PollsForOutput => ~ReadyBit(program_config')
  <2>1. CASE Holds \/ Rests
    <3>1. program_config' = program_config /\ started' = started /\ toSend' = toSend
      BY <2>1 DEF Holds, Rests, software
    <3>2. StreamWrites => StreamWrites' /\ waited' >= 1
      BY <1>1, <2>1, KindHolds, KindsApart DEF Holds, Rests
    <3>3. ~sm_done' => ~sm_done /\ ~sm_fire(Ports)
      <4>1. sm_done => axi_enable /\ ~axi_ack
        BY <1>1, <2>1, KindsApart DEF Holds, Rests, ChannelInv
      <4> QED
        BY <4>1, ChannelNext
    <3>4. started /\ CanSend /\ ~StreamWrites => ss_tready'
      BY <1>4, <1>7
    <3>5. ~sm_done' =>
            /\ PollsForOutput /\ started /\ CanFetch => current_state' = "S_WAIT"
            /\ ~toSend => current_state' \in {"S_CAL", "S_SHIFT", "S_WAIT"}
      BY <1>4, <1>7, <3>3
    <3> QED
      BY <1>2, <1>3, <1>7, <3>1, <3>2, <3>4, <3>5
  <2>2. CASE Ends
    <3>1. CASE ReadsStatus /\
               \E w \in Nat : /\ StillTrue(w) /\ (Bit1(w) => current_state = "S_IDLE")
                              /\ program_config' = w /\ toSend' = toSend
                              /\ started' = (started /\ ~Bit1(w))
      <4>1. PICK w \in Nat : /\ StillTrue(w) /\ (Bit1(w) => current_state = "S_IDLE")
                             /\ program_config' = w /\ toSend' = toSend
                             /\ started' = (started /\ ~Bit1(w))
        BY <3>1
      <4>2. ~LiteWrites /\ ~StreamWrites /\ ~StreamReads
        BY <3>1, AddrFacts
           DEF ReadsStatus, LiteWrites, StreamWrites, StreamReads, is_lite
      <4>3. /\ ReadyBit(w) => ss_tready /\ ss_tready' /\ current_state = "S_GET_DATA"
            /\ ValidBit(w) => current_state = "S_WAIT" /\ current_state' = "S_WAIT"
        BY <1>1, <1>4, <1>8, <4>1, <4>2 DEF StillTrue, RunInStep
      <4>4. ~started => current_state = "S_IDLE"
        BY <1>1, <3>1 DEF EngineInv, ReadsStatus, Starts
      <4>5. ~started' => ~ReadyBit(w) /\ ~ValidBit(w)
        BY <1>3, <4>1, <4>3, <4>4
      <4>6. ~toSend' => /\ current_state \in {"S_CAL", "S_SHIFT", "S_WAIT"}
                        /\ current_state' \in {"S_CAL", "S_SHIFT", "S_WAIT"}
        BY <1>4, <1>7, <1>8, <4>1, <4>2
      <4>7. ~toSend' => ~ReadyBit(w)
        BY <4>3, <4>6
      <4>8. ~(ReadyBit(w) /\ ValidBit(w))
        BY <4>3
      <4> QED
        BY <1>2, <1>3, <4>1, <4>3, <4>5, <4>6, <4>7, <4>8
    <3>2. CASE /\ program_config' \in {program_config, 0} /\ toSend' \in BOOLEAN
               /\ started' \in BOOLEAN /\ (started => started')
               /\ started' => ~CanSend' /\ (PollsForOutput => ~CanFetch')
               /\ ~toSend' => \/ ~toSend /\ program_config' = program_config /\ ~StreamReads
                              \/ StreamWrites /\ (PollsForOutput \/ program_config' = 0)
      <4>1. ~ReadyBit(0) /\ ~ValidBit(0)
        BY DEF ReadyBit, ValidBit
      <4>2. ~toSend' /\ ~PollsForOutput => ~ReadyBit(program_config')
        BY <1>7, <3>2, <4>1
      <4>3. ~toSend' => current_state' \in {"S_CAL", "S_SHIFT", "S_WAIT"}
        <5>1. StreamWrites => current_state \in {"S_CAL", "S_SHIFT", "S_WAIT"} /\ ~StreamReads
          <6>1. waited >= 1
            BY <1>1, <2>2, UserProjectAssumption DEF Ends
          <6> QED
            BY <1>1, <6>1, KindsApart DEF EngineInv
        <5> QED
          BY <1>4, <1>7, <1>8, <3>2, <5>1
      <4> QED
        BY <1>3, <3>2, <4>1, <4>2, <4>3
    <3> QED
      BY <2>2, <3>1, <3>2, AccessTaught
  <2> QED
    BY <2>1, <2>2, MasterMoves
<1>6. StatusWord'
  BY StatusWordStep
<1> QED
  BY <1>5, <1>6 DEF KnowledgeInv, ReadyBit, ValidBit

-----------------------------------------------------------------------------
(* The word returned.                                                      *)

\* What passes through the read channel and the bridge while an access goes on.
LEMMA ReadNext ==
  ASSUME UInv, Edge, Holds
  PROVE  /\ read_data' = IF LiteReads /\ rvalid THEN AsSum(rdata)
                         ELSE IF sm_fire(Ports) THEN cal_result
                         ELSE read_data
         /\ emitted' = IF current_state = "S_IDLE" THEN <<>>
                       ELSE IF sm_fire(Ports) THEN Append(emitted, cal_result)
                       ELSE emitted
         /\ ~LiteWrites => tap_ram' = tap_ram
         /\ ~LiteWrites /\ axi_current_state = "AXI_READ_SRAM" =>
              tap_Do' = tap_ram[WordOf(save_araddr)]
<1>1. RequestInv /\ DelayInv /\ ChannelInv
  BY DEF UInv
<1>2. axi_enable /\ (Ports.rready <=> LiteReads) /\ (Ports.awvalid => LiteWrites)
  BY <1>1, PortFacts DEF Holds
<1>4. /\ read_data' = ReadData
      /\ Record(Ports) /\ TapRam(Ports)
  BY DEF Edge, Bridge, Clock
<1>5. read_data' = IF LiteReads /\ rvalid THEN AsSum(rdata)
                   ELSE IF sm_fire(Ports) THEN cal_result
                   ELSE read_data
  BY <1>2, <1>4 DEF ReadData, sm_tdata
<1>6. emitted' = IF current_state = "S_IDLE" THEN <<>>
                 ELSE IF sm_fire(Ports) THEN Append(emitted, cal_result)
                 ELSE emitted
  BY <1>4 DEF Record, sm_tdata
<1>7. ~LiteWrites => ~tap_WE(Ports)
  BY <1>2 DEF tap_WE
<1>8. ~LiteWrites => tap_ram' = tap_ram /\ tap_Do' = tap_ram[tap_A(Ports)]
  BY <1>4, <1>7 DEF TapRam
<1>9. ~LiteWrites /\ axi_current_state = "AXI_READ_SRAM" =>
        tap_Do' = tap_ram[WordOf(save_araddr)]
  BY <1>7, <1>8 DEF tap_A
<1> QED
  BY <1>5, <1>6, <1>8, <1>9

\* The word under way is the one of this access.
LEMMA FreshStep ==
  ASSUME UInv, Edge, Master
  PROVE  FreshInv'
<1>1. /\ RequestInv /\ DelayInv /\ ChannelInv /\ EngineInv /\ KnowledgeInv /\ FreshInv
      /\ waited \in Nat /\ emitted \in Seq(Sums)
  BY DEF UInv, DelayInv, EInv, TypeOK
<1>2. waited' >= 1 => Holds
  BY MasterMoves DEF Ends, Rests
<1>3. Holds => /\ ~StreamReads => waited' = waited + 1
               /\ axi_enable /\ we' = we /\ adr' = adr
  BY KindsApart DEF Holds
<1>8. sm_fire(Ports) => StreamReads /\ ~sm_done /\ current_state # "S_IDLE"
  BY Handshakes
<1>4. waited' \in Nat
  BY DelayStep DEF DelayInv
<1>5. (axi_enable /\ ~we /\ adr = LenAddr =>
         /\ waited = 2 => rdata = length
         /\ waited >= 3 => read_data = AsSum(length))'
  <2>1. SUFFICES ASSUME waited' >= 2, ~we', adr' = LenAddr
                 PROVE  /\ waited' = 2 => rdata' = length'
                        /\ waited' >= 3 => read_data' = AsSum(length')
    BY <1>4 DEF AsSum
  <2>8. Holds /\ axi_enable /\ ~we /\ adr = LenAddr
    BY <1>2, <1>3, <1>4, <2>1
  <2>3. LiteReads /\ ~LiteWrites /\ ~StreamReads /\ OutCycle = 1 /\ ~sm_fire(Ports)
    BY <1>8, <2>8, AddrFacts DEF LiteReads, LiteWrites, StreamReads, is_lite, OutCycle
  <2>2. Holds /\ waited >= 1 /\ waited' = waited + 1 /\ axi_enable /\ ~we /\ adr = LenAddr
    BY <1>1, <1>3, <2>1, <2>3, <2>8
  <2>4. length' = length
    BY <2>3, EngineNext
  <2>5. CASE waited = 1
    <3>1. axi_current_state = "AXI_READ_OUT" /\ save_araddr = adr % 64
      BY <1>1, <2>3, <2>5 DEF ChannelInv
    <3>2. save_araddr = LenAddr /\ LenAddr # CtrlAddr
      BY <2>2, <3>1 DEF LenAddr, CtrlAddr
    <3>3. rdata' = length
      BY <3>1, <3>2, ChannelNext DEF ReadWord
    <3> QED
      BY <2>2, <2>4, <2>5, <3>3
  <2>6. CASE waited = 2
    <3>1. rvalid /\ rdata = length
      BY <1>1, <2>2, <2>3, <2>6 DEF ChannelInv, FreshInv
    <3>2. read_data' = AsSum(length)
      BY <2>2, <2>3, <3>1, ReadNext
    <3> QED
      BY <2>2, <2>4, <2>6, <3>2
  <2>7. CASE waited >= 3
    <3>1. ~rvalid /\ read_data = AsSum(length)
      BY <1>1, <2>2, <2>3, <2>7 DEF ChannelInv, FreshInv
    <3>2. read_data' = AsSum(length)
      BY <2>2, <2>3, <3>1, ReadNext
    <3> QED
      BY <1>1, <2>2, <2>4, <2>7, <3>2
  <2> QED
    BY <1>1, <2>2, <2>5, <2>6, <2>7
<1>6. (\A k \in Index :
         axi_enable /\ ~we /\ adr = TapAddr(k) /\ adr % 64 \notin {CtrlAddr, LenAddr} =>
           /\ waited = 2 => tap_Do = tap_ram[k]
           /\ waited = 3 => rdata = tap_ram[k]
           /\ waited >= 4 => read_data = AsSum(tap_ram[k]))'
  <2>1. SUFFICES ASSUME NEW k \in Index, waited' >= 2, ~we', adr' = TapAddr(k),
                        adr' % 64 \notin {CtrlAddr, LenAddr}
                 PROVE  /\ waited' = 2 => tap_Do' = tap_ram'[k]
                        /\ waited' = 3 => rdata' = tap_ram'[k]
                        /\ waited' >= 4 => read_data' = AsSum(tap_ram'[k])
    BY <1>4 DEF AsSum, Index, TapAddr, CtrlAddr, LenAddr
  <2>11. /\ Holds /\ axi_enable /\ ~we
         /\ adr = TapAddr(k) /\ adr % 64 \notin {CtrlAddr, LenAddr}
    BY <1>2, <1>3, <1>4, <2>1
  <2>3. /\ WordOf(adr % 64) = k /\ IsTap(adr) /\ is_lite
    BY <2>11, AddrFacts DEF is_lite
  <2>4. LiteReads /\ ~LiteWrites /\ ~StreamReads /\ OutCycle = 2 /\ ~sm_fire(Ports)
    BY <1>8, <2>11, <2>3 DEF LiteReads, LiteWrites, StreamReads, OutCycle
  <2>2. /\ Holds /\ waited >= 1 /\ waited' = waited + 1 /\ axi_enable /\ ~we
        /\ adr = TapAddr(k) /\ adr % 64 \notin {CtrlAddr, LenAddr}
    BY <1>1, <1>3, <2>1, <2>4, <2>11
  <2>5. tap_ram' = tap_ram /\ save_araddr = adr % 64
    BY <1>1, <2>2, <2>4, ReadNext DEF ChannelInv
  <2>6. /\ waited = 2 => tap_Do = tap_ram[k]
        /\ waited = 3 => rdata = tap_ram[k]
        /\ waited >= 4 => read_data = AsSum(tap_ram[k])
    BY <1>1, <2>2 DEF FreshInv
  <2>7. CASE waited = 1
    <3>1. axi_current_state = "AXI_READ_SRAM"
      BY <1>1, <2>4, <2>7 DEF ChannelInv
    <3>2. tap_Do' = tap_ram[k]
      BY <2>2, <2>3, <2>4, <2>5, <3>1, ReadNext
    <3> QED
      BY <2>2, <2>5, <2>7, <3>2
  <2>8. CASE waited = 2
    <3>1. axi_current_state = "AXI_READ_OUT"
      BY <1>1, <2>4, <2>8 DEF ChannelInv
    <3>2. save_araddr \notin {CtrlAddr, LenAddr}
      BY <2>2, <2>5
    <3>3. rdata' = tap_ram[k]
      BY <2>6, <2>8, <3>1, <3>2, ChannelNext DEF ReadWord
    <3> QED
      BY <2>2, <2>5, <2>8, <3>3
  <2>9. CASE waited = 3
    <3>1. rvalid
      BY <1>1, <2>4, <2>9 DEF ChannelInv
    <3>2. read_data' = AsSum(tap_ram[k])
      BY <2>2, <2>4, <2>6, <2>9, <3>1, ReadNext
    <3> QED
      BY <2>2, <2>5, <2>9, <3>2
  <2>10. CASE waited >= 4
    <3>1. ~rvalid
      BY <1>1, <2>4, <2>10 DEF ChannelInv
    <3>2. read_data' = AsSum(tap_ram[k])
      BY <2>2, <2>4, <2>6, <2>10, <3>1, ReadNext
    <3> QED
      BY <1>1, <2>2, <2>5, <2>10, <3>2
  <2> QED
    BY <1>1, <2>2, <2>7, <2>8, <2>9, <2>10
<1>7. (sm_done => read_data = emitted[Len(emitted)])'
  <2>1. SUFFICES ASSUME sm_done'
                 PROVE  read_data' = emitted'[Len(emitted')]
    OBVIOUS
  <2>2. sm_fire(Ports) \/ (sm_done /\ ~axi_ack)
    BY <2>1, ChannelNext
  <2>3. StreamReads /\ ~LiteReads
    BY <1>1, <1>8, <2>2, KindsApart DEF ChannelInv
  <2>4. Holds
    <3>1. sm_fire(Ports) => ~axi_ack
      <4>1. axi_ack /\ MayWait => sm_done
        BY <1>1 DEF DelayInv
      <4>2. axi_ack /\ ~MayWait => waited >= 1
        BY <1>1, <2>3, KindsApart, UserProjectAssumption DEF DelayInv
      <4>3. waited >= 1 /\ ~MayWait => sm_done
        BY <1>1, <2>3 DEF ChannelInv
      <4> QED
        BY <1>8, <4>1, <4>2, <4>3
    <3> QED
      BY <2>2, <2>3, <3>1, KindsApart, MasterMoves DEF Ends, Rests
  <2>5. CASE sm_fire(Ports)
    <3>1. read_data' = cal_result /\ emitted' = Append(emitted, cal_result)
      BY <1>8, <2>3, <2>4, <2>5, ReadNext
    <3> QED
      BY <1>1, <3>1
  <2>6. CASE sm_done
    <3>1. current_state \in {"S_GET_DATA", "S_WAIT_AP_DONE"} /\ ~sm_fire(Ports)
      BY <1>1, <1>8, <2>6 DEF EngineInv
    <3>2. read_data' = read_data /\ emitted' = emitted
      BY <2>3, <2>4, <3>1, ReadNext
    <3> QED
      BY <1>1, <2>6, <3>2 DEF FreshInv
  <2> QED
    BY <2>2, <2>5, <2>6
<1> QED
  BY <1>5, <1>6, <1>7 DEF FreshInv

-----------------------------------------------------------------------------
(* The slave keeps its invariant.                                          *)


\* At power-up and after a reset nothing is requested and nothing is known.
AtRestOnBus ==
  /\ cyc = "none" /\ ~we /\ adr = 0 /\ dat = 0 /\ WrapperInit /\ ~axi_ack
  /\ ~axi_w_done /\ ~axi_r_done /\ ~ss_done /\ ~sm_done
  /\ program_config = 0 /\ started = FALSE /\ toSend = TRUE
  /\ fires = 0 /\ waited = 0
  /\ current_state = "S_IDLE" /\ ~ap_start /\ ~ap_done
  /\ ~awready /\ arready /\ ~rvalid /\ axi_current_state = "AXI_READ_IDLE"

LEMMA SlaveAtRest == EInv /\ AtRestOnBus => UInv
<1> SUFFICES ASSUME EInv, AtRestOnBus PROVE UInv
  OBVIOUS
<1>1. ~axi_enable /\ ~LiteWrites /\ ~LiteReads /\ ~StreamWrites /\ ~StreamReads
  BY DEF AtRestOnBus, axi_enable, LiteWrites, LiteReads, StreamWrites, StreamReads
<1>2. RequestInv
  BY <1>1 DEF AtRestOnBus, RequestInv
<1>3. DelayInv
  BY <1>1, UserProjectAssumption DEF AtRestOnBus, DelayInv, WrapperInit
<1>4. ChannelInv
  BY <1>1 DEF AtRestOnBus, ChannelInv
<1>5. EngineInv
  BY <1>1 DEF AtRestOnBus, EngineInv
<1>6. KnowledgeInv
  <2>1. ~ReadyBit(0) /\ ~ValidBit(0)
    BY DEF ReadyBit, ValidBit
  <2> QED
    BY <1>1, <2>1 DEF AtRestOnBus, KnowledgeInv, StatusWord
<1>7. FreshInv
  BY <1>1 DEF FreshInv, AtRestOnBus
<1> QED
  BY <1>2, <1>3, <1>4, <1>5, <1>6, <1>7 DEF UInv

LEMMA SlaveInit == UInit => UInv
<1> SUFFICES ASSUME UInit PROVE UInv
  OBVIOUS
<1>1. EInv
  BY InitInv DEF UInit, IInv
<1>2. AtRestOnBus
  BY DEF AtRestOnBus, UInit, Init
<1> QED
  BY <1>1, <1>2, SlaveAtRest

\* One step of the bus, in each of its parts.
LEMMA SlaveStep ==
  ASSUME UInv, [UNext]_uvars
  PROVE  UInv'
<1>1. EInv'
  BY EngineStep
<1>2. CASE Edge /\ Master
  BY <1>1, <1>2, RequestStep, DelayStep, ChannelStep, EngineKept, KnowledgeStep, FreshStep
     DEF UInv
<1>3. CASE UReset
  <2>1. AtRestOnBus'
    BY <1>3 DEF UReset, NoRequest, WrapperReset, WrapperInit, Reset, AtRestOnBus
  <2> QED
    BY <1>1, <2>1, SlaveAtRest, PTL
<1>4. CASE UNCHANGED uvars
  <2>1. /\ UNCHANGED <<request, bridge, wrapper, software, fires, waited>>
        /\ UNCHANGED <<fsmVars, ctrlVars, readVars, ramVars, history, awready, ss_tready>>
    BY <1>4 DEF uvars, vars
  <2>2. /\ UNCHANGED <<cyc, we, adr, dat, axi_ack, read_data, axi_w_done, axi_r_done>>
        /\ UNCHANGED <<ss_done, sm_done, count, ready, program_config, started, toSend>>
        /\ UNCHANGED <<current_state, ap_start, ap_done, ap_idle, length, rdata, rvalid>>
        /\ UNCHANGED <<arready, axi_current_state, save_araddr, tap_Do, tap_ram, emitted>>
        /\ UNCHANGED <<fires, waited, awready, ss_tready>>
    BY <2>1 DEF request, bridge, wrapper, software, fsmVars, ctrlVars, readVars,
                ramVars, history
  <2>3. /\ axi_enable' = axi_enable /\ is_lite' = is_lite
        /\ Configures' = Configures /\ ReadsBack' = ReadsBack /\ Starts' = Starts
        /\ ReadsStatus' = ReadsStatus /\ Sends' = Sends /\ Fetches' = Fetches
        /\ CanSend' = CanSend /\ CanFetch' = CanFetch
    BY <2>2 DEF axi_enable, is_lite, Configures, ReadsBack, Starts, ReadsStatus, Sends,
                Fetches, CanSend, CanFetch
  <2>4. RequestInv'
    BY <2>2, <2>3 DEF UInv, RequestInv
  <2>6. /\ LiteWrites' = LiteWrites /\ LiteReads' = LiteReads
        /\ StreamWrites' = StreamWrites /\ StreamReads' = StreamReads
        /\ OutCycle' = OutCycle /\ MayWait' = MayWait
    BY <2>2, <2>3 DEF LiteWrites, LiteReads, StreamWrites, StreamReads, OutCycle, MayWait
  <2>5. DelayInv'
    BY <2>2, <2>3, <2>6 DEF UInv, DelayInv
  <2>7. ChannelInv'
    BY <2>2, <2>3, <2>6 DEF UInv, ChannelInv
  <2>8. EngineInv'
    BY <2>2, <2>3, <2>6 DEF UInv, EngineInv
  <2>9. StatusWord'
    BY <2>2, <2>3 DEF UInv, KnowledgeInv, StatusWord, StatusFetched, StatusHeld, StillTrue
  <2>10. KnowledgeInv'
    BY <2>2, <2>3, <2>6, <2>9 DEF UInv, KnowledgeInv
  <2>11. FreshInv'
    BY <2>2, <2>3, <2>6 DEF UInv, FreshInv
  <2> QED
    BY <1>1, <2>4, <2>5, <2>7, <2>8, <2>10, <2>11 DEF UInv
<1> QED
  BY <1>2, <1>3, <1>4 DEF UNext

-----------------------------------------------------------------------------
(* What follows, whether software polls for an output or not.              *)

\* Where the slave, the engine and software are in every state of the system.
THEOREM SlaveInvariance == USpec => []UInv
<1>1. UInv /\ [UNext]_uvars => UInv'
  BY SlaveStep
<1> QED
  BY <1>1, SlaveInit, PTL DEF USpec

\* Software that polls for nothing but room for a sample (fir_control.c without
\* the wait for sm_tvalid) still shows the engine only cycles that its contract
\* allows an eager master, so that every output misses at most its last tap.
THEOREM EagerBehindBus == USpec => EagerSpec /\ []EagerOutputsLackLastTap
<1>1. UInv /\ [UNext]_uvars => [EagerNext]_vars
  BY EngineStep
<1>2. UInit => Init
  BY DEF UInit
<1>3. USpec => EagerSpec
  BY <1>1, <1>2, SlaveInvariance, PTL DEF USpec, EagerSpec
<1> QED
  BY <1>3, EagerCorrect, PTL

\* No access makes its handshake twice, and none is acknowledged without it
\* (axi_w_done, axi_r_done, ss_done and sm_done of user_project_axi.v).
THEOREM AckMeansOneHandshake ==
  USpec => []OneHandshakePerAccess
<1>1. UInv => OneHandshakePerAccess
  <2> SUFFICES ASSUME UInv PROVE OneHandshakePerAccess
    OBVIOUS
  <2>1. /\ DelayInv /\ ChannelInv /\ waited \in Nat /\ DELAYS \in 3 .. 15
    BY UserProjectAssumption DEF UInv, DelayInv
  <2>2. fires <= 1
    BY <2>1 DEF ChannelInv, Bit
  <2>3. axi_ack => axi_enable /\ waited >= 4
    BY <2>1 DEF DelayInv
  <2>4. axi_ack => fires = 1
    <3>1. axi_ack /\ StreamReads => sm_done
      BY <2>1, <2>3, KindsApart DEF DelayInv, ChannelInv
    <3> QED
      BY <2>1, <2>3, <3>1 DEF ChannelInv, Bit
  <2> QED
    BY <2>2, <2>3, <2>4 DEF OneHandshakePerAccess
<1> QED
  BY <1>1, SlaveInvariance, PTL

\* The acknowledge comes with the word of this access: the read channel and
\* read_data (user_project_axi.v) have it before the delay is over, for every
\* delay of at least three cycles.
THEOREM AckMeansFresh == USpec => []ReadsAreFresh
<1>1. UInv => ReadsAreFresh
  <2> SUFFICES ASSUME UInv, axi_ack, ~we
               PROVE  /\ adr = LenAddr => read_data = AsSum(length)
                      /\ \A k \in Index :
                           adr = TapAddr(k) /\ adr % 64 \notin {CtrlAddr, LenAddr} =>
                             read_data = AsSum(tap_ram[k])
                      /\ adr = DoutAddr => read_data = emitted[Len(emitted)]
    BY DEF ReadsAreFresh
  <2>1. /\ FreshInv /\ axi_enable /\ waited \in Nat /\ waited >= 4
        /\ StreamReads => sm_done
    <3>1. DelayInv /\ ChannelInv /\ FreshInv /\ waited \in Nat /\ DELAYS \in 3 .. 15
      BY UserProjectAssumption DEF UInv, DelayInv
    <3>2. axi_enable /\ waited >= 4
      BY <3>1 DEF DelayInv
    <3>3. StreamReads => sm_done
      BY <3>1, <3>2 DEF DelayInv, ChannelInv
    <3> QED
      BY <3>1, <3>2, <3>3
  <2>2. adr = LenAddr => read_data = AsSum(length)
    BY <2>1 DEF FreshInv
  <2>3. \A k \in Index :
          adr = TapAddr(k) /\ adr % 64 \notin {CtrlAddr, LenAddr} =>
            read_data = AsSum(tap_ram[k])
    BY <2>1 DEF FreshInv
  <2>4. adr = DoutAddr => read_data = emitted[Len(emitted)]
    <3>1. DoutAddr = 132 /\ ~((132 \div 128) % 2 = 0)
      BY DEF DoutAddr
    <3>2. adr = DoutAddr => ~is_lite
      BY <3>1 DEF is_lite
    <3> QED
      BY <2>1, <3>2 DEF FreshInv, StreamReads
  <2> QED
    BY <2>2, <2>3, <2>4
<1> QED
  BY <1>1, SlaveInvariance, PTL

\* What software read of the status (check_fir of fir_control.c) still holds
\* when it acts on it, however long it was away.
THEOREM StatusKeeps == USpec => []StatusStillTrue
<1>1. UInv => StatusStillTrue
  <2> SUFFICES ASSUME UInv, ~axi_enable PROVE StatusStillTrue
    BY DEF StatusStillTrue
  <2>1. KnowledgeInv /\ EngineInv /\ ChannelInv
    BY DEF UInv
  <2>2. ~StreamWrites /\ ~StreamReads /\ ~sm_done
    BY <2>1, KindsApart DEF ChannelInv
  <2>3. started /\ CanSend => ss_tready
    BY <2>1, <2>2 DEF KnowledgeInv
  <2>4. started /\ CanFetch /\ PollsForOutput => current_state = "S_WAIT"
    BY <2>1, <2>2 DEF KnowledgeInv
  <2>5. ~started => current_state = "S_IDLE" /\ ~ap_start
    BY <2>1 DEF EngineInv
  <2> QED
    BY <2>3, <2>4, <2>5 DEF StatusStillTrue
<1> QED
  BY <1>1, SlaveInvariance, PTL

-----------------------------------------------------------------------------
(* How far the engine is when the bus comes for an output: a transaction    *)
(* takes the delay, so that the bus is never early by more than the taps.   *)

\* The cycles since the sample was taken, while the output is computed.
Elapsed == counter + 1

\* Since the sample was taken, its own access went on to its acknowledge, and
\* so did every fetch from the program memory that came after it.
PaceInv ==
  current_state \in {"S_CAL", "S_SHIFT"} =>
    /\ StreamWrites => Elapsed >= waited
    /\ cyc = "none" => Elapsed >= IF count = 1 THEN DELAYS + 2 ELSE 2 * DELAYS + 4
    /\ cyc = "bram" => Elapsed >= IF ready THEN 2 * DELAYS + 3 ELSE DELAYS + 2 + count
    /\ axi_enable /\ ~StreamWrites =>
         /\ Elapsed >= DELAYS + 3 + waited
         /\ count = waited /\ ~ready => Elapsed >= 2 * DELAYS + 5 + waited

\* A fetch that finds no output at the first pulse of ready has one at the
\* next.
InTime ==
  MayWait =>
    \/ ~ready /\ ~axi_ack /\ count \in {waited, waited + 1}
    \/ ready /\ ~axi_ack /\ waited = DELAYS
    \/ ready /\ ~axi_ack /\ waited = DELAYS + 1 /\ sm_done
    \/ ~ready /\ axi_ack /\ waited \in {DELAYS + 1, DELAYS + 2}
    \/ ~ready /\ ~axi_ack /\ waited = count + DELAYS + 1
    \/ ready /\ ~axi_ack /\ waited = 2 * DELAYS + 2 /\ sm_done
    \/ ~ready /\ axi_ack /\ waited = 2 * DELAYS + 3

\* The count, ready and the acknowledge in a clock.
LEMMA CountNext ==
  ASSUME UInv, Edge
  PROVE  /\ ready' <=> valid /\ ~ready /\ count = DELAYS
         /\ count' = IF valid /\ ~ready
                     THEN IF count = DELAYS THEN 0 ELSE count + 1
                     ELSE count
         /\ axi_ack' <=> ~axi_ack /\ ready /\ HandshakeMade
         /\ DELAYS \in 3 .. 15 /\ count \in 0 .. DELAYS
<1>1. DELAYS \in 3 .. 15 /\ count \in 0 .. DELAYS
  BY UserProjectAssumption DEF UInv, DelayInv
<1>2. ready' <=> (valid /\ ~ready /\ count = DELAYS) \/ (ready /\ ~(ready \/ axi_ack))
  BY DEF Edge, WrapperStep, user_project_bram_ack
<1>3. count' = IF valid /\ ~ready
               THEN IF count = DELAYS THEN 0 ELSE (count + 1) % 16
               ELSE count
  BY DEF Edge, WrapperStep
<1>4. count # DELAYS => (count + 1) % 16 = count + 1
  BY <1>1
<1>5. axi_ack' <=> ~axi_ack /\ ready /\ HandshakeMade
  BY DEF Edge, Bridge
<1> QED
  BY <1>1, <1>2, <1>3, <1>4, <1>5

\* The products are made one in a cycle, from the cycle after the sample on.
LEMMA ElapsedNext ==
  ASSUME UInv, Edge, current_state' \in {"S_CAL", "S_SHIFT"}
  PROVE  \/ StreamWrites /\ waited = 0 /\ Elapsed' = 1
         \/ /\ current_state = "S_CAL" /\ Elapsed' = Elapsed + 1
            /\ Elapsed \in Nat
<1>1. current_state \in {"S_GET_DATA", "S_CAL"}
  BY EngineNext, Handshakes DEF States
<1>2. Main(Ports) /\ counter \in Nat
  BY DEF Edge, Clock, UInv, EInv, TypeOK
<1>3. CASE current_state = "S_GET_DATA"
  <2>1. StreamWrites /\ waited = 0
    BY <1>3, EngineNext
  <2>2. counter' = 0
    BY <1>2, <1>3 DEF Main, Idle, InitSram, GetData, Cal, Shift, Wait, WaitApDone
  <2> QED
    BY <2>1, <2>2 DEF Elapsed
<1>4. CASE current_state = "S_CAL"
  <2>1. counter' = counter + 1
    BY <1>2, <1>4 DEF Main, Idle, InitSram, GetData, Cal, Shift, Wait, WaitApDone
  <2> QED
    BY <1>2, <1>4, <2>1 DEF Elapsed
<1> QED
  BY <1>1, <1>3, <1>4

\* How many they are when the last one is made.
LEMMA ElapsedBound ==
  ASSUME UInv
  PROVE  /\ current_state = "S_CAL" => Elapsed \in 1 .. Tape_Num
         /\ current_state = "S_SHIFT" => Elapsed = Tape_Num + 1
         /\ Tape_Num \in Nat
<1>1. PipelineInStep /\ Tape_Num \in 2 .. 15
  BY FirAssumption DEF UInv, EInv
<1> QED
  BY <1>1 DEF PipelineInStep, Index, Elapsed

\* No move of the bus is faster than the delay.
LEMMA PaceStep ==
  ASSUME UInv, PaceInv, [UNext]_uvars
  PROVE  PaceInv'
<1>1. /\ RequestInv /\ DelayInv /\ waited \in Nat /\ DELAYS \in 3 .. 15
      /\ count \in 0 .. DELAYS
  BY UserProjectAssumption DEF UInv, DelayInv
<1>2. CASE Edge /\ Master
  <2>1. SUFFICES ASSUME current_state' \in {"S_CAL", "S_SHIFT"}
                 PROVE  /\ StreamWrites' => Elapsed' >= waited'
                        /\ cyc' = "none" =>
                             Elapsed' >= IF count' = 1 THEN DELAYS + 2 ELSE 2 * DELAYS + 4
                        /\ cyc' = "bram" =>
                             Elapsed' >= IF ready' THEN 2 * DELAYS + 3 ELSE DELAYS + 2 + count'
                        /\ axi_enable' /\ ~StreamWrites' =>
                             /\ Elapsed' >= DELAYS + 3 + waited'
                             /\ count' = waited' /\ ~ready' =>
                                  Elapsed' >= 2 * DELAYS + 5 + waited'
    BY DEF PaceInv
  <2>2. CASE StreamWrites /\ waited = 0 /\ Elapsed' = 1
    <3>1. Holds /\ ~MayWait
      BY <1>1, <1>2, <2>2, MasterMoves, KindsApart DEF Ends, Rests
    <3>2. StreamWrites' /\ waited' = 1 /\ cyc' = "axi"
      BY <1>1, <2>2, <3>1, KindHolds DEF Holds, axi_enable
    <3> QED
      BY <2>2, <3>2
  <2>3. CASE current_state = "S_CAL" /\ Elapsed' = Elapsed + 1 /\ Elapsed \in Nat
    <3>1. /\ StreamWrites => Elapsed >= waited
          /\ cyc = "none" => Elapsed >= IF count = 1 THEN DELAYS + 2 ELSE 2 * DELAYS + 4
          /\ cyc = "bram" => Elapsed >= IF ready THEN 2 * DELAYS + 3 ELSE DELAYS + 2 + count
          /\ axi_enable /\ ~StreamWrites =>
               /\ Elapsed >= DELAYS + 3 + waited
               /\ count = waited /\ ~ready => Elapsed >= 2 * DELAYS + 5 + waited
      BY <2>3 DEF PaceInv
    <3>2. /\ ready' <=> valid /\ ~ready /\ count = DELAYS
          /\ count' = IF valid /\ ~ready
                      THEN IF count = DELAYS THEN 0 ELSE count + 1
                      ELSE count
      BY <1>2, CountNext
    <3>3. CASE Holds
      <4>1. /\ axi_enable /\ valid /\ cyc' = "axi" /\ (StreamWrites' <=> StreamWrites)
            /\ waited' = IF waited > MaxWait THEN waited ELSE waited + 1
            /\ ~MayWait => waited' = waited + 1
            /\ ~axi_ack /\ MaxWait \in Nat /\ MaxWait > DELAYS
        BY <1>1, <3>3, KindHolds DEF Holds, axi_enable, valid, MaxWait
      <4>2. waited' \in Nat /\ (waited' = waited + 1 \/ (waited' = waited /\ waited > DELAYS))
        BY <1>1, <4>1
      <4>3. PICK w \in Nat : w = waited'
        BY <4>2
      <4>4. w = waited + 1 \/ (w = waited /\ waited > DELAYS)
        BY <4>2, <4>3
      <4>5. StreamWrites => Elapsed + 1 >= w
        BY <1>1, <2>3, <3>1, <4>4
      <4>6. ~StreamWrites => Elapsed + 1 >= DELAYS + 3 + w
        BY <1>1, <2>3, <3>1, <4>1, <4>4
      <4>7. ASSUME ~StreamWrites, count' = w, ~ready'
            PROVE  Elapsed + 1 >= 2 * DELAYS + 5 + w
        <5>1. CASE ready
          <6>1. count = 0 /\ waited >= DELAYS
            BY <1>1, <4>1, <5>1 DEF DelayInv
          <6>2. count' = 0 /\ w >= DELAYS
            BY <1>1, <3>2, <4>4, <5>1, <6>1
          <6> QED
            BY <1>1, <4>7, <6>2
        <5>2. CASE ~ready
          <6>1. count # DELAYS /\ count' = count + 1
            BY <3>2, <4>1, <4>7, <5>2
          <6>2. w = count + 1 /\ count < DELAYS
            BY <1>1, <4>7, <6>1
          <6>3. count = waited /\ w = waited + 1
            BY <1>1, <4>4, <6>2
          <6>4. Elapsed >= 2 * DELAYS + 5 + waited
            BY <3>1, <4>1, <4>7, <5>2, <6>3
          <6> QED
            BY <1>1, <2>3, <6>3, <6>4
        <5> QED
          BY <5>1, <5>2
      <4>8. cyc' # "none" /\ cyc' # "bram"
        BY <4>1
      <4> QED
        BY <2>3, <4>1, <4>3, <4>5, <4>6, <4>7, <4>8
    <3>4. CASE Ends
      <4>1. /\ axi_enable /\ axi_ack /\ valid /\ waited > DELAYS
            /\ cyc' = "none" /\ ~axi_enable'
        BY <3>4 DEF Ends, AccessEnds, NoRequest, axi_enable, valid
      <4>2. ~ready /\ count = 0
        BY <1>1, <4>1 DEF DelayInv
      <4>3. count' = 1
        BY <1>1, <3>2, <4>1, <4>2
      <4>4. Elapsed >= DELAYS + 1
        BY <1>1, <2>3, <3>1, <4>1
      <4>5. Elapsed + 1 >= DELAYS + 2
        BY <1>1, <2>3, <4>4
      <4>6. ~StreamWrites' /\ cyc' # "bram"
        BY <4>1 DEF StreamWrites
      <4> QED
        BY <2>3, <4>1, <4>3, <4>5, <4>6
    <3>5. CASE Rests
      <4>1. /\ ~axi_enable /\ waited' = 0 /\ cyc \in {"none", "bram"}
            /\ 2 * DELAYS \in Nat /\ DELAYS \in Nat
        BY <1>1, <3>5 DEF Rests, RequestInv, axi_enable
      <4>2. CASE cyc = "none"
        <5>1. ~ready /\ count \in {0, 1} /\ ~valid
          BY <1>1, <4>2 DEF DelayInv, valid, axi_enable, user_project_bram_enable
        <5>2. ~ready' /\ count' = count
          BY <3>2, <5>1
        <5>3. /\ Elapsed + 1 >= IF count = 1 THEN DELAYS + 2 ELSE 2 * DELAYS + 4
              /\ Elapsed + 1 >= DELAYS + 2 + count
              /\ Elapsed + 1 >= DELAYS + 3
              /\ count = 0 => Elapsed + 1 >= 2 * DELAYS + 5
              /\ Elapsed + 1 >= 0
          BY <1>1, <2>3, <3>1, <4>2, <5>1
        <5>4. DELAYS + 3 + 0 = DELAYS + 3 /\ 2 * DELAYS + 5 + 0 = 2 * DELAYS + 5
          BY <1>1
        <5> QED
          BY <2>3, <4>1, <5>2, <5>3, <5>4
      <4>3. CASE cyc = "bram"
        <5>1. cyc' \in {"none", "bram"} /\ (~ready => cyc' = "bram")
          BY <1>2, <4>3 DEF Master, MasterIdles, Fetch, FetchEnds, MasterWaits, AccessEnds,
                     Access, NoRequest, request, wbs_ack_o, user_project_bram_enable,
                     user_project_bram_ack, axi_enable
        <5>2. ~axi_enable' /\ ~StreamWrites' /\ valid
          BY <4>3, <5>1 DEF axi_enable, StreamWrites, valid, user_project_bram_enable
        <5>3. CASE ready
          <6>1. ~ready' /\ count' = 0
            BY <1>1, <3>2, <4>3, <5>3 DEF DelayInv
          <6>2. Elapsed + 1 >= 2 * DELAYS + 4 /\ Elapsed + 1 >= DELAYS + 2 + 0
            BY <1>1, <2>3, <3>1, <4>3, <5>3
          <6> QED
            BY <2>3, <5>1, <5>2, <6>1, <6>2
        <5>4. CASE ~ready /\ count = DELAYS
          <6>1. ready' /\ cyc' = "bram"
            BY <3>2, <5>1, <5>2, <5>4
          <6>2. Elapsed + 1 >= 2 * DELAYS + 3
            BY <1>1, <2>3, <3>1, <4>3, <5>4
          <6> QED
            BY <2>3, <5>2, <6>1, <6>2
        <5>5. CASE ~ready /\ count # DELAYS
          <6>1. ~ready' /\ cyc' = "bram" /\ count' = count + 1
            BY <3>2, <5>1, <5>2, <5>5
          <6>2. Elapsed + 1 >= DELAYS + 2 + (count + 1)
            BY <1>1, <2>3, <3>1, <4>3, <5>5
          <6> QED
            BY <2>3, <5>2, <6>1, <6>2
        <5> QED
          BY <5>3, <5>4, <5>5
      <4> QED
        BY <4>1, <4>2, <4>3
    <3> QED
      BY <1>2, <3>3, <3>4, <3>5, MasterMoves
  <2> QED
    BY <1>2, <2>1, <2>2, <2>3, ElapsedNext
<1>3. CASE UReset
  BY <1>3 DEF UReset, Reset, Init, PaceInv
<1>4. CASE UNCHANGED uvars
  <2>1. /\ UNCHANGED <<request, wrapper, waited>>
        /\ UNCHANGED <<fsmVars>>
    BY <1>4 DEF uvars, vars
  <2>2. /\ UNCHANGED <<cyc, we, adr, count, ready, waited, current_state, counter>>
    BY <2>1 DEF request, wrapper, fsmVars
  <2>3. axi_enable' = axi_enable /\ StreamWrites' = StreamWrites /\ Elapsed' = Elapsed
    BY <2>2 DEF axi_enable, StreamWrites, is_lite, Elapsed
  <2> QED
    BY <2>2, <2>3 DEF PaceInv
<1> QED
  BY <1>2, <1>3, <1>4 DEF UNext

\* The bus is at least a transaction behind the sample.
THEOREM PaceInvariance == USpec => []PaceInv
<1>1. UInit => PaceInv
  BY DEF UInit, Init, PaceInv
<1>2. UInv /\ PaceInv /\ [UNext]_uvars => PaceInv'
  BY PaceStep
<1> QED
  BY <1>1, <1>2, SlaveInvariance, PTL DEF USpec

\* An output that is awaited is there before the second pulse of ready.
LEMMA InTimeStep ==
  ASSUME Tape_Num <= 3 * DELAYS + 3, UInv, UInv', PaceInv, InTime, [UNext]_uvars
  PROVE  InTime'
<1>1. /\ RequestInv /\ DelayInv /\ ChannelInv /\ KnowledgeInv
      /\ waited \in Nat /\ DELAYS \in 3 .. 15 /\ count \in 0 .. DELAYS
  BY UserProjectAssumption DEF UInv, DelayInv
<1>2. CASE Edge /\ Master
  <2>1. SUFFICES ASSUME MayWait' PROVE InTime'
    BY DEF InTime
  <2>2. axi_enable' /\ ~(axi_enable' /\ ~MayWait')
    BY <2>1 DEF MayWait, StreamReads
  <2>3. CASE Rests
    <3>1. waited' = 0 /\ DelayInv'
      BY <1>2, <2>3, DelayStep DEF Rests
    <3>5. /\ count' \in 0 .. DELAYS
          /\ \/ ~ready' /\ ~axi_ack' /\ waited' >= count' - 1
             \/ waited' >= DELAYS
             \/ waited' > DELAYS
      BY <2>1, <3>1 DEF DelayInv
    <3>6. ~(0 >= DELAYS) /\ ~(0 > DELAYS)
      BY <1>1
    <3>2. ~ready' /\ ~axi_ack' /\ 0 >= count' - 1
      BY <3>1, <3>5, <3>6, Zenon
    <3>7. \A k \in 0 .. DELAYS : 0 >= k - 1 => k \in {0, 0 + 1}
      BY <1>1
    <3>3. PICK c \in 0 .. DELAYS : c = count'
      BY <3>5
    <3>4. c \in {0, 0 + 1}
      BY <3>2, <3>3, <3>7, Zenon
    <3> QED
      BY <3>1, <3>2, <3>3, <3>4 DEF InTime
  <2>4. CASE Holds
    <3>1. /\ MayWait /\ StreamReads /\ ~PollsForOutput /\ axi_enable /\ valid /\ ~axi_ack
          /\ waited' = IF waited > MaxWait THEN waited ELSE waited + 1
          /\ MaxWait = 2 * DELAYS + 3
      BY <2>1, <2>4, KindHolds, KindsApart DEF Holds, MaxWait, valid
    <3>2. /\ ready' <=> ~ready /\ count = DELAYS
          /\ count' = IF ~ready THEN IF count = DELAYS THEN 0 ELSE count + 1
                      ELSE count
          /\ axi_ack' <=> ready /\ HandshakeMade
      BY <1>2, <3>1, CountNext
    <3>3. HandshakeMade <=> sm_done
      <4>1. ~is_lite /\ ~ss_done
        BY <1>1, <3>1, KindsApart DEF ChannelInv
      <4> QED
        BY <4>1 DEF HandshakeMade
    <3>4. ready => count = 0
      BY <1>1, <3>1 DEF DelayInv
    <3>5. ~sm_done => current_state \in {"S_CAL", "S_SHIFT", "S_WAIT"}
      BY <1>1, <3>1, KindFacts DEF KnowledgeInv, CanFetch
    <3>6. sm_done' <=> sm_fire(Ports) \/ sm_done
      BY <1>2, <3>1, ChannelNext
    <3>7. ~sm_done' => current_state = "S_CAL" /\ Elapsed <= 3 * DELAYS + 3
      <4>1. ~sm_done' => current_state = "S_CAL"
        BY <3>1, <3>5, <3>6, Handshakes
      <4>2. current_state = "S_CAL" => Elapsed <= 3 * DELAYS + 3
        BY <1>1, ElapsedBound
      <4> QED
        BY <4>1, <4>2
    <3>8. current_state = "S_CAL" =>
            /\ Elapsed >= DELAYS + 3 + waited
            /\ count = waited /\ ~ready => Elapsed >= 2 * DELAYS + 5 + waited
      BY <3>1, KindsApart DEF PaceInv
    <3>9. \/ ~ready /\ count \in {waited, waited + 1}
          \/ ready /\ waited = DELAYS
          \/ ready /\ waited = DELAYS + 1 /\ sm_done
          \/ ~ready /\ waited = count + DELAYS + 1
          \/ ready /\ waited = 2 * DELAYS + 2 /\ sm_done
      BY <3>1 DEF InTime
    <3>10. waited' = waited + 1
      BY <1>1, <3>1, <3>9
    <3>11. PICK w \in Nat : w = waited' /\ w = waited + 1
      BY <1>1, <3>10
    <3>12. CASE ~ready /\ count # DELAYS
      <4>1. ~ready' /\ ~axi_ack' /\ count' = count + 1
        BY <3>2, <3>12
      <4>2. count + 1 \in {w, w + 1} \/ w = (count + 1) + DELAYS + 1
        BY <1>1, <3>9, <3>11, <3>12
      <4> QED
        BY <3>11, <4>1, <4>2 DEF InTime
    <3>13. CASE ~ready /\ count = DELAYS
      <4>1. ready' /\ ~axi_ack'
        BY <3>2, <3>13
      <4>2. CASE waited = DELAYS
        <5>1. sm_done'
          <6>1. SUFFICES ASSUME ~sm_done' PROVE FALSE
            OBVIOUS
          <6>2. /\ Elapsed <= 3 * DELAYS + 3
                /\ Elapsed >= 2 * DELAYS + 5 + DELAYS
            BY <3>7, <3>8, <3>13, <4>2, <6>1
          <6>3. PICK e \in Nat : e = Elapsed
            BY <3>7, <6>1, ElapsedBound
          <6> QED
            BY <1>1, <6>2, <6>3
        <5>2. w = DELAYS + 1
          BY <3>11, <4>2
        <5> QED
          BY <3>11, <4>1, <5>1, <5>2 DEF InTime
      <4>3. CASE waited + 1 = DELAYS
        BY <3>11, <4>1, <4>3 DEF InTime
      <4>4. CASE waited = DELAYS + DELAYS + 1
        <5>1. sm_done'
          <6>1. SUFFICES ASSUME ~sm_done' PROVE FALSE
            OBVIOUS
          <6>2. /\ Elapsed <= 3 * DELAYS + 3
                /\ Elapsed >= DELAYS + 3 + (DELAYS + DELAYS + 1)
            BY <3>7, <3>8, <4>4, <6>1
          <6>3. PICK e \in Nat : e = Elapsed
            BY <3>7, <6>1, ElapsedBound
          <6> QED
            BY <1>1, <6>2, <6>3
        <5>2. w = 2 * DELAYS + 2
          BY <1>1, <3>11, <4>4
        <5> QED
          BY <3>11, <4>1, <5>1, <5>2 DEF InTime
      <4> QED
        BY <1>1, <3>9, <3>13, <4>2, <4>3, <4>4
    <3>14. CASE ready
      <4>1. ~ready' /\ count' = 0 /\ (axi_ack' <=> sm_done)
        BY <3>2, <3>3, <3>4, <3>14
      <4>2. CASE sm_done
        <5>1. w \in {DELAYS + 1, DELAYS + 2} \/ w = 2 * DELAYS + 3
          BY <1>1, <3>9, <3>11, <3>14
        <5> QED
          BY <3>11, <4>1, <4>2, <5>1 DEF InTime
      <4>3. CASE ~sm_done
        <5>1. w = 0 + DELAYS + 1
          BY <1>1, <3>9, <3>11, <3>14, <4>3
        <5> QED
          BY <3>11, <4>1, <4>3, <5>1 DEF InTime
      <4> QED
        BY <4>2, <4>3
    <3> QED
      BY <3>12, <3>13, <3>14
  <2>5. ~Ends
    BY <2>2 DEF Ends, AccessEnds, NoRequest, axi_enable
  <2> QED
    BY <1>2, <2>3, <2>4, <2>5, MasterMoves
<1>3. CASE UReset
  BY <1>3 DEF UReset, NoRequest, InTime, MayWait, StreamReads, axi_enable
<1>4. CASE UNCHANGED uvars
  <2>1. UNCHANGED <<request, bridge, wrapper, waited>>
    BY <1>4 DEF uvars
  <2>2. UNCHANGED <<cyc, we, adr, count, ready, waited, axi_ack, sm_done>>
    BY <2>1 DEF request, wrapper, bridge
  <2>3. MayWait' = MayWait
    BY <2>2 DEF axi_enable, StreamReads, is_lite, MayWait
  <2> QED
    BY <2>2, <2>3 DEF InTime
<1> QED
  BY <1>2, <1>3, <1>4 DEF UNext

-----------------------------------------------------------------------------
(* What follows, if software polls for an output or the taps are few enough *)
(* for the delay.                                                           *)

\* Every access is over within two cycles of the delay, or of two delays and a
\* cycle for an output that is not polled for (user_project_interface.v), if
\* its products take at most three delays and three cycles.
THEOREM AckInTime ==
  ASSUME PollsForOutput \/ Tape_Num <= 3 * DELAYS + 3
  PROVE  USpec => []AnswersInTime
<1>1. UInv /\ (MayWait => InTime) => AnswersInTime
  <2> SUFFICES ASSUME UInv, MayWait => InTime PROVE waited <= MaxWait
    BY DEF AnswersInTime
  <2>1. DelayInv /\ DELAYS \in 3 .. 15 /\ waited \in Nat /\ count \in 0 .. DELAYS
    BY UserProjectAssumption DEF UInv, DelayInv
  <2>2. /\ MaxWait \in Nat /\ MaxWait >= DELAYS + 2
        /\ ~PollsForOutput => MaxWait = 2 * DELAYS + 3
    BY <2>1 DEF MaxWait
  <2>3. CASE axi_enable /\ ~MayWait
    <3>1. waited <= DELAYS + 2
      BY <2>1, <2>3 DEF DelayInv
    <3> QED
      BY <2>1, <2>2, <3>1
  <2>4. CASE MayWait
    <3>1. waited <= 2 * DELAYS + 3
      BY <2>1, <2>4 DEF InTime
    <3> QED
      BY <2>2, <2>4, <3>1, KindsApart
  <2>5. CASE ~axi_enable
    BY <2>1, <2>2, <2>5 DEF DelayInv
  <2> QED
    BY <2>3, <2>4, <2>5
<1>2. UInit => InTime
  BY DEF UInit, InTime, MayWait, StreamReads, axi_enable
<1>3. CASE PollsForOutput
  <2>1. UInv => AnswersInTime
    BY <1>1, <1>3, KindsApart
  <2> QED
    BY <2>1, SlaveInvariance, PTL
<1>4. CASE Tape_Num <= 3 * DELAYS + 3
  <2>1. UInv /\ UInv' /\ PaceInv /\ InTime /\ [UNext]_uvars => InTime'
    BY <1>4, InTimeStep
  <2>2. UInv /\ InTime => AnswersInTime
    BY <1>1
  <2> QED
    BY <1>2, <2>1, <2>2, SlaveInvariance, PaceInvariance, PTL DEF USpec
<1> QED
  BY <1>3, <1>4

\* The slave (user_project_axi.v, user_project_interface.v) and software
\* (fir_control.c) show the engine only cycles of its contract: taps and length
\* are written to an idle engine, a sample is sent when it is awaited and an
\* output fetched when it is offered.  That is so because software polls for
\* the output, or because the delay of an access is longer than the products
\* take (with one tap more, an unpolled output can come too early).
THEOREM ContractIsKept ==
  ASSUME PollsForOutput \/ Tape_Num <= DELAYS + 1
  PROVE  USpec => EngineContract
<1>1. UInv /\ PaceInv => PollsOutput(BusCycle)
  <2> SUFFICES ASSUME UInv, PaceInv PROVE PollsOutput(BusCycle)
    OBVIOUS
  <2>1. CASE PollsForOutput
    BY <2>1, ContractKept
  <2>2. CASE Tape_Num <= DELAYS + 1
    <3>1. BusCycle.sm_tready => StreamReads /\ ~sm_done
      BY KindsApart DEF BusCycle, Cycle
    <3>2. SUFFICES ASSUME StreamReads, ~sm_done PROVE current_state = "S_WAIT"
      BY <3>1 DEF PollsOutput
    <3>3. RequestInv /\ KnowledgeInv /\ waited \in Nat /\ DELAYS \in 3 .. 15
      BY UserProjectAssumption DEF UInv, DelayInv
    <3>4. current_state \in {"S_CAL", "S_SHIFT", "S_WAIT"}
      BY <3>2, <3>3, KindFacts, KindsApart DEF KnowledgeInv, CanFetch
    <3>5. current_state \in {"S_CAL", "S_SHIFT"} =>
            Elapsed >= DELAYS + 3 + waited /\ Elapsed <= DELAYS + 2 /\ Elapsed \in Nat
      BY <2>2, <3>2, <3>3, KindsApart, ElapsedBound DEF PaceInv
    <3> QED
      BY <3>3, <3>4, <3>5
  <2> QED
    BY <2>1, <2>2
<1>2. UInv /\ PaceInv /\ [UNext]_uvars => [Next]_vars
  BY <1>1, EngineStep
<1>3. UInit => Init
  BY DEF UInit
<1> QED
  BY <1>2, <1>3, SlaveInvariance, PaceInvariance, PTL DEF USpec, Spec, EngineContract

\* So every output that software can fetch over the bus is the convolution of
\* the samples sent with the taps, and the engine is a stream to it.
THEOREM RightBehindBus ==
  ASSUME PollsForOutput \/ Tape_Num <= DELAYS + 1
  PROVE  USpec => [](OutputsAreConvolutions /\ OfferIsComplete) /\ ImplementsStream
BY ContractIsKept, Correct, Refines, PTL DEF EngineContract

=============================================================================
