------------------------------ MODULE FirProofs ------------------------------
(***************************************************************************)
(* The FIR engine is right for every tape length, every set of samples,    *)
(* taps and lengths, and every content of the memories at power-up.        *)
(***************************************************************************)
EXTENDS Fir, SequenceTheorems, TLAPS

-----------------------------------------------------------------------------
(* Facts about the operators of the model.                                 *)

\* The register map: a tap's address decodes to its index, and to no other
\* register.
LEMMA TapAddrFacts ==
  ASSUME NEW k \in Index
  PROVE  /\ IsTap(TapAddr(k)) /\ WordOf(TapAddr(k)) = k
         /\ WordOf(TapAddr(k) % 64) = k
         /\ TapAddr(k) \in Nat /\ TapAddr(k) \notin {CtrlAddr, LenAddr}
         /\ ~IsTap(CtrlAddr) /\ ~IsTap(LenAddr)
<1>1. k \in 0 .. 14
  BY FirAssumption DEF Index
<1>2. /\ (64 + 4 * k) \div 64 = 1
      /\ (64 + 4 * k) % 64 = 4 * k /\ (4 * k) % 64 = 4 * k
  BY <1>1
<1>3. (4 * k) \div 4 = k
  BY <1>1
<1> QED
  BY <1>1, <1>2, <1>3 DEF IsTap, WordOf, TapAddr, CtrlAddr, LenAddr

\* What the inputs of a bus cycle are.
BusInputs ==
  [awvalid : BOOLEAN, awaddr : Nat, wdata : Words,
   arvalid : BOOLEAN, araddr : Nat, rready : BOOLEAN,
   ss_tvalid : BOOLEAN, ss_tdata : Words, sm_tready : BOOLEAN]

LEMMA BusCycleFacts ==
  ASSUME NEW in \in BusCycles
  PROVE  /\ in \in BusInputs
         /\ in.awvalid /\ in.awaddr = LenAddr => in.wdata \in Nat \ {0}
         /\ in.awvalid /\ in.awaddr = CtrlAddr => in.wdata \in {0, 1}
         /\ tap_WE(in) => /\ in.awaddr # CtrlAddr
                         /\ WordOf(in.awaddr) \in Index
         /\ in.arvalid /\ IsTap(in.araddr) => WordOf(in.araddr % 64) \in Index
         /\ in.ss_tvalid => in.ss_tdata \in Samples
<1>1. CASE in \in {Cycle(kind, 0, 0) : kind \in {"none", "wait", "fetch"}}
  <2>1. PICK kind \in {"none", "wait", "fetch"} : in = Cycle(kind, 0, 0)
    BY <1>1
  <2>2. in \in BusInputs
    BY <2>1 DEF Words, BusInputs, Cycle
  <2>3. ~in.awvalid /\ ~in.arvalid /\ ~in.ss_tvalid
    BY <2>1 DEF Cycle
  <2> QED
    BY <2>2, <2>3 DEF tap_WE
<1>2. CASE in \in {Cycle("write", CtrlAddr, w) : w \in {0, 1}}
  <2>1. PICK w \in {0, 1} : in = Cycle("write", CtrlAddr, w)
    BY <1>2
  <2>2. ~in.ss_tvalid
    BY <2>1 DEF Cycle
  <2> QED
    BY <2>1, <2>2 DEF Words, BusInputs, Cycle, tap_WE, CtrlAddr, LenAddr, IsTap
<1>3. CASE in \in {Cycle("write", LenAddr, n) : n \in Lengths}
  <2>1. PICK n \in Lengths : in = Cycle("write", LenAddr, n)
    BY <1>3
  <2>2. ~in.ss_tvalid
    BY <2>1 DEF Cycle
  <2> QED
    BY <2>1, <2>2, FirAssumption
       DEF Words, BusInputs, Cycle, tap_WE, CtrlAddr, LenAddr, IsTap
<1>4. CASE in \in {Cycle("write", TapAddr(k), t) : k \in Index, t \in Taps}
  <2>1. PICK k \in Index, t \in Taps : in = Cycle("write", TapAddr(k), t)
    BY <1>4
  <2>2. ~in.ss_tvalid
    BY <2>1 DEF Cycle
  <2> QED
    BY <2>1, <2>2, TapAddrFacts, FirAssumption DEF Words, BusInputs, Cycle, tap_WE
<1>5. CASE in \in {Cycle("read", a, 0) : a \in {CtrlAddr, LenAddr}
                                         \cup {TapAddr(k) : k \in Index}}
  <2>1. PICK a \in {CtrlAddr, LenAddr} \cup {TapAddr(k) : k \in Index} :
          in = Cycle("read", a, 0)
    BY <1>5
  <2>2. a \in Nat
    BY <2>1, TapAddrFacts DEF CtrlAddr, LenAddr
  <2>3. in \in BusInputs
    BY <2>1, <2>2 DEF Words, BusInputs, Cycle
  <2>4. ~in.awvalid /\ in.araddr = a /\ ~in.ss_tvalid
    BY <2>1 DEF Cycle
  <2>5. IsTap(a) => WordOf(a % 64) \in Index
    BY <2>1, TapAddrFacts DEF IsTap, CtrlAddr, LenAddr
  <2> QED
    BY <2>3, <2>4, <2>5 DEF tap_WE
<1>6. CASE in \in {Cycle("send", 0, d) : d \in Samples}
  <2>1. PICK d \in Samples : in = Cycle("send", 0, d)
    BY <1>6
  <2>2. in \in BusInputs
    BY <2>1, FirAssumption DEF Words, BusInputs, Cycle
  <2>3. ~in.awvalid /\ ~in.arvalid /\ in.ss_tdata = d
    BY <2>1 DEF Cycle
  <2> QED
    BY <2>1, <2>2, <2>3 DEF tap_WE
<1> QED
  BY <1>1, <1>2, <1>3, <1>4, <1>5, <1>6 DEF BusCycles

\* A sample, wherever it is looked up, is a word.
LEMMA NewestFacts ==
  ASSUME NEW a \in Seq(Words), NEW k \in Nat
  PROVE  /\ Newest(a, k) \in Words
         /\ Newest(<<>>, k) = 0
         /\ \A x \in Words :
              Newest(Append(a, x), k) = IF k = 0 THEN x ELSE Newest(a, k - 1)
<1>1. Newest(a, k) \in Words
  <2>1. CASE k < Len(a)
    <3>1. Len(a) - k \in 1 .. Len(a)
      BY <2>1
    <3> QED
      BY <2>1, <3>1, ElementOfSeq DEF Newest
  <2>2. CASE ~(k < Len(a))
    BY <2>2 DEF Newest, Words
  <2> QED
    BY <2>1, <2>2
<1>2. Newest(<<>>, k) = 0
  BY DEF Newest
<1>3. ASSUME NEW x \in Words
      PROVE  Newest(Append(a, x), k) = IF k = 0 THEN x ELSE Newest(a, k - 1)
  BY AppendProperties DEF Newest
<1> QED
  BY <1>1, <1>2, <1>3

\* The products of an output are well typed, and the next one extends them.
LEMMA ProductsFacts ==
  ASSUME NEW h \in [Index -> Words], NEW a \in Seq(Words), NEW n \in 0 .. LastIndex
  PROVE  /\ ProductsOf(h, a, n) \in Sums
         /\ ProductsOf(h, a, 0) = <<>>
         /\ Append(ProductsOf(h, a, n), <<Newest(a, n), h[n]>>)
              = ProductsOf(h, a, n + 1)
<1>. DEFINE P(m) == ProductsOf(h, a, m)
<1>1. n \in Nat /\ n \in Index
  BY FirAssumption DEF Index, LastIndex
<1>2. ASSUME NEW m \in 0 .. LastIndex + 1
      PROVE  /\ P(m) \in Sums /\ Len(P(m)) = m
             /\ \A i \in 1 .. m : P(m)[i] = <<Newest(a, i - 1), h[i - 1]>>
  <2>1. ASSUME NEW i \in 1 .. m
        PROVE  P(m)[i] = <<Newest(a, i - 1), h[i - 1]>> /\ P(m)[i] \in Words \X Words
    <3>1. i - 1 \in Nat /\ i - 1 \in Index
      BY FirAssumption DEF Index, LastIndex
    <3> QED
      BY <3>1, NewestFacts DEF ProductsOf
  <2>2. P(m) \in [1 .. m -> Words \X Words]
    BY <2>1 DEF ProductsOf
  <2>3. m \in Nat
    BY FirAssumption DEF LastIndex
  <2> QED
    BY <2>1, <2>2, <2>3, IsASeq, LenProperties DEF Sums
<1>3. P(0) = <<>>
  BY <1>2, FirAssumption, EmptySeq DEF LastIndex, Sums
<1>4. Append(P(n), <<Newest(a, n), h[n]>>) = P(n + 1)
  <2>. DEFINE e == <<Newest(a, n), h[n]>>
  <2>1. e \in Words \X Words
    BY <1>1, NewestFacts
  <2>2. P(n) \in Sums /\ Len(P(n)) = n /\ P(n + 1) \in Sums /\ Len(P(n + 1)) = n + 1
    BY <1>1, <1>2, FirAssumption DEF LastIndex
  <2>3. /\ Append(P(n), e) \in Sums
        /\ Len(Append(P(n), e)) = n + 1
        /\ \A i \in 1 .. n : Append(P(n), e)[i] = P(n)[i]
        /\ Append(P(n), e)[n + 1] = e
    BY <2>1, <2>2, AppendProperties DEF Sums
  <2>4. n + 1 \in 0 .. LastIndex + 1 /\ n \in 0 .. LastIndex + 1
    BY FirAssumption DEF LastIndex
  <2>5. /\ \A i \in 1 .. n + 1 : P(n + 1)[i] = <<Newest(a, i - 1), h[i - 1]>>
        /\ \A i \in 1 .. n : P(n)[i] = <<Newest(a, i - 1), h[i - 1]>>
    BY <2>4, <1>2
  <2>6. e = <<Newest(a, (n + 1) - 1), h[(n + 1) - 1]>>
    BY <1>1
  <2>. HIDE DEF e
  <2>7. ASSUME NEW i \in 1 .. n + 1
        PROVE  Append(P(n), e)[i] = P(n + 1)[i]
    <3>1. CASE i \in 1 .. n
      BY <3>1, <2>3, <2>5, <1>1
    <3>2. CASE i = n + 1
      <4>1. n + 1 \in 1 .. n + 1
        BY <1>1
      <4>2. P(n + 1)[n + 1] = e
        BY <4>1, <2>5, <2>6
      <4> QED
        BY <3>2, <4>2, <2>3
    <3>3. i \in 1 .. n \/ i = n + 1
      BY <1>1
    <3> QED
      BY <3>1, <3>2, <3>3
  <2>. DEFINE s == Append(P(n), e)  t == P(n + 1)
  <2>8. /\ s \in Seq(Words \X Words) /\ t \in Seq(Words \X Words)
        /\ Len(s) = Len(t) /\ \A i \in 1 .. Len(s) : s[i] = t[i]
    BY <2>2, <2>3, <2>7 DEF Sums
  <2>9. s = t
    <3>. HIDE DEF s, t
    <3> QED
      BY <2>8, SeqEqual, Zenon
  <2> QED
    BY <2>9 DEF e
<1> QED
  BY <1>2, <1>3, <1>4, <1>1, FirAssumption DEF LastIndex

\* A prefix does not change when the sequence grows.
LEMMA PrefixFacts ==
  ASSUME NEW S, NEW a \in Seq(S), NEW x \in S, NEW j \in 1 .. Len(a)
  PROVE  /\ SubSeq(Append(a, x), 1, j) = SubSeq(a, 1, j)
         /\ SubSeq(a, 1, j) \in Seq(S)
         /\ SubSeq(a, 1, Len(a)) = a
<1>. QED
  BY AppendProperties, SubSeqProperties, SubSeqFull

\* The circular buffer: the slots are distinct, consecutive, and move by one
\* when the newest place does.
LEMMA SlotFacts ==
  ASSUME NEW s \in Index, NEW k \in Index
  PROVE  /\ Slot(s, k) \in Index
         /\ Slot(s, 0) = s
         /\ k # 0 => Slot(s, k) # s
         /\ k # LastIndex =>
              Slot(s, k + 1) = IF Slot(s, k) = LastIndex THEN 0 ELSE Slot(s, k) + 1
         /\ k # 0 => Slot(IF s = 0 THEN LastIndex ELSE s - 1, k) = Slot(s, k - 1)
<1>. QED
  BY FirAssumption DEF Slot, Index, LastIndex

-----------------------------------------------------------------------------
(* Type correctness of a step.                                             *)

LEMMA ClockType ==
  ASSUME EInv, NEW in \in BusCycles, Contract(in), Clock(in)
  PROVE  TypeOK'
<1>. DEFINE cs == current_state
<1>1. TypeOK
  BY DEF EInv
<1>2. in \in BusInputs
  BY BusCycleFacts
<1>3. /\ current_state' \in States
      /\ counter' \in 0 .. Tape_Num
      /\ pattern_count' \in Nat
      /\ data_address_pointer' \in Index
      /\ data_address_saver' \in Index
  <2>1. Tape_Num \in Nat /\ Tape_Num > 1
    BY FirAssumption
  <2>2. CASE Idle
    BY <2>2, <2>1, <1>1 DEF Idle, TypeOK, States, Index
  <2>3. CASE InitSram
    <3>1. counter \in Index /\ data_address_pointer = counter
      BY <2>3 DEF EInv, PipelineInStep, InitSram
    <3> QED
      BY <2>3, <3>1, <2>1, <1>1 DEF InitSram, TypeOK, States, Index, LastIndex
  <2>4. CASE GetData(in)
    BY <2>4, <2>1, <1>1 DEF GetData, TypeOK, States, Index
  <2>5. CASE Cal
    <3>1. counter \in Index
      BY <2>5 DEF EInv, PipelineInStep, Cal
    <3> QED
      BY <2>5, <3>1, <2>1, <1>1 DEF Cal, TypeOK, States, Index, LastIndex
  <2>6. CASE Shift(in)
    BY <2>6, <2>1, <1>1
       DEF Shift, TakeOutput, TypeOK, States, Index, LastIndex
  <2>7. CASE Wait(in)
    BY <2>7, <2>1, <1>1 DEF Wait, TakeOutput, TypeOK, States, Index
  <2>8. CASE WaitApDone
    BY <2>8, <2>1, <1>1 DEF WaitApDone, TypeOK, States, Index
  <2> QED
    BY <2>2, <2>3, <2>4, <2>5, <2>6, <2>7, <2>8 DEF Clock, Main
<1>4. sram_valid_flag' \in BOOLEAN /\ cal_result' \in Sums
  BY <1>1, AppendProperties, EmptySeq DEF Clock, Accumulate, TypeOK, Sums
<1>5. ap_start' \in BOOLEAN /\ ap_done' \in BOOLEAN /\ ap_idle' \in BOOLEAN
  BY <1>1, <1>2 DEF Clock, Control, TypeOK, BusInputs
<1>6. length' \in Nat
  BY <1>1, <1>2, BusCycleFacts DEF Clock, Control, TypeOK
<1>7. awready' \in BOOLEAN /\ ss_tready' \in BOOLEAN
  BY <1>1, <1>2 DEF Clock, LiteWriteReady, StreamReady, TypeOK, BusInputs
<1>8. /\ arready' \in BOOLEAN /\ rvalid' \in BOOLEAN
      /\ axi_current_state' \in ReadStates
      /\ save_araddr' \in 0 .. 63
      /\ rdata' \in Words
  <2>1. Status \in Int
    BY DEF Status, Bit
  <2>2. ReadWord \in Words
    BY <1>1, <2>1 DEF ReadWord, TypeOK, Words
  <2>3. in.araddr \in Nat
    BY <1>2 DEF BusInputs
  <2>4. LiteReadNext(in) \in ReadStates
    BY <1>1 DEF LiteReadNext, ReadStates, TypeOK
  <2>5. LiteRead(in)
    BY DEF Clock
  <2>6. axi_current_state' \in ReadStates
    BY <2>4, <2>5 DEF LiteRead
  <2>7. save_araddr' \in 0 .. 63
    <3>1. \A a \in Nat : a % 64 \in 0 .. 63
      OBVIOUS
    <3>2. in.araddr % 64 \in 0 .. 63
      BY <2>3, <3>1
    <3>3. save_araddr' = in.araddr % 64 \/ save_araddr' = save_araddr
      BY <2>5 DEF LiteRead
    <3> QED
      BY <1>1, <3>2, <3>3 DEF TypeOK
  <2>8. rdata' \in Words
    BY <2>2, <2>5 DEF LiteRead, Words
  <2>9. arready' \in BOOLEAN /\ rvalid' \in BOOLEAN
    BY <2>5 DEF LiteRead
  <2> QED
    BY <2>6, <2>7, <2>8, <2>9
<1>9. /\ tap_ram' \in [Index -> Words] /\ tap_Do' \in Words
      /\ data_ram' \in [Index -> Words] /\ data_Do' \in Words
  <2>1. in.wdata \in Words /\ data_Di(in) \in Words
    BY <1>2 DEF BusInputs, data_Di, Words
  <2>2. tap_A(in) \in Index
    <3>1. axi_current_state = "AXI_READ_SRAM" => WordOf(save_araddr) \in Index
      BY DEF EInv, RunInStep
    <3>2. current_state = "S_CAL" => counter \in Index
      BY DEF EInv, PipelineInStep
    <3>3. 0 \in Index
      BY FirAssumption DEF Index
    <3> QED
      BY <3>1, <3>2, <3>3, BusCycleFacts DEF tap_A
  <2> QED
    BY <1>1, <2>1, <2>2 DEF Clock, TapRam, DataRam, TypeOK
<1>10. accepted' \in Seq(Words) /\ emitted' \in Seq(Sums)
  <2>1. Record(in)
    BY DEF Clock
  <2>2. /\ <<>> \in Seq(Words) /\ <<>> \in Seq(Sums)
        /\ Append(accepted, in.ss_tdata) \in Seq(Words)
        /\ Append(emitted, cal_result) \in Seq(Sums)
    BY <1>1, <1>2, AppendProperties, EmptySeq DEF TypeOK, BusInputs
  <2> QED
    BY <1>1, <2>1, <2>2 DEF Record, TypeOK, sm_tdata
<1> QED
  BY <1>3, <1>4, <1>5, <1>6, <1>7, <1>8, <1>9, <1>10 DEF TypeOK

-----------------------------------------------------------------------------
(* What a step of a run changes.                                           *)

\* During a run the configuration is fixed, the tap memory is read only by
\* the computation, and samples and outputs are taken in one state each.
LEMMA RunningStep ==
  ASSUME EInv, NEW in \in BusCycles, Contract(in), Clock(in),
         current_state # "S_IDLE"
  PROVE  /\ tap_ram' = tap_ram /\ length' = length
         /\ current_state = "S_CAL" => tap_Do' = tap_ram[counter]
         /\ axi_current_state' # "AXI_READ_SRAM"
         /\ accepted' = IF current_state = "S_GET_DATA" /\ in.ss_tvalid
                        THEN Append(accepted, in.ss_tdata) ELSE accepted
         /\ emitted' = IF sm_fire(in) THEN Append(emitted, cal_result) ELSE emitted
         /\ sm_fire(in) <=> current_state \in {"S_SHIFT", "S_WAIT"} /\ in.sm_tready
<1>1. ~tap_WE(in) /\ (in.awvalid => in.awaddr = CtrlAddr)
  BY BusCycleFacts DEF Contract, tap_WE
<1>2. axi_current_state # "AXI_READ_SRAM"
  BY DEF EInv, RunInStep
<1>3. tap_ram' = tap_ram /\ (current_state = "S_CAL" => tap_Do' = tap_ram[counter])
  BY <1>1, <1>2 DEF Clock, TapRam, tap_A
<1>4. length' = length
  BY <1>1 DEF Clock, Control, CtrlAddr, LenAddr
<1>5. axi_current_state' # "AXI_READ_SRAM"
  <2>1. in.arvalid => ~IsTap(in.araddr)
    BY DEF Contract
  <2>2. axi_current_state \in ReadStates
    BY DEF EInv, TypeOK
  <2> QED
    BY <1>2, <2>1, <2>2 DEF Clock, LiteRead, LiteReadNext, ReadStates
<1>6. ss_fire(in) <=> current_state = "S_GET_DATA" /\ in.ss_tvalid
  BY DEF ss_fire, Contract, EInv, RunInStep
<1>7. sm_fire(in) <=> current_state \in {"S_SHIFT", "S_WAIT"} /\ in.sm_tready
  BY DEF sm_fire, sm_tvalid
<1> QED
  BY <1>3, <1>4, <1>5, <1>6, <1>7 DEF Clock, Record, sm_tdata

-----------------------------------------------------------------------------
(* The flow of samples and outputs.                                        *)

LEMMA FlowStep ==
  ASSUME EInv, NEW in \in BusCycles, Contract(in), Clock(in)
  PROVE  OneOutputPerSample' /\ DoneMeansAll' /\ RunInStep'
<1>1. TypeOK /\ OneOutputPerSample /\ DoneMeansAll /\ RunInStep
  BY DEF EInv
<1>2. in \in BusInputs
  BY BusCycleFacts
<1>3. /\ Len(accepted) \in Nat /\ Len(emitted) \in Nat
      /\ Len(Append(accepted, in.ss_tdata)) = Len(accepted) + 1
      /\ Len(Append(emitted, cal_result)) = Len(emitted) + 1
  BY <1>1, <1>2, LenProperties, AppendProperties DEF TypeOK, BusInputs
<1>4. length \in Nat /\ pattern_count \in Nat
  BY <1>1 DEF TypeOK
<1>5. ss_tready' <=> current_state = "S_GET_DATA" /\ ~in.ss_tvalid
  BY DEF Clock, StreamReady
<1>6. /\ ap_done' => current_state = "S_WAIT_AP_DONE"
                     \/ (ap_done /\ current_state # "S_IDLE")
      /\ ap_idle' => ~ap_start /\ (ap_idle \/ current_state = "S_WAIT_AP_DONE")
  BY DEF Clock, Control
<1>7. CASE Idle
  <2>1. current_state = "S_IDLE" /\ ~ss_tready /\ pattern_count' = 0
    BY <1>1, <1>7 DEF Idle, RunInStep
  <2>2. accepted' = <<>> /\ emitted' = <<>>
    BY <2>1 DEF Clock, Record
  <2>3. Len(accepted') = 0 /\ Len(emitted') = 0
    BY <2>2
  <2>4. current_state' = IF ap_start THEN "S_INIT_SRAM" ELSE "S_IDLE"
    BY <1>7 DEF Idle
  <2>5. ap_start' \/ current_state' # "S_IDLE" => length' > 0
    <3>1. CASE in.awvalid /\ in.awaddr = LenAddr
      <4>1. length' = in.wdata
        BY <3>1 DEF Clock, Control
      <4> QED
        BY <3>1, <4>1, BusCycleFacts
    <3>2. CASE ~(in.awvalid /\ in.awaddr = LenAddr)
      <4>1. length' = length
        BY <3>2 DEF Clock, Control
      <4>2. ap_start' => ap_start \/ (/\ in.awvalid /\ in.awaddr = CtrlAddr
                                     /\ in.wdata % 2 = 1)
        BY DEF Clock, Control
      <4>3. in.awvalid /\ in.awaddr = CtrlAddr /\ in.wdata % 2 = 1 => length # 0
        <5>1. in.awvalid /\ in.awaddr = CtrlAddr => in.wdata \in {0, 1}
          BY BusCycleFacts
        <5>2. 0 % 2 # 1
          OBVIOUS
        <5> QED
          BY <5>1, <5>2 DEF Contract
      <4>4. ap_start \/ length # 0 => length > 0
        BY <1>1, <1>4 DEF RunInStep
      <4> QED
        BY <4>1, <4>2, <4>3, <4>4, <2>4
    <3> QED
      BY <3>1, <3>2
  <2>6. axi_current_state' = "AXI_READ_SRAM" =>
          current_state' = "S_IDLE" /\ WordOf(save_araddr') \in Index
    <3>1. axi_current_state \in ReadStates
      BY <1>1 DEF TypeOK
    <3>2. axi_current_state' = "AXI_READ_SRAM" =>
            in.arvalid /\ IsTap(in.araddr)
      BY <3>1 DEF Clock, LiteRead, LiteReadNext, ReadStates
    <3>3. in.arvalid => save_araddr' = in.araddr % 64
      BY DEF Clock, LiteRead
    <3>4. in.arvalid /\ IsTap(in.araddr) => ~ap_start
      BY DEF Contract
    <3> QED
      BY <3>2, <3>3, <3>4, <2>4, BusCycleFacts
  <2>7. length' \in Nat
    BY ClockType DEF TypeOK
  <2>8. OneOutputPerSample'
    BY <2>1, <2>3, <2>4, <2>5, <2>7, <1>5 DEF OneOutputPerSample, Bit
  <2>9. DoneMeansAll'
    BY <2>1, <2>4, <1>6 DEF DoneMeansAll, Running
  <2>10. RunInStep'
    BY <2>1, <2>3, <2>4, <2>5, <2>6, <2>7, <1>5, <1>6 DEF RunInStep, WordOf
  <2> QED
    BY <2>8, <2>9, <2>10
<1>8. CASE current_state # "S_IDLE"
  <2>1. /\ length' = length /\ axi_current_state' # "AXI_READ_SRAM"
        /\ Len(accepted') = IF current_state = "S_GET_DATA" /\ in.ss_tvalid
                            THEN Len(accepted) + 1 ELSE Len(accepted)
        /\ Len(emitted') = IF sm_fire(in) THEN Len(emitted) + 1 ELSE Len(emitted)
    BY <1>8, <1>3, RunningStep
  <2>2. sm_fire(in) <=> current_state \in {"S_SHIFT", "S_WAIT"} /\ in.sm_tready
    BY <1>8, RunningStep
  <2>3. length > 0
    BY <1>1, <1>8 DEF RunInStep
  <2>4. CASE InitSram
    BY <2>4, <2>1, <2>2, <2>3, <1>1, <1>3, <1>4, <1>5, <1>6
       DEF InitSram, OneOutputPerSample, DoneMeansAll, RunInStep, Running, Bit
  <2>5. CASE GetData(in)
    BY <2>5, <2>1, <2>2, <2>3, <1>1, <1>3, <1>4, <1>5, <1>6
       DEF GetData, OneOutputPerSample, DoneMeansAll, RunInStep, Running, Bit
  <2>6. CASE Cal
    BY <2>6, <2>1, <2>2, <2>3, <1>1, <1>3, <1>4, <1>5, <1>6
       DEF Cal, OneOutputPerSample, DoneMeansAll, RunInStep, Running, Bit
  <2>7. CASE Shift(in) \/ Wait(in)
    <3>1. /\ current_state \in {"S_SHIFT", "S_WAIT"}
          /\ Len(accepted) = Len(emitted) + 1
          /\ pattern_count = Len(emitted) /\ Len(accepted) <= length
      BY <2>7, <1>1 DEF Shift, Wait, OneOutputPerSample, Bit
    <3>2. ~ap_done' /\ ~ap_idle' /\ ~ss_tready'
      BY <3>1, <1>1, <1>5, <1>6 DEF RunInStep, DoneMeansAll, Running
    <3>3. CASE ~in.sm_tready
      <4>1. current_state' = "S_WAIT" /\ pattern_count' = pattern_count
        BY <2>7, <2>2, <3>3 DEF Shift, Wait, TakeOutput
      <4> QED
        BY <4>1, <3>1, <3>2, <3>3, <2>1, <2>2, <2>3
           DEF OneOutputPerSample, DoneMeansAll, RunInStep, Bit
    <3>4. CASE in.sm_tready
      <4>1. /\ pattern_count' = pattern_count + 1
            /\ current_state' = IF pattern_count = length - 1
                                THEN "S_WAIT_AP_DONE" ELSE "S_GET_DATA"
        BY <2>7, <2>2, <3>1, <3>4 DEF Shift, Wait, TakeOutput, LastOutput
      <4>2. pattern_count # length - 1 => Len(accepted) < length
        BY <3>1, <1>3, <1>4
      <4> QED
        BY <4>1, <4>2, <3>1, <3>2, <3>4, <2>1, <2>2, <2>3, <1>3, <1>4
           DEF OneOutputPerSample, DoneMeansAll, RunInStep, Bit
    <3> QED
      BY <3>3, <3>4
  <2>8. CASE WaitApDone
    BY <2>8, <2>1, <2>2, <2>3, <1>1, <1>3, <1>4, <1>5, <1>6
       DEF WaitApDone, OneOutputPerSample, DoneMeansAll, RunInStep, Running, Bit
  <2> QED
    BY <1>8, <2>4, <2>5, <2>6, <2>7, <2>8 DEF Clock, Main, Idle
<1> QED
  BY <1>7, <1>8 DEF Clock, Main, Idle, InitSram, GetData, Cal, Shift, Wait,
                    WaitApDone

-----------------------------------------------------------------------------
(* The data memory.                                                        *)

LEMMA BufferStep ==
  ASSUME EInv, NEW in \in BusCycles, Contract(in), Clock(in)
  PROVE  BufferHoldsSamples'
<1>1. TypeOK /\ BufferHoldsSamples /\ PipelineInStep
  BY DEF EInv
<1>2. in \in BusInputs
  BY BusCycleFacts
<1>3. /\ data_address_saver \in Index /\ data_address_pointer \in Index
      /\ data_ram \in [Index -> Words] /\ accepted \in Seq(Words)
      /\ in.ss_tdata \in Words /\ LastIndex \in Index
      /\ Index \subseteq Nat
  BY <1>1, <1>2, FirAssumption DEF TypeOK, BusInputs, Index, LastIndex
<1>4. data_ram' = IF data_WE
                  THEN [data_ram EXCEPT ![data_address_pointer] = data_Di(in)]
                  ELSE data_ram
  BY DEF Clock, DataRam
<1>5. CASE Idle
  <2>1. current_state' \in {"S_IDLE", "S_INIT_SRAM"} /\ counter' = 0
    BY <1>5 DEF Idle
  <2>2. \A j \in Index : ~(j < counter')
    BY <2>1 DEF Index
  <2> QED
    BY <2>1, <2>2 DEF BufferHoldsSamples
<1>6. CASE InitSram
  <2>1. /\ current_state = "S_INIT_SRAM" /\ data_address_saver' = 0
        /\ counter' = counter + 1
        /\ current_state' = IF counter = LastIndex THEN "S_GET_DATA"
                            ELSE "S_INIT_SRAM"
    BY <1>6 DEF InitSram
  <2>2. data_ram' = [data_ram EXCEPT ![counter] = 0] /\ counter \in Index
    BY <2>1, <1>1, <1>4 DEF data_WE, data_Di, PipelineInStep
  <2>3. \A j \in Index : j < counter + 1 => data_ram'[j] = 0
    BY <2>1, <2>2, <1>1, <1>3 DEF BufferHoldsSamples
  <2>4. accepted' = <<>>
    BY <2>1, <1>1, RunningStep DEF PipelineInStep
  <2>5. ASSUME counter = LastIndex, NEW k \in 1 .. LastIndex
        PROVE  data_ram'[Slot(0, k)] = Newest(<<>>, k - 1)
    <3>1. k - 1 \in Nat /\ k \in Index /\ 0 \in Index
      BY FirAssumption DEF Index, LastIndex
    <3>2. Slot(0, k) \in Index /\ Slot(0, k) < counter + 1
      BY <2>5, <3>1, SlotFacts, FirAssumption DEF Index, LastIndex
    <3> QED
      BY <3>1, <3>2, <2>3, NewestFacts, <1>3
  <2> QED
    BY <2>1, <2>3, <2>4, <2>5 DEF BufferHoldsSamples, Slot
<1>7. CASE GetData(in)
  <2>1. /\ current_state = "S_GET_DATA"
        /\ data_address_saver' = data_address_saver
        /\ current_state' = IF in.ss_tvalid THEN "S_CAL" ELSE "S_GET_DATA"
    BY <1>7 DEF GetData
  <2>2. data_ram' = [data_ram EXCEPT ![data_address_saver] = in.ss_tdata]
    BY <2>1, <1>1, <1>4 DEF data_WE, data_Di, PipelineInStep
  <2>3. accepted' = IF in.ss_tvalid THEN Append(accepted, in.ss_tdata) ELSE accepted
    BY <2>1, RunningStep
  <2>4. ASSUME NEW k \in 1 .. LastIndex
        PROVE  /\ k \in Index /\ k # 0 /\ Slot(data_address_saver, k) \in Index
               /\ data_ram'[Slot(data_address_saver, k)] = Newest(accepted, k - 1)
    <3>1. k \in Index /\ k # 0
      BY FirAssumption DEF Index, LastIndex
    <3>2. /\ Slot(data_address_saver, k) \in Index
          /\ Slot(data_address_saver, k) # data_address_saver
      BY <3>1, <1>3, SlotFacts
    <3>3. data_ram[Slot(data_address_saver, k)] = Newest(accepted, k - 1)
      BY <2>1, <1>1 DEF BufferHoldsSamples
    <3> QED
      BY <3>1, <3>2, <3>3, <2>2, <1>3
  <2>5. ASSUME in.ss_tvalid, NEW k \in Index
        PROVE  data_ram'[Slot(data_address_saver, k)] = Newest(accepted', k)
    <3>1. accepted' = Append(accepted, in.ss_tdata) /\ k \in Nat
      BY <2>3, <2>5, <1>3
    <3>2. Newest(accepted', k) = IF k = 0 THEN in.ss_tdata
                                 ELSE Newest(accepted, k - 1)
      BY <3>1, <1>3, NewestFacts
    <3>3. CASE k = 0
      <4>1. Slot(data_address_saver, 0) = data_address_saver
        BY <3>3, <1>3, SlotFacts
      <4> QED
        BY <4>1, <3>2, <3>3, <2>2, <1>3
    <3>4. CASE k # 0
      <4>1. k \in 1 .. LastIndex
        BY <3>4 DEF Index, LastIndex
      <4> QED
        BY <4>1, <2>4, <3>2, <3>4
    <3> QED
      BY <3>3, <3>4
  <2> QED
    BY <2>1, <2>3, <2>4, <2>5 DEF BufferHoldsSamples, Slot
<1>8. CASE Cal
  <2>1. /\ current_state = "S_CAL" /\ current_state' \in {"S_CAL", "S_SHIFT"}
        /\ data_address_saver' = data_address_saver
    BY <1>8 DEF Cal
  <2>2. data_ram' = data_ram /\ accepted' = accepted
    BY <2>1, <1>4, RunningStep DEF data_WE
  <2> QED
    BY <2>1, <2>2, <1>1 DEF BufferHoldsSamples, Slot
<1>9. CASE Shift(in)
  <2>1. /\ current_state = "S_SHIFT"
        /\ data_address_saver' = IF data_address_saver = 0 THEN LastIndex
                                 ELSE data_address_saver - 1
        /\ current_state' \in {"S_WAIT", "S_GET_DATA", "S_WAIT_AP_DONE"}
    BY <1>9 DEF Shift, TakeOutput
  <2>2. data_ram' = data_ram /\ accepted' = accepted
    BY <2>1, <1>4, RunningStep DEF data_WE
  <2>3. ASSUME NEW k \in 1 .. LastIndex
        PROVE  data_ram'[Slot(data_address_saver', k)] = Newest(accepted', k - 1)
    <3>1. k \in Index /\ k # 0 /\ k - 1 \in Index
      BY FirAssumption DEF Index, LastIndex
    <3>2. Slot(data_address_saver', k) = Slot(data_address_saver, k - 1)
      BY <3>1, <2>1, <1>3, SlotFacts
    <3>3. data_ram[Slot(data_address_saver, k - 1)] = Newest(accepted, k - 1)
      BY <3>1, <2>1, <1>1 DEF BufferHoldsSamples
    <3> QED
      BY <3>2, <3>3, <2>2
  <2> QED
    BY <2>1, <2>3 DEF BufferHoldsSamples, Slot
<1>10. CASE Wait(in)
  <2>1. /\ current_state = "S_WAIT" /\ data_address_saver' = data_address_saver
        /\ current_state' \in {"S_WAIT", "S_GET_DATA", "S_WAIT_AP_DONE"}
    BY <1>10 DEF Wait, TakeOutput
  <2>2. data_ram' = data_ram /\ accepted' = accepted
    BY <2>1, <1>4, RunningStep DEF data_WE
  <2> QED
    BY <2>1, <2>2, <1>1 DEF BufferHoldsSamples, Slot
<1>11. CASE WaitApDone
  BY <1>11 DEF WaitApDone, BufferHoldsSamples
<1> QED
  BY <1>5, <1>6, <1>7, <1>8, <1>9, <1>10, <1>11 DEF Clock, Main

-----------------------------------------------------------------------------
(* The pipeline from the memories to the accumulator.                      *)

\* The product accumulated at the end of a cycle is the next one due.
LEMMA NextProduct ==
  ASSUME TypeOK, PipelineInStep, Accumulate,
         current_state \in {"S_CAL", "S_SHIFT"}
  PROVE  cal_result' = ProductsOf(tap_ram, accepted, counter)
<1>1. /\ accepted \in Seq(Words) /\ tap_ram \in [Index -> Words]
      /\ counter \in 0 .. Tape_Num
  BY DEF TypeOK
<1>2. CASE counter = 0
  <2>1. current_state = "S_CAL" /\ ~sram_valid_flag
    BY <1>2, FirAssumption DEF PipelineInStep
  <2> QED
    BY <2>1, <1>2 DEF Accumulate, PipelineInStep
<1>3. CASE counter > 0
  <2>1. sram_valid_flag
    BY <1>3 DEF PipelineInStep
  <2>2. /\ cal_result = ProductsOf(tap_ram, accepted, counter - 1)
        /\ data_Do = Newest(accepted, counter - 1)
        /\ tap_Do = tap_ram[counter - 1]
    BY <2>1, <1>3, FirAssumption DEF PipelineInStep, LastIndex
  <2>3. counter - 1 \in 0 .. LastIndex /\ (counter - 1) + 1 = counter
    BY <1>1, <1>3, FirAssumption DEF LastIndex
  <2>4. Append(ProductsOf(tap_ram, accepted, counter - 1),
               <<Newest(accepted, counter - 1), tap_ram[counter - 1]>>)
          = ProductsOf(tap_ram, accepted, counter)
    BY <2>3, <1>1, ProductsFacts
  <2> QED
    BY <2>1, <2>2, <2>4 DEF Accumulate
<1> QED
  BY <1>1, <1>2, <1>3

LEMMA PipelineStep ==
  ASSUME EInv, NEW in \in BusCycles, Contract(in), Clock(in)
  PROVE  PipelineInStep'
<1>1. TypeOK /\ BufferHoldsSamples /\ PipelineInStep
  BY DEF EInv
<1>2. Accumulate /\ (sram_valid_flag' <=> current_state = "S_CAL")
  BY DEF Clock, Accumulate
<1>3. /\ data_address_saver \in Index /\ accepted \in Seq(Words)
      /\ tap_ram \in [Index -> Words] /\ Tape_Num \in 2 .. 15
  BY <1>1, FirAssumption DEF TypeOK
<1>4. CASE Idle
  <2>1. /\ current_state = "S_IDLE" /\ counter' = 0 /\ data_address_pointer' = 0
        /\ current_state' \in {"S_IDLE", "S_INIT_SRAM"}
        /\ pattern_count' = pattern_count
    BY <1>4 DEF Idle
  <2>2. accepted' = <<>> /\ emitted' = <<>> /\ pattern_count = 0
    BY <2>1 DEF Clock, Record, EInv, RunInStep
  <2>3. 0 \in Index
    BY <1>3 DEF Index
  <2> QED
    BY <2>1, <2>2, <2>3, <1>2 DEF PipelineInStep
<1>5. CASE InitSram
  <2>1. /\ current_state = "S_INIT_SRAM" /\ data_address_saver' = 0
        /\ counter' = counter + 1
        /\ pattern_count' = pattern_count
    BY <1>5 DEF InitSram
  <2>2. /\ counter \in Index /\ data_address_pointer = counter
        /\ counter > 0 => data_address_saver = 0
        /\ accepted = <<>> /\ emitted = <<>> /\ pattern_count = 0
    BY <2>1, <1>1 DEF PipelineInStep
  <2>3. accepted' = accepted /\ emitted' = emitted
    BY <2>1, RunningStep
  <2>4. CASE counter = LastIndex
    BY <2>1, <2>2, <2>4, <1>2, <1>3, <1>5
       DEF InitSram, PipelineInStep, LastIndex
  <2>5. CASE counter # LastIndex
    <3>1. current_state' = "S_INIT_SRAM" /\ data_address_pointer' = counter'
      BY <2>1, <2>2, <2>5, <1>5 DEF InitSram
    <3>2. counter' \in Index
      BY <2>1, <2>2, <2>5, <1>3 DEF Index, LastIndex
    <3> QED
      BY <3>1, <3>2, <2>1, <2>2, <2>3, <1>2 DEF PipelineInStep
  <2> QED
    BY <2>4, <2>5
<1>6. CASE GetData(in)
  <2>1. /\ current_state = "S_GET_DATA" /\ counter' = 0
        /\ current_state' = IF in.ss_tvalid THEN "S_CAL" ELSE "S_GET_DATA"
        /\ data_address_saver' = data_address_saver
        /\ data_address_pointer' = data_address_saver
    BY <1>6, <1>1 DEF GetData, PipelineInStep
  <2>2. cal_result' = <<>>
    BY <2>1, <1>1, <1>2 DEF PipelineInStep, Accumulate
  <2>3. 0 \in Index /\ Slot(data_address_saver, 0) = data_address_saver
    BY <1>3, SlotFacts DEF Index
  <2>4. in.ss_tvalid => accepted' \in Seq(Words)
    BY ClockType DEF TypeOK
  <2>5. tap_ram' = tap_ram /\ 0 \in 0 .. LastIndex
    BY <2>1, <1>3, RunningStep DEF LastIndex
  <2>6. in.ss_tvalid => ProductsOf(tap_ram', accepted', 0) = <<>>
    BY <2>4, <2>5, <1>3, ProductsFacts
  <2> QED
    BY <2>1, <2>2, <2>3, <2>6, <1>2 DEF PipelineInStep, Slot
<1>7. CASE Cal
  <2>1. /\ current_state = "S_CAL" /\ counter' = counter + 1
        /\ current_state' = IF counter = LastIndex THEN "S_SHIFT" ELSE "S_CAL"
        /\ data_address_saver' = data_address_saver
        /\ data_address_pointer' = IF data_address_pointer = LastIndex THEN 0
                                   ELSE data_address_pointer + 1
    BY <1>7 DEF Cal
  <2>2. counter \in Index /\ data_address_pointer = Slot(data_address_saver, counter)
    BY <2>1, <1>1 DEF PipelineInStep
  <2>3. /\ tap_ram' = tap_ram /\ accepted' = accepted
        /\ tap_Do' = tap_ram[counter]
    BY <2>1, RunningStep
  <2>4. cal_result' = ProductsOf(tap_ram', accepted', counter)
    BY <2>1, <2>3, <1>1, <1>2, NextProduct
  <2>5. data_Do' = Newest(accepted', counter)
    <3>1. data_Do' = data_ram[data_address_pointer]
      BY <2>1 DEF Clock, DataRam, data_WE
    <3> QED
      BY <3>1, <2>1, <2>2, <2>3, <1>1 DEF BufferHoldsSamples
  <2>6. counter' > 0 /\ counter' - 1 = counter /\ counter' # 0
    BY <2>1, <2>2 DEF Index
  <2>7. CASE counter = LastIndex
    <3>1. counter' = Tape_Num /\ current_state' = "S_SHIFT"
      BY <2>1, <2>7, <1>3 DEF LastIndex
    <3> QED
      BY <3>1, <2>1, <2>3, <2>4, <2>5, <2>6, <2>7, <1>2 DEF PipelineInStep
  <2>8. CASE counter # LastIndex
    <3>1. counter' \in Index /\ current_state' = "S_CAL"
      BY <2>1, <2>2, <2>8, <1>3 DEF Index, LastIndex
    <3>2. data_address_pointer' = Slot(data_address_saver', counter')
      BY <2>1, <2>2, <2>8, <1>3, SlotFacts
    <3> QED
      BY <3>1, <3>2, <2>1, <2>3, <2>4, <2>5, <2>6, <1>2
         DEF PipelineInStep, Slot
  <2> QED
    BY <2>7, <2>8
<1>8. CASE Shift(in)
  <2>1. /\ current_state = "S_SHIFT" /\ data_address_pointer' = data_address_saver'
        /\ current_state' \in {"S_WAIT", "S_GET_DATA", "S_WAIT_AP_DONE"}
    BY <1>8 DEF Shift, TakeOutput
  <2> QED
    BY <2>1, <1>2 DEF PipelineInStep
<1>9. CASE Wait(in)
  <2>1. /\ current_state = "S_WAIT"
        /\ data_address_pointer' = data_address_pointer
        /\ data_address_saver' = data_address_saver
        /\ current_state' \in {"S_WAIT", "S_GET_DATA", "S_WAIT_AP_DONE"}
    BY <1>9 DEF Wait, TakeOutput
  <2> QED
    BY <2>1, <1>1, <1>2 DEF PipelineInStep
<1>10. CASE WaitApDone
  <2>1. current_state = "S_WAIT_AP_DONE" /\ current_state' \in {"S_IDLE", "S_WAIT_AP_DONE"}
    BY <1>10 DEF WaitApDone
  <2> QED
    BY <2>1, <1>2 DEF PipelineInStep
<1> QED
  BY <1>4, <1>5, <1>6, <1>7, <1>8, <1>9, <1>10 DEF Clock, Main

-----------------------------------------------------------------------------
(* The outputs.                                                            *)

\* The products before the last one.
LEMMA AllButLast ==
  ASSUME NEW h \in [Index -> Words], NEW a \in Seq(Words)
  PROVE  SubSeq(ProductsOf(h, a, Tape_Num), 1, LastIndex) = ProductsOf(h, a, LastIndex)
<1>. DEFINE p == ProductsOf(h, a, LastIndex)
            e == <<Newest(a, LastIndex), h[LastIndex]>>
<1>1. LastIndex \in 0 .. LastIndex /\ LastIndex + 1 = Tape_Num /\ LastIndex \in Nat
  BY FirAssumption DEF LastIndex
<1>2. p \in Sums /\ Append(p, e) = ProductsOf(h, a, Tape_Num)
  BY <1>1, ProductsFacts
<1>3. Len(p) = LastIndex
  BY <1>1 DEF ProductsOf
<1>4. e \in Words \X Words
  <2>1. LastIndex \in Index
    BY FirAssumption DEF LastIndex, Index
  <2> QED
    BY <1>1, <2>1, NewestFacts
<1>. HIDE DEF p, e
<1>5. SubSeq(Append(p, e), 1, LastIndex) = p
  <2>1. PICK S : S = Words \X Words
    OBVIOUS
  <2>2. p \in Seq(S) /\ e \in S /\ LastIndex \in 1 .. Len(p)
    BY <1>2, <1>3, <1>4, <2>1, FirAssumption DEF Sums, LastIndex
  <2> QED
    BY <1>3, <2>2, PrefixFacts
<1> QED
  BY <1>2, <1>5 DEF p

\* The word on offer is complete, or in the first cycle of the offer all of it
\* but the last product.
LEMMA OfferStep ==
  ASSUME EInv, NEW in \in BusCycles, Contract(in), Clock(in)
  PROVE  /\ OfferIsComplete'
         /\ current_state = "S_WAIT" => cal_result = Y(accepted)
         /\ current_state = "S_SHIFT" => cal_result = SubSeq(Y(accepted), 1, LastIndex)
<1>1. TypeOK /\ PipelineInStep /\ OfferIsComplete
  BY DEF EInv
<1>2. current_state # "S_IDLE" =>
        /\ tap_ram' = tap_ram
        /\ current_state # "S_GET_DATA" => accepted' = accepted
  BY RunningStep
<1>3. current_state' = "S_WAIT" => current_state \in {"S_SHIFT", "S_WAIT"}
  BY DEF Clock, Main, Idle, InitSram, GetData, Cal, Shift, Wait, WaitApDone
<1>4. CASE current_state = "S_SHIFT"
  <2>1. counter = Tape_Num /\ cal_result = ProductsOf(tap_ram, accepted, LastIndex)
    BY <1>4, <1>1 DEF PipelineInStep
  <2>2. cal_result' = ProductsOf(tap_ram, accepted, Tape_Num)
    BY <1>4, <2>1, <1>1, NextProduct DEF Clock
  <2>3. cal_result = SubSeq(Y(accepted), 1, LastIndex)
    BY <2>1, <1>1, AllButLast DEF Y, TypeOK
  <2> QED
    BY <1>2, <1>4, <2>2, <2>3 DEF OfferIsComplete, sm_tdata, Y
<1>5. CASE current_state = "S_WAIT"
  <2>1. cal_result = ProductsOf(tap_ram, accepted, Tape_Num)
    BY <1>5, <1>1 DEF OfferIsComplete, sm_tdata, Y
  <2>2. cal_result' = cal_result
    BY <1>5, <1>1 DEF Clock, Accumulate, PipelineInStep
  <2> QED
    BY <1>2, <1>5, <2>1, <2>2 DEF OfferIsComplete, sm_tdata, Y
<1>6. CASE current_state \notin {"S_SHIFT", "S_WAIT"}
  BY <1>3, <1>6 DEF OfferIsComplete
<1> QED
  BY <1>4, <1>5, <1>6

\* What is said of each output taken is kept, if the word taken agrees with it:
\* the outputs taken before, and their samples, do not change.
LEMMA EmittedStep ==
  ASSUME EInv, NEW in \in BusCycles, Contract(in), Clock(in),
         current_state # "S_IDLE", NEW j \in 1 .. Len(emitted')
  PROVE  /\ tap_ram' = tap_ram
         /\ \/ /\ j \in 1 .. Len(emitted) /\ emitted'[j] = emitted[j]
               /\ SubSeq(accepted', 1, j) = SubSeq(accepted, 1, j)
            \/ /\ sm_fire(in) /\ emitted'[j] = cal_result
               /\ SubSeq(accepted', 1, j) = accepted
<1>1. TypeOK /\ OneOutputPerSample /\ in \in BusInputs
  BY BusCycleFacts DEF EInv
<1>2. /\ accepted \in Seq(Words) /\ emitted \in Seq(Sums)
      /\ cal_result \in Sums /\ in.ss_tdata \in Words
  BY <1>1 DEF TypeOK, BusInputs
<1>3. /\ tap_ram' = tap_ram
      /\ accepted' = IF current_state = "S_GET_DATA" /\ in.ss_tvalid
                     THEN Append(accepted, in.ss_tdata) ELSE accepted
      /\ emitted' = IF sm_fire(in) THEN Append(emitted, cal_result) ELSE emitted
      /\ sm_fire(in) => current_state \in {"S_SHIFT", "S_WAIT"}
  BY RunningStep
<1>4. /\ Len(emitted) <= Len(accepted)
      /\ sm_fire(in) => Len(accepted) = Len(emitted) + 1
  BY <1>1, <1>2, <1>3, LenProperties DEF OneOutputPerSample, Bit
<1>5. CASE sm_fire(in)
  <2>1. emitted' = Append(emitted, cal_result) /\ accepted' = accepted
    BY <1>3, <1>5
  <2>2. /\ Len(emitted') = Len(emitted) + 1
        /\ \A i \in 1 .. Len(emitted) : emitted'[i] = emitted[i]
        /\ emitted'[Len(emitted) + 1] = cal_result
    BY <2>1, <1>2, AppendProperties
  <2>3. CASE j \in 1 .. Len(emitted)
    BY <2>1, <2>2, <2>3, <1>3
  <2>4. CASE j = Len(emitted) + 1
    <3>1. j = Len(accepted)
      BY <2>4, <1>4, <1>5
    <3>2. SubSeq(accepted, 1, j) = accepted
      BY <3>1, <1>2, SubSeqFull
    <3> QED
      BY <2>1, <2>2, <2>4, <3>2, <1>3, <1>5
  <2> QED
    BY <2>2, <2>3, <2>4, <1>2, LenProperties
<1>6. CASE ~sm_fire(in)
  <2>1. emitted' = emitted
    BY <1>3, <1>6
  <2>2. j \in 1 .. Len(emitted) /\ j \in 1 .. Len(accepted)
    BY <2>1, <1>2, <1>4, LenProperties
  <2>3. SubSeq(accepted', 1, j) = SubSeq(accepted, 1, j)
    BY <2>2, <1>2, <1>3, PrefixFacts
  <2> QED
    BY <2>1, <2>2, <2>3, <1>3
<1> QED
  BY <1>5, <1>6

\* After a run, and before one, no output is held.
LEMMA NoOutputYet ==
  ASSUME NEW in \in BusCycles, Clock(in), current_state = "S_IDLE"
  PROVE  \A j \in 1 .. Len(emitted') : FALSE
<1>1. emitted' = <<>>
  BY DEF Clock, Record
<1> QED
  BY <1>1

\* Fetched whenever the master likes, an output lacks at most one product.
LEMMA EagerOutputStep ==
  ASSUME EInv, NEW in \in BusCycles, Contract(in), Clock(in)
  PROVE  EagerOutputsLackLastTap'
<1>1. CASE current_state = "S_IDLE"
  BY <1>1, NoOutputYet DEF EagerOutputsLackLastTap
<1>2. CASE current_state # "S_IDLE"
  <2>1. ASSUME NEW j \in 1 .. Len(emitted')
        PROVE  emitted'[j] \in
                 {ProductsOf(tap_ram', SubSeq(accepted', 1, j), Tape_Num),
                  SubSeq(ProductsOf(tap_ram', SubSeq(accepted', 1, j), Tape_Num),
                         1, LastIndex)}
    <3>1. tap_ram' = tap_ram
      BY <1>2, EmittedStep
    <3>2. CASE /\ j \in 1 .. Len(emitted) /\ emitted'[j] = emitted[j]
               /\ SubSeq(accepted', 1, j) = SubSeq(accepted, 1, j)
      BY <1>2, <3>1, <3>2 DEF EInv, EagerOutputsLackLastTap, Y
    <3>3. CASE /\ sm_fire(in) /\ emitted'[j] = cal_result
               /\ SubSeq(accepted', 1, j) = accepted
      <4>1. current_state \in {"S_SHIFT", "S_WAIT"}
        BY <3>3 DEF sm_fire, sm_tvalid
      <4>2. cal_result \in {Y(accepted), SubSeq(Y(accepted), 1, LastIndex)}
        BY <4>1, OfferStep
      <4> QED
        BY <3>1, <3>3, <4>2 DEF Y
    <3> QED
      BY <1>2, <3>2, <3>3, EmittedStep
  <2> QED
    BY <2>1 DEF EagerOutputsLackLastTap, Y
<1> QED
  BY <1>1, <1>2

\* Fetched by a master that polls, it lacks none.
LEMMA OutputStep ==
  ASSUME EInv, OutputsAreConvolutions,
         NEW in \in BusCycles, Contract(in), PollsOutput(in), Clock(in)
  PROVE  OutputsAreConvolutions'
<1>1. CASE current_state = "S_IDLE"
  BY <1>1, NoOutputYet DEF OutputsAreConvolutions
<1>2. CASE current_state # "S_IDLE"
  <2>1. ASSUME NEW j \in 1 .. Len(emitted')
        PROVE  emitted'[j] = ProductsOf(tap_ram', SubSeq(accepted', 1, j), Tape_Num)
    <3>1. tap_ram' = tap_ram
      BY <1>2, EmittedStep
    <3>2. CASE /\ j \in 1 .. Len(emitted) /\ emitted'[j] = emitted[j]
               /\ SubSeq(accepted', 1, j) = SubSeq(accepted, 1, j)
      BY <1>2, <3>1, <3>2 DEF OutputsAreConvolutions, Y
    <3>3. CASE /\ sm_fire(in) /\ emitted'[j] = cal_result
               /\ SubSeq(accepted', 1, j) = accepted
      <4>1. current_state = "S_WAIT"
        BY <3>3 DEF sm_fire, PollsOutput
      <4>2. cal_result = Y(accepted)
        BY <4>1, OfferStep
      <4> QED
        BY <3>1, <3>3, <4>2 DEF Y
    <3> QED
      BY <1>2, <3>2, <3>3, EmittedStep
  <2> QED
    BY <2>1 DEF OutputsAreConvolutions, Y
<1> QED
  BY <1>1, <1>2

-----------------------------------------------------------------------------
(* Power-up and reset.                                                     *)

\* An engine at rest satisfies the invariant whatever its memories hold.
LEMMA AtRest ==
  ASSUME TypeOK, current_state = "S_IDLE", ~sram_valid_flag, ~ap_start,
         ~ap_done, ~ss_tready, axi_current_state = "AXI_READ_IDLE",
         pattern_count = 0
  PROVE  IInv
<1>. QED
  BY DEF IInv, EInv, OutputsAreConvolutions, EagerOutputsLackLastTap, OfferIsComplete, OneOutputPerSample,
         DoneMeansAll, Running, BufferHoldsSamples, PipelineInStep, RunInStep

LEMMA InitInv == Init => IInv
<1> SUFFICES ASSUME Init PROVE IInv
  OBVIOUS
<1>1. /\ tap_ram \in [Index -> Words] /\ data_ram \in [Index -> Words]
      /\ tap_Do \in Words /\ data_Do \in Words
  <2>1. 0 \in Index
    BY FirAssumption DEF Index
  <2> QED
    BY <2>1, FirAssumption DEF Init, Words
<1>2. 0 \in Index /\ 0 \in 0 .. Tape_Num /\ 0 \in 0 .. 63 /\ 0 \in Nat
  BY FirAssumption DEF Index
<1>3. <<>> \in Sums /\ <<>> \in Seq(Words) /\ <<>> \in Seq(Sums)
  BY EmptySeq DEF Sums
<1>4. TypeOK
  BY <1>1, <1>2, <1>3 DEF Init, TypeOK, States, ReadStates, Words
<1> QED
  BY <1>4, AtRest DEF Init

LEMMA ResetInv ==
  ASSUME EInv, NEW in \in BusCycles, Reset(in)
  PROVE  IInv'
<1>1. TypeOK /\ in \in BusInputs
  BY BusCycleFacts DEF EInv
<1>2. 0 \in Index /\ 0 \in 0 .. Tape_Num /\ 0 \in 0 .. 63 /\ 0 \in Nat
  BY FirAssumption DEF Index
<1>3. <<>> \in Sums /\ <<>> \in Seq(Words) /\ <<>> \in Seq(Sums)
  BY EmptySeq DEF Sums
<1>4. tap_ram' \in [Index -> Words] /\ data_ram' \in [Index -> Words]
  <2>1. in.wdata \in Words /\ data_Di(in) \in Words
    BY <1>1 DEF BusInputs, data_Di, Words
  <2>2. tap_WE(in) => tap_A(in) \in Index
    BY BusCycleFacts DEF tap_A
  <2> QED
    BY <1>1, <2>1, <2>2 DEF Reset, TypeOK
<1>5. tap_Do' \in Words /\ data_Do' \in Words
  <2>1. tap_Do' = tap_ram'[0] /\ data_Do' = data_ram'[0]
    BY DEF Reset
  <2> QED
    BY <2>1, <1>2, <1>4
<1>6. /\ current_state' = "S_IDLE" /\ ~sram_valid_flag' /\ ~ap_start'
      /\ ~ap_done' /\ ~ss_tready' /\ axi_current_state' = "AXI_READ_IDLE"
      /\ counter' = 0 /\ pattern_count' = 0 /\ length' = 0
      /\ data_address_pointer' = 0 /\ data_address_saver' = 0
      /\ cal_result' = <<>> /\ accepted' = <<>> /\ emitted' = <<>>
      /\ ap_idle' /\ arready' /\ ~rvalid' /\ ~awready'
      /\ save_araddr' = 0 /\ rdata' = 0
  BY DEF Reset
<1>7. TypeOK'
  <2>1. /\ sram_valid_flag' \in BOOLEAN
        /\ ap_start' \in BOOLEAN /\ ap_done' \in BOOLEAN /\ ap_idle' \in BOOLEAN
        /\ arready' \in BOOLEAN /\ rvalid' \in BOOLEAN /\ awready' \in BOOLEAN
        /\ ss_tready' \in BOOLEAN
    BY DEF Reset
  <2> QED
    BY <2>1, <1>2, <1>3, <1>4, <1>5, <1>6 DEF TypeOK, States, ReadStates, Words
<1> QED
  BY <1>6, <1>7
     DEF IInv, EInv, OutputsAreConvolutions, EagerOutputsLackLastTap, OfferIsComplete, OneOutputPerSample,
         DoneMeansAll, Running, BufferHoldsSamples, PipelineInStep, RunInStep

-----------------------------------------------------------------------------
(* The inductive invariant and what follows from it.                       *)

\* A step of an engine whose master need not poll.
LEMMA EagerStep == EInv /\ [EagerNext]_vars => EInv'
<1> SUFFICES ASSUME EInv, [EagerNext]_vars PROVE EInv'
  OBVIOUS
<1>1. CASE UNCHANGED vars
  BY <1>1 DEF vars, fsmVars, ctrlVars, readVars, ramVars, history, EInv, TypeOK,
      EagerOutputsLackLastTap, OfferIsComplete, sm_tdata, Y, OneOutputPerSample,
      DoneMeansAll, Running, BufferHoldsSamples, Slot, PipelineInStep, RunInStep,
      WordOf
<1>2. CASE EagerNext
  <2>1. PICK in \in BusCycles : Contract(in) /\ (Clock(in) \/ Reset(in))
    BY <1>2 DEF EagerNext
  <2>2. CASE Clock(in)
    BY <2>1, <2>2, ClockType, FlowStep, BufferStep, PipelineStep, OfferStep,
       EagerOutputStep DEF EInv
  <2>3. CASE Reset(in)
    BY <2>3, ResetInv DEF IInv
  <2> QED
    BY <2>1, <2>2, <2>3
<1> QED
  BY <1>1, <1>2

LEMMA StepInv == IInv /\ [Next]_vars => IInv'
<1> SUFFICES ASSUME IInv, [Next]_vars PROVE IInv'
  OBVIOUS
<1>1. EInv /\ OutputsAreConvolutions
  BY DEF IInv
<1>2. EInv'
  BY <1>1, EagerStep DEF Next, EagerNext
<1>3. CASE UNCHANGED vars
  BY <1>1, <1>2, <1>3 DEF vars, fsmVars, ramVars, history, IInv,
                          OutputsAreConvolutions, Y
<1>4. CASE Next
  <2>1. PICK in \in BusCycles :
          Contract(in) /\ ((PollsOutput(in) /\ Clock(in)) \/ Reset(in))
    BY <1>4 DEF Next
  <2>2. CASE PollsOutput(in) /\ Clock(in)
    BY <1>1, <1>2, <2>1, <2>2, OutputStep DEF IInv
  <2>3. CASE Reset(in)
    BY <1>1, <2>3, ResetInv
  <2> QED
    BY <2>1, <2>2, <2>3
<1> QED
  BY <1>3, <1>4

\* The invariant of the engine, strong enough to be inductive.
THEOREM Invariance == Spec => []IInv
<1>. QED
  BY InitInv, StepInv, PTL DEF Spec

\* Every register stays in its range (fir.v, all always blocks).
THEOREM TypeCorrect == Spec => []TypeOK
<1>1. IInv => TypeOK
  BY DEF IInv, EInv
<1> QED
  BY <1>1, Invariance, PTL

\* Whatever the tape length, the taps and the samples, every output taken is
\* the convolution of the samples taken before it (fir.v:389-400 through the
\* circular memory of fir.v:304-332).
THEOREM Correct == Spec => [](OutputsAreConvolutions /\ OfferIsComplete)
<1>1. IInv => OutputsAreConvolutions /\ OfferIsComplete
  BY DEF IInv, EInv
<1> QED
  BY <1>1, Invariance, PTL

\* Samples and outputs alternate one for one (fir.v:276-286, 335-387, 444-450).
THEOREM Alternates == Spec => []OneOutputPerSample
<1>1. IInv => OneOutputPerSample
  BY DEF IInv, EInv
<1> QED
  BY <1>1, Invariance, PTL

\* ap_done is never set before the last of the length outputs is taken, and
\* ap_idle never during a run (fir.v:82-107).
THEOREM DoneIsHonest == Spec => []DoneMeansAll
<1>1. IInv => DoneMeansAll
  BY DEF IInv, EInv
<1> QED
  BY <1>1, Invariance, PTL

\* Under a master that does not poll, which makes the offer and its taking
\* race with the last accumulation (fir.v:389-400 against fir.v:335-356).
THEOREM EagerInvariance == EagerSpec => []EInv
<1>1. Init => EInv
  BY InitInv DEF IInv
<1> QED
  BY <1>1, EagerStep, PTL DEF EagerSpec

\* Such a master gets the convolution, or all of it but the product of the last
\* tap: never a product of another sample, nor one twice.
THEOREM EagerCorrect == EagerSpec => []EagerOutputsLackLastTap
<1>1. EInv => EagerOutputsLackLastTap
  BY DEF EInv
<1> QED
  BY <1>1, EagerInvariance, PTL

-----------------------------------------------------------------------------
(* The engine implements the abstract accelerator.                         *)

LEMMA StreamStep == IInv /\ [Next]_vars => [Stream!SNext]_Stream!svars
<1> SUFFICES ASSUME IInv, [Next]_vars PROVE [Stream!SNext]_Stream!svars
  OBVIOUS
<1>1. CASE UNCHANGED vars
  BY <1>1 DEF vars, fsmVars, ctrlVars, ramVars, history, Stream!svars, Phase
<1>2. CASE Next
  <2>1. PICK in \in BusCycles :
          Contract(in) /\ ((PollsOutput(in) /\ Clock(in)) \/ Reset(in))
    BY <1>2 DEF Next
  <2>2. CASE Reset(in)
    BY <2>2 DEF Reset, Phase, Stream!SNext, Stream!Abandon
  <2>3. CASE PollsOutput(in) /\ Clock(in)
    <3>1. /\ TypeOK /\ OneOutputPerSample /\ RunInStep
          /\ Contract(in) /\ PollsOutput(in) /\ Clock(in)
      BY <2>1, <2>3 DEF IInv, EInv
    <3>2. CASE Idle
      <4>1. current_state = "S_IDLE" /\ accepted' = <<>> /\ emitted' = <<>>
        BY <3>1, <3>2 DEF Idle, Clock, Record
      <4>2. CASE ap_start
        <5>1. ~tap_WE(in) /\ (in.awvalid => in.awaddr = CtrlAddr)
          BY <3>1, <4>2, BusCycleFacts DEF Contract, tap_WE
        <5>2. tap_ram' = tap_ram /\ length' = length
          BY <3>1, <5>1 DEF Clock, TapRam, Control, CtrlAddr, LenAddr
        <5>3. current_state' = "S_INIT_SRAM"
          BY <3>2, <4>2 DEF Idle
        <5> QED
          BY <4>1, <5>2, <5>3 DEF Phase, Stream!SNext, Stream!Start
      <4>3. CASE ~ap_start
        BY <4>1, <4>3, <3>2 DEF Idle, Phase, Stream!SNext, Stream!Configure
      <4> QED
        BY <4>2, <4>3
    <3>3. CASE current_state # "S_IDLE"
      <4>1. /\ tap_ram' = tap_ram /\ length' = length
            /\ accepted' = IF current_state = "S_GET_DATA" /\ in.ss_tvalid
                           THEN Append(accepted, in.ss_tdata) ELSE accepted
            /\ emitted' = IF current_state = "S_WAIT" /\ in.sm_tready
                          THEN Append(emitted, cal_result) ELSE emitted
        BY <3>1, <3>3, RunningStep DEF IInv, PollsOutput
      <4>2. CASE InitSram
        BY <4>1, <4>2 DEF InitSram, Phase, Stream!svars
      <4>3. CASE GetData(in)
        <5>1. /\ current_state = "S_GET_DATA" /\ emitted' = emitted
              /\ current_state' = IF in.ss_tvalid THEN "S_CAL" ELSE "S_GET_DATA"
          BY <4>1, <4>3 DEF GetData
        <5>2. CASE in.ss_tvalid
          <6>1. Len(accepted) = Len(emitted) /\ Len(accepted) < length
            BY <5>1, <3>1, LenProperties
               DEF OneOutputPerSample, RunInStep, Bit, TypeOK
          <6>2. in.ss_tdata \in Samples
            BY <5>2, BusCycleFacts
          <6> QED
            BY <4>1, <5>1, <5>2, <6>1, <6>2
               DEF Phase, Stream!SNext, Stream!Accept
        <5>3. CASE ~in.ss_tvalid
          BY <4>1, <5>1, <5>3 DEF Phase, Stream!svars
        <5> QED
          BY <5>2, <5>3
      <4>4. CASE Cal
        BY <4>1, <4>4 DEF Cal, Phase, Stream!svars
      <4>5. CASE Shift(in)
        <5>1. current_state = "S_SHIFT" /\ current_state' = "S_WAIT"
          BY <3>1, <4>5 DEF Shift, TakeOutput, PollsOutput
        <5> QED
          BY <4>1, <5>1 DEF Phase, Stream!svars
      <4>6. CASE Wait(in)
        <5>1. current_state = "S_WAIT"
          BY <4>6 DEF Wait
        <5>2. CASE in.sm_tready
          <6>1. /\ Len(accepted) = Len(emitted) + 1 /\ pattern_count = Len(emitted)
                /\ Len(accepted) \in Nat /\ Len(emitted) \in Nat /\ length \in Nat
            BY <5>1, <3>1, LenProperties DEF OneOutputPerSample, Bit, TypeOK
          <6>2. cal_result = ProductsOf(tap_ram, accepted, Tape_Num)
            BY <5>1 DEF IInv, EInv, OfferIsComplete, sm_tdata, Y
          <6>3. current_state' = IF Len(accepted) = length THEN "S_WAIT_AP_DONE"
                                 ELSE "S_GET_DATA"
            BY <4>6, <5>2, <6>1 DEF Wait, TakeOutput, LastOutput
          <6>4. Stream!Emit
            <7>1. /\ Phase = "running"
                  /\ Phase' = IF Len(accepted) = length THEN "done" ELSE "running"
              BY <5>1, <6>3 DEF Phase
            <7>2. /\ accepted' = accepted
                  /\ emitted' = Append(emitted,
                                       ProductsOf(tap_ram, accepted, Tape_Num))
              BY <4>1, <5>1, <5>2, <6>2
            <7>3. ProductsOf(tap_ram, accepted, Tape_Num)
                    = Stream!ProductsOf(tap_ram, accepted, Tape_Num)
              BY Zenon DEF ProductsOf, Stream!ProductsOf, Newest, Stream!Newest
            <7> QED
              BY <4>1, <6>1, <7>1, <7>2, <7>3 DEF Stream!Emit
          <6> QED
            BY <6>4 DEF Stream!SNext
        <5>3. CASE ~in.sm_tready
          BY <4>1, <4>6, <5>1, <5>3 DEF Wait, TakeOutput, Phase, Stream!svars
        <5> QED
          BY <5>2, <5>3
      <4>7. CASE WaitApDone
        BY <4>1, <4>7
           DEF WaitApDone, Phase, Stream!svars, Stream!SNext, Stream!Acknowledge
      <4> QED
        BY <3>1, <3>3, <4>2, <4>3, <4>4, <4>5, <4>6, <4>7 DEF Clock, Main, Idle
    <3> QED
      BY <3>1, <3>2, <3>3 DEF Clock, Main, Idle, InitSram, GetData, Cal, Shift,
                              Wait, WaitApDone
  <2> QED
    BY <2>1, <2>2, <2>3
<1> QED
  BY <1>1, <1>2

\* Seen from its streams, the clocked engine is the abstract accelerator:
\* polling, reading back and idle cycles change nothing (all of fir.v).
THEOREM Refines == Spec => ImplementsStream
<1>1. Init => Stream!SInit
  BY DEF Init, Stream!SInit, Phase
<1> QED
  BY <1>1, Invariance, StreamStep, PTL DEF Spec, ImplementsStream, Stream!SSpec
=============================================================================
