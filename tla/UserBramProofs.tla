---------------------------- MODULE UserBramProofs ----------------------------
(***************************************************************************)
(* The program memory for any delay, any size and any addresses: when it   *)
(* answers and, as long as it is not asked for more than it holds, what.   *)
(***************************************************************************)
EXTENDS UserBram, TLAPS

Slots == {SlotOf(a) : a \in Addresses}

\* The memory is large enough for the addresses: no two share a slot.
NoAliases == \A a, b \in Addresses : SlotOf(a) = SlotOf(b) => a = b

-----------------------------------------------------------------------------
(* The inductive invariant.                                                *)

\* Types: of a request the address is that of a word in use.
BramTypeOK ==
  /\ cyc \in {"none", "axi", "bram"}
  /\ count \in 0 .. DELAYS /\ ready \in BOOLEAN /\ axi_ack \in BOOLEAN
  /\ we \in BOOLEAN /\ sel \subseteq Lanes /\ dat \in Word
  /\ cyc = "bram" => adr \in Addresses
  /\ RAM \in [Slots -> Word] /\ Do0 \in Word
  /\ memory \in [Addresses -> Word] /\ waited \in Nat

\* What a request finds in count: nothing, or the one edge that the request
\* before it was held for after its acknowledge.
CountInv ==
  /\ ready => count = 0
  /\ axi_ack => cyc = "axi" /\ count = 0 /\ ~ready
  /\ cyc = "none" => count <= 1
  /\ cyc # "bram" => waited = 0

\* A request to the memory waits as long as count counts.
WaitInv ==
  cyc = "bram" =>
    IF ready THEN waited \in {DELAYS, DELAYS + 1} /\ waited > 0
    ELSE count \in {waited, waited + 1}

\* The port has the word of the request once this has had an edge.
PortInv ==
  cyc = "bram" /\ ~we /\ waited > 0 => Do0 = RAM[SlotOf(adr)]

\* The slots hold what a memory of its own for each address would hold.
SlotsInv == \A a \in Addresses : memory[a] = RAM[SlotOf(a)]

BramInv == BramTypeOK /\ CountInv /\ WaitInv /\ PortInv

-----------------------------------------------------------------------------
(* Each part of the invariant is kept by each step.                        *)

\* Fill makes a word of any byte.
LEMMA FillFacts ==
  /\ \A b \in Bytes : Fill(b) \in Word
  /\ Fill(0) \in Word /\ Fill(Garbage) \in Word
  BY UserBramAssumption DEF Fill, Word

\* What the memory does to its slots and to the port, in each kind of step.
LEMMA MemoryStep ==
  ASSUME BramTypeOK, Memory
  PROVE  /\ RAM' \in [Slots -> Word] /\ Do0' \in Word
         /\ cyc = "bram" /\ ~we => RAM' = RAM /\ Do0' = RAM[SlotOf(adr)]
<1>1. CASE cyc = "bram"
  <2>1. SlotOf(adr) \in Slots /\ RAM[SlotOf(adr)] \in Word
    BY <1>1 DEF BramTypeOK, Slots
  <2>2. Written(RAM[SlotOf(adr)]) \in Word
    BY <2>1 DEF BramTypeOK, Written, Word
  <2>3. /\ Do0' = RAM[SlotOf(adr)]
        /\ RAM' = [RAM EXCEPT ![SlotOf(adr)] = Written(RAM[SlotOf(adr)])]
    BY <1>1 DEF Memory, user_project_bram_enable
  <2>4. ASSUME ~we
        PROVE  RAM' = RAM
    <3>1. Written(RAM[SlotOf(adr)]) = RAM[SlotOf(adr)]
      BY <2>1, <2>4 DEF Written, WE0, Word
    <3> QED
      BY <2>1, <2>3, <3>1 DEF BramTypeOK
  <2> QED
    BY <1>1, <2>1, <2>2, <2>3, <2>4 DEF BramTypeOK
<1>2. CASE cyc # "bram"
  BY <1>2, FillFacts DEF BramTypeOK, Memory, user_project_bram_enable
<1> QED
  BY <1>1, <1>2

\* The history follows the request, and not the slots.
LEMMA HistoryStep ==
  ASSUME BramTypeOK, Next
  PROVE  /\ memory' = IF cyc = "bram" THEN [memory EXCEPT ![adr] = Written(memory[adr])]
                      ELSE memory
         /\ memory' \in [Addresses -> Word] /\ waited' \in Nat
<1>1. memory' = IF cyc = "bram" THEN [memory EXCEPT ![adr] = Written(memory[adr])]
                ELSE memory
  BY DEF Next, Edge, Reset, History, Written, WE0, user_project_bram_enable
<1>2. cyc = "bram" => Written(memory[adr]) \in Word
  BY DEF BramTypeOK, Written, Word
<1>3. waited' \in Nat
  BY DEF BramTypeOK, Next, Edge, Reset, History
<1> QED
  BY <1>1, <1>2, <1>3 DEF BramTypeOK

\* The request that a master may make.
LEMMA RequestStep ==
  ASSUME BramTypeOK, Master \/ NoRequest
  PROVE  /\ cyc' \in {"none", "axi", "bram"}
         /\ we' \in BOOLEAN /\ sel' \subseteq Lanes /\ dat' \in Word
         /\ cyc' = "bram" => adr' \in Addresses
<1>1. CASE NoRequest
  BY <1>1, FillFacts DEF NoRequest
<1>2. CASE Accelerator \/ Waits
  BY <1>2 DEF BramTypeOK, Accelerator, Waits, request
<1>3. CASE Read \/ Write
  BY <1>3, FillFacts DEF Read, Write
<1> QED
  BY <1>1, <1>2, <1>3 DEF Master, Idles, Ends

LEMMA TypeStep ==
  ASSUME BramInv, Next
  PROVE  BramTypeOK'
<1>1. BramTypeOK
  BY DEF BramInv
<1>2. RAM' \in [Slots -> Word] /\ Do0' \in Word
  BY <1>1, MemoryStep DEF Next, Edge, Reset
<1>3. memory' \in [Addresses -> Word] /\ waited' \in Nat
  BY <1>1, HistoryStep
<1>4. /\ cyc' \in {"none", "axi", "bram"}
      /\ we' \in BOOLEAN /\ sel' \subseteq Lanes /\ dat' \in Word
      /\ cyc' = "bram" => adr' \in Addresses
  <2>1. Master \/ NoRequest
    BY DEF Next, Reset
  <2> QED
    BY <1>1, <2>1, RequestStep
<1>5. count' \in 0 .. DELAYS /\ ready' \in BOOLEAN /\ axi_ack' \in BOOLEAN
  <2>1. CASE Reset
    <3>1. count' = 0 /\ ready' = FALSE /\ axi_ack' = FALSE
      BY <2>1 DEF Reset, WrapperReset
    <3>2. 0 \in 0 .. DELAYS
      BY WrapperAssumption
    <3> QED
      BY <3>1, <3>2
  <2>2. CASE Edge
    <3>1. count' \in 0 .. DELAYS
      BY <1>1, <2>2, WrapperAssumption DEF BramTypeOK, Edge, WrapperStep
    <3>2. ready' \in BOOLEAN
      BY <2>2 DEF Edge, WrapperStep
    <3>3. axi_ack' \in BOOLEAN
      BY <2>2 DEF Edge, BridgeAck
    <3> QED
      BY <3>1, <3>2, <3>3
  <2> QED
    BY <2>1, <2>2 DEF Next
<1> QED
  BY <1>2, <1>3, <1>4, <1>5 DEF BramTypeOK, Slots, SlotOf, Word

\* The edges counted.  What is acknowledged ends or is followed, in the window
\* of the memory, by a request that starts to count from nothing.
LEMMA WaitStep ==
  ASSUME BramInv, Next
  PROVE  CountInv' /\ WaitInv'
<1>1. BramTypeOK /\ CountInv /\ WaitInv
  BY DEF BramInv
<1>2. CASE Reset
  BY <1>2 DEF Reset, WrapperReset, NoRequest, CountInv, WaitInv
<1>3. ASSUME Edge, Master
      PROVE  CountInv' /\ WaitInv'
  <2>1. /\ ready' <=> (valid /\ ~ready /\ count = DELAYS)
        /\ count' = IF valid /\ ~ready THEN IF count = DELAYS THEN 0 ELSE count + 1
                    ELSE count
    BY <1>1, <1>3, WrapperAssumption
       DEF Edge, WrapperStep, BramTypeOK, user_project_bram_ack
  <2>2. axi_ack' => cyc = "axi" /\ ready /\ ~axi_ack
    BY <1>3 DEF Edge, BridgeAck, axi_enable
  <2>3. waited' = IF cyc # "bram" \/ ready THEN 0 ELSE waited + 1
    BY <1>3 DEF Edge, History, user_project_bram_enable, wbs_ack_o, user_project_bram_ack
  <2>4. CASE cyc = "none"
    <3>1. ~ready' /\ count' = count /\ ~axi_ack' /\ waited' = 0
      BY <2>1, <2>2, <2>3, <2>4 DEF valid, axi_enable, user_project_bram_enable
    <3>2. count' \in {0, 1}
      BY <1>1, <2>4, <3>1, WrapperAssumption DEF BramTypeOK, CountInv
    <3> QED
      BY <3>1, <3>2 DEF CountInv, WaitInv
  <2>5. CASE cyc = "axi"
    <3>1. valid /\ waited' = 0 /\ (wbs_ack_o <=> axi_ack)
      BY <2>3, <2>5 DEF valid, axi_enable, user_project_bram_enable, wbs_ack_o
    <3>2. cyc' = IF axi_ack THEN "none" ELSE "axi"
      BY <1>1, <1>3, <2>5, <3>1
         DEF Master, Idles, Accelerator, Read, Write, Waits, Ends, NoRequest, request
    <3> QED
      BY <1>1, <2>1, <2>2, <2>5, <3>1, <3>2, WrapperAssumption
         DEF BramTypeOK, CountInv, WaitInv
  <2>6. CASE cyc = "bram"
    <3>1. valid /\ ~axi_ack' /\ wbs_ack_o = ready
      BY <2>2, <2>6 DEF valid, axi_enable, user_project_bram_enable, wbs_ack_o,
                        user_project_bram_ack
    <3>2. IF ready THEN cyc' \in {"none", "bram"} ELSE cyc' = "bram"
      BY <1>3, <2>6, <3>1
         DEF Master, Idles, Accelerator, Read, Write, Waits, Ends, NoRequest, request
    <3> QED
      BY <1>1, <2>1, <2>3, <2>6, <3>1, <3>2, WrapperAssumption
         DEF BramTypeOK, CountInv, WaitInv
  <2> QED
    BY <1>1, <2>4, <2>5, <2>6 DEF BramTypeOK
<1> QED
  BY <1>2, <1>3 DEF Next

\* The port.  A read that goes on stays at its address and changes no slot.
LEMMA PortStep ==
  ASSUME BramInv, Next
  PROVE  PortInv'
<1>1. BramTypeOK
  BY DEF BramInv
<1>2. SUFFICES ASSUME cyc' = "bram", ~we', waited' > 0
               PROVE  Do0' = RAM'[SlotOf(adr')]
  BY DEF PortInv, SlotOf
<1>3. Edge /\ Master /\ cyc = "bram" /\ ~wbs_ack_o
  BY <1>2 DEF Next, Reset, Edge, History, user_project_bram_enable
<1>4. UNCHANGED request
  BY <1>3 DEF Master, Idles, Accelerator, Read, Write, Waits, Ends
<1>5. ~we /\ adr' = adr
  BY <1>2, <1>4 DEF request
<1> QED
  BY <1>1, <1>3, <1>5, MemoryStep DEF Edge

\* The slots.  A write changes one slot, and this is no other address's.
LEMMA SlotsStep ==
  ASSUME NoAliases, BramInv, SlotsInv, Next
  PROVE  SlotsInv'
<1>1. BramTypeOK /\ Memory
  BY DEF BramInv, Next, Edge, Reset
<1>2. CASE cyc = "bram"
  <2>1. adr \in Addresses /\ SlotOf(adr) \in Slots
    BY <1>1, <1>2 DEF BramTypeOK, Slots
  <2>2. RAM' = [RAM EXCEPT ![SlotOf(adr)] = Written(RAM[SlotOf(adr)])]
    BY <1>1, <1>2 DEF Memory, user_project_bram_enable
  <2>3. memory' = [memory EXCEPT ![adr] = Written(memory[adr])]
    BY <1>1, <1>2, HistoryStep
  <2>4. ASSUME NEW a \in Addresses
        PROVE  memory'[a] = RAM'[SlotOf(a)]
    <3>1. SlotOf(a) \in Slots /\ memory[a] = RAM[SlotOf(a)]
      BY DEF SlotsInv, Slots
    <3>2. CASE a = adr
      BY <1>1, <2>1, <2>2, <2>3, <3>1, <3>2 DEF BramTypeOK
    <3>3. CASE a # adr
      <4>1. SlotOf(a) # SlotOf(adr)
        BY <2>1, <3>3 DEF NoAliases
      <4> QED
        BY <1>1, <2>1, <2>2, <2>3, <3>1, <3>3, <4>1 DEF BramTypeOK
    <3> QED
      BY <3>2, <3>3
  <2> QED
    BY <2>4 DEF SlotsInv, SlotOf
<1>3. CASE cyc # "bram"
  <2>1. RAM' = RAM /\ memory' = memory
    BY <1>1, <1>3, HistoryStep DEF Memory, user_project_bram_enable
  <2> QED
    BY <2>1 DEF SlotsInv, SlotOf
<1> QED
  BY <1>2, <1>3

-----------------------------------------------------------------------------
(* The theorems.                                                           *)

LEMMA InitInv ==
  ASSUME Init
  PROVE  BramInv /\ SlotsInv
<1>1. BramTypeOK
  <2>1. RAM \in [Slots -> Word] /\ memory \in [Addresses -> Word]
    BY FillFacts DEF Init, Slots
  <2>2. 0 \in 0 .. DELAYS
    BY WrapperAssumption
  <2> QED
    BY <2>1, <2>2, FillFacts DEF Init, WrapperInit, BramTypeOK
<1>2. CountInv /\ WaitInv /\ PortInv
  BY DEF Init, WrapperInit, CountInv, WaitInv, PortInv
<1>3. SlotsInv
  BY DEF Init, SlotsInv
<1> QED
  BY <1>1, <1>2, <1>3 DEF BramInv

LEMMA StutterInv ==
  ASSUME UNCHANGED vars
  PROVE  (BramInv => BramInv') /\ (SlotsInv => SlotsInv')
  BY DEF BramInv, BramTypeOK, CountInv, WaitInv, PortInv, SlotsInv, SlotOf, Slots,
         Word, vars, wrapper, request

\* The invariant of the program memory, aliases or not.
THEOREM BramInvariance == Spec => []BramInv
<1>1. BramInv /\ [Next]_vars => BramInv'
  BY TypeStep, WaitStep, PortStep, StutterInv DEF BramInv
<1> QED
  BY InitInv, <1>1, PTL DEF Spec

\* Every access to the program memory is answered after the delay and one more
\* cycle, or one less, for every delay that count can hold.
THEOREM MemoryAnswersOnTime == Spec => []AnswersOnTime
<1>1. ASSUME BramInv
      PROVE  AnswersOnTime
  <2>1. BramTypeOK /\ CountInv /\ WaitInv
    BY <1>1 DEF BramInv
  <2> QED
    BY <2>1, WrapperAssumption
       DEF BramTypeOK, CountInv, WaitInv, AnswersOnTime, wbs_ack_o,
           user_project_bram_enable, user_project_bram_ack
<1> QED
  BY <1>1, BramInvariance, PTL

\* A read gets what was last written to its address, byte by byte, in a memory
\* that has a slot for each address in use.
THEOREM MemoryReadsLastWrite ==
  ASSUME NoAliases
  PROVE  Spec => []ReadsLastWrite
<1>1. SlotsInv /\ BramInv /\ [Next]_vars => SlotsInv'
  BY SlotsStep, StutterInv
<1>2. ASSUME BramInv, SlotsInv
      PROVE  ReadsLastWrite
  <2>1. SUFFICES ASSUME cyc = "bram", wbs_ack_o, ~we
                 PROVE  Do0 = memory[adr]
    BY DEF ReadsLastWrite
  <2>2. adr \in Addresses
    BY <1>2, <2>1 DEF BramInv, BramTypeOK
  <2>3. waited > 0
    BY <1>2, <2>1 DEF BramInv, WaitInv, wbs_ack_o, user_project_bram_enable,
                      user_project_bram_ack
  <2> QED
    BY <1>2, <2>1, <2>2, <2>3 DEF BramInv, PortInv, SlotsInv
<1> QED
  BY InitInv, <1>1, <1>2, BramInvariance, PTL DEF Spec

=============================================================================
