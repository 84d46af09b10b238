-------------------------- MODULE FirControlProofs --------------------------
(***************************************************************************)
(* The firmware on the user project, end to end: for all samples, taps,    *)
(* lengths, delays and resets, and however its polls fall, fir() keeps the *)
(* rule that the slave relies on, stores the convolution of its samples,   *)
(* and returns with the run complete.                                      *)
(***************************************************************************)
EXTENDS FirControl, UserProjectProofs

-----------------------------------------------------------------------------
(* The inductive invariant: UserProjectProofs!UInv and where fir() is.     *)

InRun == pc \in {"first_config", "poll_send", "d_in", "poll_fetch", "d_out",
                 "last_config"}

\* What fir() knows at each place.  While an access is under way, it is the
\* one of this place.
ProgramInv ==
  /\ calls \in Nat
  /\ \/ pc = "taps" /\ i \in Index
     \/ pc \in {"datalength", "start", "first_config", "returned"} /\ i = 0
     \/ pc \in {"poll_send", "d_in", "poll_fetch", "d_out"} /\ i \in 0 .. N - 1
     \/ pc = "last_config" /\ i = N
  /\ started = InRun
  /\ toSend = (pc \notin {"poll_fetch", "d_out"})
  /\ pc = "d_in" => ReadyToSend(program_config)
  /\ pc = "d_out" => ReadyToFetch(program_config)
  /\ axi_enable => pc # "returned" /\ [we |-> we, adr |-> adr, dat |-> dat] = Request

\* The taps and the length are in place when the write has made its handshake.
SettingsInv ==
  /\ \A k \in Index :
       (pc = "taps" => k < i \/ (k = i /\ waited >= 1)) => tap_ram[k] = TapValues[k]
  /\ InRun \/ pc = "start" \/ (pc = "datalength" /\ waited >= 1) => length = N

\* The first n samples of the program.
InputsTo(n) == [k \in 1 .. n |-> InputSignal[k - 1]]

\* The engine waits for the next sample, has it, or is done.
Starting ==
  pc = "start" =>
    /\ waited = 1 => ap_start /\ current_state = "S_IDLE"
    /\ waited >= 2 => current_state \in {"S_INIT_SRAM", "S_GET_DATA"} /\ accepted = <<>>
Sending ==
  pc \in {"first_config", "poll_send"} \/ (pc = "d_in" /\ waited = 0) =>
    /\ current_state \in {"S_INIT_SRAM", "S_GET_DATA"}
    /\ accepted = InputsTo(i)
Fetching ==
  pc \in {"poll_fetch", "d_out"} \/ (pc = "d_in" /\ waited >= 1) =>
    /\ current_state \in {"S_CAL", "S_SHIFT", "S_WAIT"} \/ (pc = "d_out" /\ waited >= 1)
    /\ accepted = InputsTo(i + 1)
Finishing ==
  /\ pc = "d_out" /\ current_state = "S_WAIT_AP_DONE" /\ waited >= 2 => ap_done
  /\ pc = "last_config" =>
       /\ waited <= 1 => current_state = "S_WAIT_AP_DONE" /\ ap_done
       /\ waited = 2 => Bit1(rdata)
       /\ waited >= 3 => Bit1(AsWord(read_data))

OutputInv ==
  /\ outputsignal \in Seq(Sums)
  /\ InRun \/ pc = "start" => Len(outputsignal) = i
  /\ StoresConvolution

PInv ==
  /\ ProgramInv /\ SettingsInv
  /\ Starting /\ Sending /\ Fetching /\ Finishing
  /\ OutputInv

-----------------------------------------------------------------------------
(* The accesses of fir().                                                  *)

LEMMA Polls == PollsForOutput
BY FirControlAssumption

\* So an access to d_out makes its handshake in its first cycle.
LEMMA PolledFacts ==
  ASSUME UInv
  PROVE  /\ ~MayWait
         /\ sm_fire(Ports) <=> StreamReads /\ waited = 0
         /\ sm_fire(Ports) => current_state = "S_WAIT"
         /\ StreamReads /\ waited >= 1 =>
              /\ current_state \in {"S_GET_DATA", "S_WAIT_AP_DONE"}
              /\ read_data = emitted[Len(emitted)]
<1>1. ~MayWait
  BY Polls, KindsApart
<1>2. sm_fire(Ports) <=> StreamReads /\ waited = 0
  BY <1>1, Handshakes
<1>3. StreamReads /\ waited >= 1 => sm_done
  BY <1>1 DEF UInv, ChannelInv
<1>4. sm_done => /\ current_state \in {"S_GET_DATA", "S_WAIT_AP_DONE"}
                 /\ read_data = emitted[Len(emitted)]
  BY DEF UInv, EngineInv, FreshInv
<1>5. sm_fire(Ports) => current_state = "S_WAIT"
  <2>1. RequestInv /\ KnowledgeInv
    BY DEF UInv
  <2> QED
    BY <2>1, Polls, Handshakes, KindFacts, KindsApart DEF KnowledgeInv
<1> QED
  BY <1>1, <1>2, <1>3, <1>4, <1>5

\* One kind of access at each place.
LEMMA PlaceFacts ==
  /\ pc = "taps" => Request = WriteOf(TapAddr(i), TapValues[i])
  /\ pc = "datalength" => Request = WriteOf(LenAddr, N)
  /\ pc = "start" => Request = WriteOf(CtrlAddr, 1)
  /\ pc = "d_in" => Request = WriteOf(DinAddr, InputSignal[i])
  /\ pc = "d_out" => Request = ReadOf(DoutAddr)
  /\ pc \in {"first_config", "poll_send", "poll_fetch", "last_config", "returned"} =>
       Request = ReadOf(CtrlAddr)
BY DEF Request

\* fir() asks for nothing that software may not ask for there.
LEMMA RequestAllowed ==
  ASSUME PInv, pc # "returned"
  PROVE  Request \in Requests
<1>1. ProgramInv /\ SettingsInv
  BY DEF PInv
<1>2. /\ N \in Nat \ {0} /\ N \in Lengths
      /\ InputSignal \in [0 .. N - 1 -> Samples] /\ TapValues \in [Index -> Taps]
  BY FirControlAssumption
<1>3. CASE pc = "taps"
  <2>1. i \in Index /\ ~started /\ TapValues[i] \in Taps
    BY <1>1, <1>2, <1>3 DEF ProgramInv, InRun
  <2>2. Request = WriteOf(TapAddr(i), TapValues[i])
    BY <1>3, PlaceFacts
  <2> QED
    BY <2>1, <2>2 DEF Requests, ConfigIdle
<1>4. CASE pc = "datalength"
  <2>1. ~started
    BY <1>1, <1>4 DEF ProgramInv, InRun
  <2> QED
    BY <1>2, <1>4, <2>1, PlaceFacts DEF Requests, ConfigIdle
<1>5. CASE pc = "start"
  <2>1. ~started /\ length # 0
    BY <1>1, <1>2, <1>5 DEF ProgramInv, SettingsInv, InRun
  <2> QED
    BY <1>5, <2>1, PlaceFacts DEF Requests, ConfigIdle
<1>6. CASE pc = "d_in"
  <2>1. started /\ CanSend /\ InputSignal[i] \in Samples
    BY <1>1, <1>2, <1>6 DEF ProgramInv, InRun, CanSend, ReadyToSend
  <2> QED
    BY <1>6, <2>1, PlaceFacts DEF Requests
<1>7. CASE pc = "d_out"
  <2>1. started /\ CanFetch
    BY <1>1, <1>7 DEF ProgramInv, InRun, CanFetch, ReadyToFetch
  <2> QED
    BY <1>7, <2>1, PlaceFacts DEF Requests
<1>8. CASE pc \in {"first_config", "poll_send", "poll_fetch", "last_config"}
  BY <1>8, PlaceFacts DEF Requests
<1> QED
  BY <1>1, <1>3, <1>4, <1>5, <1>6, <1>7, <1>8 DEF ProgramInv

\* The access under way, and so what the bridge does, is known from the place.
LEMMA AccessFacts ==
  ASSUME UInv, PInv, axi_enable
  PROVE  /\ pc # "returned"
         /\ pc = "taps" => adr = TapAddr(i) /\ dat = TapValues[i]
         /\ pc = "datalength" => adr = LenAddr /\ dat = N
         /\ pc = "start" => adr = CtrlAddr /\ dat = 1 /\ Starts
         /\ pc = "d_in" => adr = DinAddr /\ dat = InputSignal[i]
         /\ pc = "d_out" => adr = DoutAddr
         /\ pc \in {"first_config", "poll_send", "poll_fetch", "last_config"} =>
              ReadsStatus
         /\ LiteWrites <=> pc \in {"taps", "datalength", "start"}
         /\ LiteReads <=> pc \in {"first_config", "poll_send", "poll_fetch", "last_config"}
         /\ StreamWrites <=> pc = "d_in"
         /\ StreamReads <=> pc = "d_out"
<1>1. /\ pc \in {"taps", "datalength", "start", "first_config", "poll_send", "d_in",
                 "poll_fetch", "d_out", "last_config"}
      /\ we = Request.we /\ adr = Request.adr /\ dat = Request.dat
      /\ pc = "taps" => i \in Index
  BY DEF PInv, ProgramInv
<1>2. /\ pc = "taps" => we = TRUE /\ adr = TapAddr(i) /\ dat = TapValues[i]
      /\ pc = "datalength" => we = TRUE /\ adr = LenAddr /\ dat = N
      /\ pc = "start" => we = TRUE /\ adr = CtrlAddr /\ dat = 1
      /\ pc = "d_in" => we = TRUE /\ adr = DinAddr /\ dat = InputSignal[i]
      /\ pc = "d_out" => we = FALSE /\ adr = DoutAddr
      /\ pc \in {"first_config", "poll_send", "poll_fetch", "last_config"} =>
           we = FALSE /\ adr = CtrlAddr
  BY <1>1, PlaceFacts DEF WriteOf, ReadOf
<1>3. /\ pc \in {"d_in", "d_out"} => ~is_lite
      /\ pc \notin {"d_in", "d_out"} => is_lite
  <2>1. pc = "taps" => adr \in 0 .. 127
    BY <1>1, <1>2, AddrFacts
  <2>2. /\ adr = 128 \/ adr = 132 => ~is_lite
        /\ adr \in 0 .. 127 => is_lite
    BY AddrFacts DEF is_lite
  <2>3. CtrlAddr \in 0 .. 127 /\ LenAddr \in 0 .. 127 /\ DinAddr = 128 /\ DoutAddr = 132
    BY DEF CtrlAddr, LenAddr, DinAddr, DoutAddr
  <2> QED
    BY <1>1, <1>2, <2>1, <2>2, <2>3
<1>4. pc = "start" => Starts
  BY <1>2 DEF Starts
<1>5. pc \in {"first_config", "poll_send", "poll_fetch", "last_config"} => ReadsStatus
  BY <1>2 DEF ReadsStatus
<1>6. /\ LiteWrites <=> pc \in {"taps", "datalength", "start"}
      /\ LiteReads <=> pc \in {"first_config", "poll_send", "poll_fetch", "last_config"}
      /\ StreamWrites <=> pc = "d_in"
      /\ StreamReads <=> pc = "d_out"
  BY <1>1, <1>2, <1>3 DEF LiteWrites, LiteReads, StreamWrites, StreamReads
<1> QED
  BY <1>1, <1>2, <1>4, <1>5, <1>6

\* Without an access, none of the channels is in use.
LEMMA NoAccess ==
  ASSUME UInv, ~axi_enable
  PROVE  /\ waited = 0
         /\ ~LiteWrites /\ ~LiteReads /\ ~StreamWrites /\ ~StreamReads
BY DEF UInv, DelayInv, LiteWrites, LiteReads, StreamWrites, StreamReads

-----------------------------------------------------------------------------
(* The steps of the program.                                               *)

\* Nothing is under way, and the access of this place may begin.
Pauses ==
  /\ Rests /\ UNCHANGED <<local, software>>
  /\ axi_enable' => pc # "returned" /\ we' = Request.we /\ adr' = Request.adr
                    /\ dat' = Request.dat

\* The access of this place goes on, or is over.
GoesOn == Holds /\ UNCHANGED local
Completes == Ends /\ Proceed

LEMMA ProgramMoves ==
  ASSUME UInv, PInv, CNext
  PROVE  /\ UNext
         /\ \/ Restart
            \/ Edge /\ Master /\ (Pauses \/ GoesOn \/ Completes)
<1>1. CASE Restart
  BY <1>1 DEF Restart, UNext
<1>2. CASE Computes \/ EndsBurst
  <2>1. Edge /\ UNCHANGED local /\ (MasterIdles \/ Fetch \/ MasterWaits \/ FetchEnds)
    BY <1>2 DEF Computes, EndsBurst
  <2>2. Master
    BY <2>1 DEF Master
  <2>3. Holds \/ Ends \/ Rests
    BY <2>1, <2>2, Polls, MasterMoves
  <2>4. ~Ends
    BY <2>1 DEF Ends, AccessEnds, MasterIdles, Fetch, MasterWaits, FetchEnds, axi_enable
  <2>5. ASSUME Rests PROVE ~axi_enable' /\ UNCHANGED software
    BY <2>1, <2>5 DEF Rests, MasterIdles, Fetch, MasterWaits, FetchEnds, NoRequest,
                      request, axi_enable
  <2>6. Pauses \/ GoesOn
    BY <2>1, <2>3, <2>4, <2>5 DEF Pauses, GoesOn
  <2> QED
    BY <2>1, <2>2, <2>6 DEF UNext
<1>3. CASE StartsAccess
  <2>1. Edge /\ UNCHANGED local /\ pc # "returned" /\ Access(Request)
    BY <1>3 DEF StartsAccess
  <2>2. Master
    BY <2>1, RequestAllowed DEF Master
  <2>3. ~axi_enable /\ UNCHANGED software /\ we' = Request.we /\ adr' = Request.adr
        /\ dat' = Request.dat
    BY <2>1 DEF Access, axi_enable
  <2>4. Rests
    BY <2>1, <2>2, <2>3, Polls, MasterMoves DEF Holds, Ends, AccessEnds
  <2>5. Pauses
    BY <2>1, <2>3, <2>4 DEF Pauses
  <2> QED
    BY <2>1, <2>2, <2>5 DEF UNext
<1>4. CASE CompletesAccess
  <2>1. Edge /\ AccessEnds /\ Proceed
    BY <1>4 DEF CompletesAccess
  <2>2. Master
    BY <2>1 DEF Master
  <2>3. Ends
    <3>1. axi_enable /\ wbs_ack_o
      BY <2>1 DEF AccessEnds
    <3>2. axi_ack
      BY <3>1 DEF wbs_ack_o, axi_enable, user_project_bram_enable
    <3> QED
      BY <2>1, <2>2, <3>1, <3>2, Polls, MasterMoves DEF Holds, Rests
  <2> QED
    BY <2>1, <2>2, <2>3 DEF UNext, Completes
<1> QED
  BY <1>1, <1>2, <1>3, <1>4 DEF CNext

\* What an access that is over has taught the program.
LEMMA Learns ==
  ASSUME UInv, PInv, Edge, Ends
  PROVE  /\ axi_enable /\ ~axi_enable' /\ waited \in Nat /\ waited >= 4 /\ waited' = 0
         /\ pc \in {"taps", "datalength"} => UNCHANGED software
         /\ pc = "start" => started' = TRUE /\ toSend' = toSend
         /\ pc \in {"first_config", "poll_send", "poll_fetch", "last_config"} =>
              /\ program_config' = AsWord(read_data) /\ toSend' = toSend
              /\ started' = (started /\ ~Bit1(AsWord(read_data)))
              /\ Bit1(AsWord(read_data)) => current_state = "S_IDLE" /\ ~ap_start
         /\ pc = "d_in" => started' = started /\ toSend' = FALSE
         /\ pc = "d_out" => started' = started /\ toSend' = TRUE
<1>1. axi_enable /\ ~axi_enable' /\ waited \in Nat /\ waited >= 4 /\ waited' = 0
  <2>1. axi_enable /\ cyc' = "none" /\ waited > DELAYS /\ waited' = 0
    BY DEF Ends, AccessEnds, NoRequest
  <2>2. waited \in Nat
    BY DEF UInv, DelayInv
  <2>3. DELAYS \in 3 .. 15
    BY UserProjectAssumption
  <2> QED
    BY <2>1, <2>2, <2>3 DEF axi_enable
<1>2. /\ program_config' = IF ~we /\ adr = CtrlAddr THEN AsWord(read_data)
                           ELSE program_config
      /\ started' = IF adr # CtrlAddr THEN started
                    ELSE we \/ (started /\ ~Bit1(AsWord(read_data)))
      /\ toSend' = IF adr \in {DinAddr, DoutAddr} THEN adr = DoutAddr ELSE toSend
  BY Polls DEF Ends, AccessEnds
<1>3. /\ CtrlAddr \notin {LenAddr, DinAddr, DoutAddr} /\ LenAddr \notin {DinAddr, DoutAddr}
      /\ DinAddr # DoutAddr
      /\ \A k \in Index : TapAddr(k) \notin {CtrlAddr, DinAddr, DoutAddr}
  BY AddrFacts
<1>4. pc = "taps" => i \in Index
  BY DEF PInv, ProgramInv
<1>5. CASE pc \in {"taps", "datalength"}
  <2>1. adr \notin {CtrlAddr, DinAddr, DoutAddr}
    BY <1>1, <1>3, <1>4, <1>5, AccessFacts
  <2> QED
    BY <1>1, <1>2, <1>5, <2>1 DEF software
<1>6. CASE pc = "start"
  BY <1>1, <1>2, <1>3, <1>6, AccessFacts DEF Starts
<1>7. CASE pc \in {"first_config", "poll_send", "poll_fetch", "last_config"}
  <2>1. ReadsStatus
    BY <1>1, <1>7, AccessFacts
  <2>2. StatusHeld
    BY <1>1, <2>1 DEF UInv, KnowledgeInv, StatusWord
  <2>3. PICK w \in Nat : /\ read_data = AsSum(w) /\ StillTrue(w)
                         /\ Bit1(w) => current_state = "S_IDLE"
    BY <1>1, <2>2 DEF StatusHeld
  <2>4. AsWord(read_data) = w
    BY <2>3 DEF AsSum, AsWord
  <2> QED
    BY <1>1, <1>2, <1>3, <1>7, <2>1, <2>3, <2>4 DEF ReadsStatus, StillTrue
<1>8. CASE pc \in {"d_in", "d_out"}
  BY <1>1, <1>2, <1>3, <1>8, AccessFacts
<1>9. CASE pc \notin {"taps", "datalength", "start", "first_config", "poll_send", "d_in",
                      "poll_fetch", "d_out", "last_config"}
  BY <1>1, <1>9
<1> QED
  BY <1>5, <1>6, <1>7, <1>8, <1>9

\* The program is where it believes to be: no poll ends the run but the last.
LEMMA ProgramStep ==
  ASSUME UInv, PInv, Edge, Pauses \/ GoesOn \/ Completes
  PROVE  ProgramInv'
<1>1. ProgramInv
  BY DEF PInv
<1>2. CASE Pauses \/ GoesOn
  <2>1. /\ pc' = pc /\ i' = i /\ calls' = calls
        /\ started' = started /\ toSend' = toSend /\ program_config' = program_config
    BY <1>2 DEF Pauses, GoesOn, Holds, local, software
  <2>2. Request' = Request
    BY <2>1 DEF Request
  <2>3. axi_enable' =>
          pc # "returned" /\ we' = Request.we /\ adr' = Request.adr /\ dat' = Request.dat
    BY <1>1, <1>2 DEF Pauses, GoesOn, Holds, axi_enable, ProgramInv
  <2>4. Request = [we |-> Request.we, adr |-> Request.adr, dat |-> Request.dat]
    BY <1>1, PlaceFacts DEF ProgramInv, WriteOf, ReadOf
  <2> QED
    BY <1>1, <2>1, <2>2, <2>3, <2>4 DEF ProgramInv, InRun
<1>3. CASE Completes
  <2>1. Ends /\ Proceed
    BY <1>3 DEF Completes
  <2>2. ~axi_enable' /\ axi_enable /\ pc # "returned" /\ waited >= 1
    BY <2>1, Learns, AccessFacts
  <2>3. N \in Nat \ {0} /\ Tape_Num \in 2 .. 15
    BY FirControlAssumption, FirAssumption
  <2>4. CASE pc \in {"taps", "datalength"}
    BY <1>1, <2>1, <2>2, <2>3, <2>4, Learns
       DEF Proceed, ProgramInv, InRun, software, Index, LastIndex
  <2>5. CASE pc = "start"
    BY <1>1, <2>1, <2>2, <2>5, Learns DEF Proceed, ProgramInv, InRun
  <2>6. CASE pc \in {"first_config", "poll_send"}
    <3>1. current_state # "S_IDLE"
      BY <2>6 DEF PInv, Sending
    <3>2. started' = TRUE /\ toSend' = TRUE
      BY <1>1, <2>1, <2>6, <3>1, Learns DEF ProgramInv, InRun
    <3>3. i \in 0 .. N - 1 /\ i # N
      BY <1>1, <2>3, <2>6 DEF ProgramInv
    <3>4. /\ pc' = IF ReadyToSend(program_config') THEN "d_in" ELSE "poll_send"
          /\ i' = i /\ calls' = calls
      BY <2>1, <2>6, <3>3 DEF Proceed, Loop
    <3> QED
      BY <1>1, <2>2, <3>2, <3>3, <3>4 DEF ProgramInv, InRun
  <2>7. CASE pc \in {"d_in", "poll_fetch"}
    <3>1. pc = "poll_fetch" => current_state # "S_IDLE"
      BY <2>7 DEF PInv, Fetching
    <3>2. started' = TRUE /\ toSend' = FALSE
      BY <1>1, <2>1, <2>7, <3>1, Learns DEF ProgramInv, InRun
    <3>3. i \in 0 .. N - 1
      BY <1>1, <2>7 DEF ProgramInv
    <3>4. /\ pc' = IF ReadyToFetch(program_config') THEN "d_out" ELSE "poll_fetch"
          /\ i' = i /\ calls' = calls
      BY <2>1, <2>7 DEF Proceed
    <3> QED
      BY <1>1, <2>2, <3>2, <3>3, <3>4 DEF ProgramInv, InRun
  <2>8. CASE pc = "d_out"
    <3>1. started' = TRUE /\ toSend' = TRUE
      BY <1>1, <2>1, <2>8, Learns DEF ProgramInv, InRun
    <3>2. i \in 0 .. N - 1
      BY <1>1, <2>8 DEF ProgramInv
    <3>3. /\ pc' = IF i' = N THEN "last_config"
                   ELSE IF ReadyToSend(program_config') THEN "d_in" ELSE "poll_send"
          /\ i' = i + 1 /\ calls' = calls
      BY <2>1, <2>8 DEF Proceed, Loop
    <3>4. i' = N \/ i' \in 0 .. N - 1
      BY <2>3, <3>2, <3>3
    <3> QED
      BY <1>1, <2>2, <3>1, <3>3, <3>4 DEF ProgramInv, InRun
  <2>9. CASE pc = "last_config"
    <3>1. Bit1(AsWord(read_data))
      BY <2>1, <2>9, Learns DEF PInv, Finishing
    <3>2. started' = FALSE /\ toSend' = TRUE
      BY <1>1, <2>1, <2>9, <3>1, Learns DEF ProgramInv
    <3>3. pc' \in {"returned", "taps"} /\ i' = 0 /\ calls' = calls + 1
      BY <2>1, <2>9 DEF Proceed, Return
    <3>4. calls' \in Nat /\ 0 \in Index
      BY <1>1, <2>3, <3>3 DEF ProgramInv, Index
    <3>5. InRun' = FALSE
      BY <3>3 DEF InRun
    <3> QED
      BY <2>2, <3>2, <3>3, <3>4, <3>5 DEF ProgramInv
  <2> QED
    BY <1>1, <2>2, <2>4, <2>5, <2>6, <2>7, <2>8, <2>9 DEF ProgramInv
<1> QED
  BY <1>2, <1>3

-----------------------------------------------------------------------------
(* What the engine makes of the accesses.                                  *)

\* The tap and the sample under way reach the engine with the handshake.
LEMMA DataNext ==
  ASSUME UInv, PInv, Edge
  PROVE  /\ tap_ram' = IF pc = "taps" /\ axi_enable /\ waited < 2
                       THEN [tap_ram EXCEPT ![i] = TapValues[i]] ELSE tap_ram
         /\ length' = IF pc = "datalength" /\ axi_enable /\ waited < 2 THEN N ELSE length
         /\ accepted' = IF current_state = "S_IDLE" THEN <<>>
                        ELSE IF pc = "d_in" /\ axi_enable /\ waited = 0
                        THEN Append(accepted, InputSignal[i]) ELSE accepted
<1>1. /\ RequestInv /\ DelayInv /\ ChannelInv
      /\ pc = "taps" => i \in Index
  BY DEF UInv, PInv, ProgramInv
<1>2. /\ LiteWrites => axi_enable
      /\ StreamWrites => axi_enable
  BY DEF LiteWrites, StreamWrites
<1>3. /\ Ports.awvalid <=> LiteWrites /\ waited < 2
      /\ Ports.awaddr = adr /\ Ports.wdata = dat
      /\ StreamWrites => Ports.ss_tdata = dat
  BY <1>1, PortFacts
<1>4. TapRam(Ports) /\ Record(Ports)
  BY DEF Edge, Clock
<1>5. ASSUME pc = "taps" /\ axi_enable /\ waited < 2
      PROVE  tap_ram' = [tap_ram EXCEPT ![i] = TapValues[i]]
  <2>1. tap_WE(Ports) /\ tap_A(Ports) = i
    BY <1>1, <1>3, <1>5, AccessFacts, TapAddrFacts DEF tap_WE, tap_A
  <2> QED
    BY <1>3, <1>4, <1>5, <2>1, AccessFacts DEF TapRam
<1>6. ASSUME ~(pc = "taps" /\ axi_enable /\ waited < 2)
      PROVE  tap_ram' = tap_ram
  <2>1. LiteWrites /\ waited < 2 => adr \in {CtrlAddr, LenAddr}
    BY <1>2, <1>6, AccessFacts
  <2>2. ~tap_WE(Ports)
    BY <1>3, <2>1, AddrFacts DEF tap_WE
  <2> QED
    BY <1>4, <1>6, <2>2 DEF TapRam
<1>7. length' = IF pc = "datalength" /\ axi_enable /\ waited < 2 THEN N ELSE length
  <2>1. length' = IF LiteWrites /\ waited < 2 /\ adr = LenAddr THEN dat ELSE length
    BY Polls, EngineNext
  <2>2. LenAddr # CtrlAddr /\ \A k \in Index : TapAddr(k) # LenAddr
    BY TapAddrFacts, AddrFacts
  <2> QED
    BY <1>1, <1>2, <2>1, <2>2, AccessFacts
<1>8. accepted' = IF current_state = "S_IDLE" THEN <<>>
                  ELSE IF pc = "d_in" /\ axi_enable /\ waited = 0
                  THEN Append(accepted, InputSignal[i]) ELSE accepted
  <2>1. ss_fire(Ports) <=> StreamWrites /\ waited = 0
    BY Polls, Handshakes
  <2>2. StreamWrites <=> axi_enable /\ pc = "d_in"
    BY <1>2, AccessFacts
  <2>3. StreamWrites => Ports.ss_tdata = InputSignal[i]
    BY <1>3, <2>2, AccessFacts
  <2> QED
    BY <1>4, <2>1, <2>2, <2>3 DEF Record
<1> QED
  BY <1>5, <1>6, <1>7, <1>8

\* Where an access stands after a clock.
LEMMA WaitedNext ==
  ASSUME UInv, PInv, Edge, Pauses \/ GoesOn \/ Completes
  PROVE  /\ waited \in Nat /\ (~axi_enable => waited = 0)
         /\ Pauses => ~axi_enable /\ waited' = 0
         /\ GoesOn => axi_enable /\ waited' = waited + 1
         /\ Completes => axi_enable /\ waited >= 4 /\ waited' = 0
         /\ Pauses \/ GoesOn => pc' = pc /\ i' = i /\ outputsignal' = outputsignal
<1>1. Completes => Ends /\ waited >= 4 /\ axi_enable
  BY UserProjectAssumption DEF UInv, DelayInv, Completes, Ends, AccessEnds
<1>2. Holds => axi_enable /\ waited' = waited + 1
  BY PolledFacts DEF Holds
<1> QED
  BY <1>1, <1>2 DEF UInv, DelayInv, Pauses, Rests, GoesOn, Ends, local

\* A tap or the length that was written stays until the next call.
LEMMA SettingsStep ==
  ASSUME UInv, PInv, Edge, Pauses \/ GoesOn \/ Completes
  PROVE  SettingsInv'
<1>1. /\ ProgramInv /\ SettingsInv
      /\ tap_ram \in [Index -> Words]
      /\ \A k \in Index : k \in Nat
  BY DEF PInv, UInv, EInv, TypeOK, Index
<1>2. Completes => Proceed
  BY DEF Completes
<1>3. ASSUME NEW k \in Index, pc' = "taps" => k < i' \/ (k = i' /\ waited' >= 1)
      PROVE  tap_ram'[k] = TapValues[k]
  <2>1. pc = "taps" => k < i \/ (k = i /\ (waited >= 1 \/ axi_enable))
    <3>1. CASE Pauses \/ GoesOn
      BY <1>3, <3>1, WaitedNext
    <3>2. CASE Completes /\ pc = "taps"
      <4>1. i \in Index /\ Index = 0 .. LastIndex /\ LastIndex \in Nat
        BY <1>1, <3>2, FirAssumption DEF ProgramInv, Index, LastIndex
      <4>2. IF i = LastIndex THEN TRUE ELSE pc' = "taps" /\ i' = i + 1
        BY <1>2, <3>2 DEF Proceed
      <4>3. waited' = 0 /\ axi_enable
        BY <3>2, WaitedNext
      <4>4. k <= i
        BY <1>3, <4>1, <4>2, <4>3
      <4> QED
        BY <4>1, <4>3, <4>4
    <3> QED
      BY <3>1, <3>2
  <2>2. CASE pc = "taps" /\ k = i /\ axi_enable /\ waited < 2
    <3>1. tap_ram' = [tap_ram EXCEPT ![i] = TapValues[i]]
      BY <2>2, DataNext
    <3> QED
      BY <1>1, <2>2, <3>1
  <2>3. CASE ~(pc = "taps" /\ k = i /\ axi_enable /\ waited < 2)
    <3>1. tap_ram[k] = TapValues[k]
      BY <1>1, <2>1, <2>3, WaitedNext DEF SettingsInv
    <3>2. tap_ram'[k] = tap_ram[k]
      BY <1>1, <2>3, DataNext
    <3> QED
      BY <3>1, <3>2
  <2> QED
    BY <2>2, <2>3
<1>4. ASSUME InRun' \/ pc' = "start" \/ (pc' = "datalength" /\ waited' >= 1)
      PROVE  length' = N
  <2>1. InRun \/ pc = "start" \/ (pc = "datalength" /\ (waited >= 1 \/ axi_enable))
    <3>1. CASE Pauses \/ GoesOn
      BY <1>4, <3>1, WaitedNext DEF InRun
    <3>2. CASE Completes
      <4>1. waited' = 0 /\ axi_enable /\ pc # "returned"
        BY <3>2, WaitedNext, AccessFacts
      <4>2. pc = "taps" => pc' \in {"taps", "datalength"}
        BY <1>2, <3>2 DEF Proceed
      <4> QED
        BY <1>1, <1>4, <4>1, <4>2 DEF InRun, ProgramInv
    <3> QED
      BY <3>1, <3>2
  <2>2. CASE pc = "datalength" /\ axi_enable /\ waited < 2
    BY <2>2, DataNext
  <2>3. CASE ~(pc = "datalength" /\ axi_enable /\ waited < 2)
    <3>1. length = N
      BY <1>1, <2>1, <2>3, WaitedNext DEF SettingsInv
    <3> QED
      BY <2>3, <3>1, DataNext
  <2> QED
    BY <2>2, <2>3
<1> QED
  BY <1>3, <1>4 DEF SettingsInv

\* The samples a program sends one after the other.
LEMMA InputFacts ==
  ASSUME NEW n \in 0 .. N
  PROVE  /\ InputsTo(n) \in Seq(Words) /\ Len(InputsTo(n)) = n
         /\ n = 0 => InputsTo(n) = <<>>
         /\ n < N => InputsTo(n + 1) = Append(InputsTo(n), InputSignal[n])
         /\ \A j \in 1 .. n : SubSeq(InputsTo(n), 1, j) = InputsTo(j)
<1>1. /\ N \in Nat \ {0} /\ n \in Nat
      /\ \A k \in 0 .. N - 1 : InputSignal[k] \in Words
  <2>1. \A k \in 0 .. N - 1 : InputSignal[k] \in Samples
    BY FirControlAssumption
  <2>2. Samples \subseteq Words
    BY FirAssumption DEF Words
  <2>3. N \in Nat \ {0}
    BY FirControlAssumption
  <2> QED
    BY <2>1, <2>2, <2>3
<1>2. ASSUME NEW m \in 0 .. N
      PROVE  InputsTo(m) \in Seq(Words) /\ Len(InputsTo(m)) = m
  <2>1. \A k \in 1 .. m : InputSignal[k - 1] \in Words
    BY <1>1
  <2>2. m \in Nat /\ InputsTo(m) \in [1 .. m -> Words]
    BY <1>1, <2>1 DEF InputsTo
  <2> QED
    BY <2>2
<1>3. n = 0 => InputsTo(n) = <<>>
  BY <1>2, EmptySeq
<1>4. ASSUME n < N PROVE InputsTo(n + 1) = Append(InputsTo(n), InputSignal[n])
  <2>. DEFINE a == Append(InputsTo(n), InputSignal[n])
  <2>1. n + 1 \in 0 .. N /\ n \in 0 .. N - 1
    BY <1>1, <1>4
  <2>2. InputsTo(n + 1) \in Seq(Words) /\ Len(InputsTo(n + 1)) = n + 1
    BY <1>2, <2>1
  <2>3. /\ a \in Seq(Words) /\ Len(a) = n + 1 /\ a[n + 1] = InputSignal[n]
        /\ \A j \in 1 .. n : a[j] = InputsTo(n)[j]
    BY <1>1, <1>2, <2>1, AppendProperties
  <2>4. \A j \in 1 .. n + 1 : InputsTo(n + 1)[j] = a[j]
    BY <1>1, <2>3 DEF InputsTo
  <2>. HIDE DEF a
  <2> QED
    BY <2>2, <2>3, <2>4, SeqEqual DEF a
<1>5. ASSUME NEW j \in 1 .. n PROVE SubSeq(InputsTo(n), 1, j) = InputsTo(j)
  <2>. DEFINE p == SubSeq(InputsTo(n), 1, j)
  <2>1. j \in 0 .. N /\ InputsTo(j) \in Seq(Words) /\ Len(InputsTo(j)) = j
    BY <1>1, <1>2
  <2>2. /\ p \in Seq(Words) /\ Len(p) = j
        /\ \A k \in 1 .. j : p[k] = InputsTo(n)[k]
    BY <1>1, <1>2, SubSeqProperties
  <2>3. \A k \in 1 .. j : p[k] = InputsTo(j)[k]
    BY <1>1, <2>2 DEF InputsTo
  <2>. HIDE DEF p
  <2> QED
    BY <2>1, <2>2, <2>3, SeqEqual DEF p
<1> QED
  BY <1>2, <1>3, <1>4, <1>5

\* From the start to the first sample, and from an output to the next one.
LEMMA SendingStep ==
  ASSUME UInv, PInv, Edge, Pauses \/ GoesOn \/ Completes
  PROVE  Starting' /\ Sending'
<1>1. /\ ProgramInv /\ SettingsInv /\ Starting /\ Sending /\ Fetching
      /\ EngineInv /\ RunInStep /\ PipelineInStep
  BY DEF PInv, UInv, EInv
<1>2. /\ waited \in Nat /\ (~axi_enable => waited = 0)
      /\ StreamWrites => axi_enable /\ pc = "d_in"
      /\ StreamReads => axi_enable /\ pc = "d_out"
      /\ LiteWrites => axi_enable
  BY WaitedNext, AccessFacts DEF StreamWrites, StreamReads, LiteWrites
<1>3. ap_start' <=> IF LiteWrites /\ waited < 2 /\ adr = CtrlAddr THEN dat % 2 = 1
                    ELSE ap_start /\ ~(StreamWrites /\ waited = 0)
  BY Polls, EngineNext
<1>4. /\ current_state = "S_IDLE" =>
           current_state' = IF ap_start THEN "S_INIT_SRAM" ELSE "S_IDLE"
      /\ current_state = "S_INIT_SRAM" => current_state' \in {"S_INIT_SRAM", "S_GET_DATA"}
      /\ current_state = "S_GET_DATA" =>
           current_state' = IF StreamWrites /\ waited = 0 THEN "S_CAL" ELSE "S_GET_DATA"
  BY Polls, EngineNext
<1>5. accepted' = IF current_state = "S_IDLE" THEN <<>>
                  ELSE IF pc = "d_in" /\ axi_enable /\ waited = 0
                  THEN Append(accepted, InputSignal[i]) ELSE accepted
  BY DataNext
<1>6. Starting'
  <2>1. SUFFICES ASSUME pc' = "start", waited' >= 1
                 PROVE  /\ waited' = 1 => ap_start' /\ current_state' = "S_IDLE"
                        /\ waited' >= 2 => /\ current_state' \in {"S_INIT_SRAM", "S_GET_DATA"}
                                           /\ accepted' = <<>>
    BY <1>2, WaitedNext DEF Starting
  <2>2. GoesOn /\ pc = "start" /\ axi_enable /\ waited' = waited + 1
    BY <2>1, WaitedNext
  <2>3. LiteWrites /\ adr = CtrlAddr /\ dat = 1 /\ ~StreamWrites /\ ~started
    BY <1>1, <1>2, <2>2, AccessFacts DEF ProgramInv, InRun
  <2>4. CASE waited = 0
    <3>1. current_state = "S_IDLE" /\ ~ap_start
      BY <1>1, <2>3, <2>4 DEF EngineInv
    <3> QED
      BY <1>3, <1>4, <2>2, <2>3, <2>4, <3>1
  <2>5. CASE waited >= 1
    <3>1. waited = 1 => ap_start /\ current_state = "S_IDLE"
      BY <1>1, <2>2 DEF Starting
    <3>2. waited >= 2 => /\ current_state \in {"S_INIT_SRAM", "S_GET_DATA"}
                         /\ accepted = <<>>
      BY <1>1, <2>2 DEF Starting
    <3> QED
      BY <1>2, <1>4, <1>5, <2>2, <2>3, <2>5, <3>1, <3>2
  <2> QED
    BY <1>2, <2>4, <2>5
<1>7. Sending'
  <2>1. SUFFICES ASSUME pc' \in {"first_config", "poll_send"} \/ (pc' = "d_in" /\ waited' = 0)
                 PROVE  /\ current_state' \in {"S_INIT_SRAM", "S_GET_DATA"}
                        /\ accepted' = InputsTo(i')
    BY DEF Sending, InputsTo
  <2>2. CASE Pauses \/ GoesOn
    <3>1. /\ pc \in {"first_config", "poll_send"} \/ (pc = "d_in" /\ ~axi_enable)
          /\ i' = i /\ waited' >= waited
      BY <1>2, <2>1, <2>2, WaitedNext
    <3>2. current_state \in {"S_INIT_SRAM", "S_GET_DATA"} /\ accepted = InputsTo(i)
      BY <1>1, <1>2, <3>1 DEF Sending
    <3> QED
      BY <1>2, <1>4, <1>5, <3>1, <3>2
  <2>3. CASE Completes
    <3>1. Proceed /\ axi_enable /\ waited >= 4 /\ waited' = 0 /\ pc # "returned"
      BY <2>3, WaitedNext, AccessFacts DEF Completes
    <3>2. CASE pc = "start"
      <4>1. /\ current_state \in {"S_INIT_SRAM", "S_GET_DATA"} /\ accepted = <<>>
            /\ i' = 0
        BY <1>1, <1>2, <3>1, <3>2 DEF Starting, ProgramInv, Proceed
      <4>2. 0 \in 0 .. N
        BY FirControlAssumption
      <4>3. InputsTo(0) = <<>>
        BY <4>2, InputFacts
      <4> QED
        BY <1>2, <1>4, <1>5, <3>1, <3>2, <4>1, <4>3
    <3>3. CASE pc \in {"first_config", "poll_send"}
      <4>1. /\ current_state \in {"S_INIT_SRAM", "S_GET_DATA"} /\ accepted = InputsTo(i)
            /\ i # N
        BY <1>1, <3>1, <3>3, FirControlAssumption DEF Sending, ProgramInv
      <4>2. i' = i
        BY <3>1, <3>3 DEF Proceed
      <4> QED
        BY <1>2, <1>4, <1>5, <3>3, <4>1, <4>2
    <3>4. CASE pc = "d_out"
      <4>1. i' = i + 1 /\ i' # N
        BY <2>1, <3>1, <3>4 DEF Proceed, Loop
      <4>2. accepted = InputsTo(i + 1) /\ i + 1 \in 0 .. N /\ length = N
        BY <1>1, <3>4, FirControlAssumption DEF Fetching, ProgramInv, SettingsInv, InRun
      <4>3. Len(accepted) # length
        BY <4>1, <4>2, InputFacts
      <4>4. current_state = "S_GET_DATA"
        <5>1. StreamReads
          BY <3>1, <3>4, AccessFacts
        <5> QED
          BY <1>1, <1>2, <3>1, <4>3, <5>1, PolledFacts DEF RunInStep
      <4> QED
        BY <1>2, <1>4, <1>5, <3>1, <3>4, <4>1, <4>2, <4>4
    <3>5. CASE pc \in {"taps", "datalength", "d_in", "poll_fetch", "last_config"}
      <4>1. pc' \notin {"first_config", "poll_send", "d_in"}
        BY <3>1, <3>5 DEF Proceed, Return
      <4> QED
        BY <2>1, <4>1
    <3> QED
      BY <1>1, <3>1, <3>2, <3>3, <3>4, <3>5 DEF ProgramInv
  <2> QED
    BY <2>2, <2>3
<1> QED
  BY <1>6, <1>7

\* From the handshake of a sample to the handshake of its output.
LEMMA FetchingStep ==
  ASSUME UInv, PInv, Edge, Pauses \/ GoesOn \/ Completes
  PROVE  Fetching'
<1>1. ProgramInv /\ Sending /\ Fetching /\ EngineInv /\ KnowledgeInv /\ RunInStep
  BY DEF PInv, UInv, EInv
<1>2. /\ waited \in Nat /\ (~axi_enable => waited = 0)
      /\ StreamWrites => axi_enable /\ pc = "d_in"
      /\ StreamReads => axi_enable /\ pc = "d_out"
  BY WaitedNext, AccessFacts DEF StreamWrites, StreamReads
<1>3. /\ current_state = "S_GET_DATA" =>
           current_state' = IF StreamWrites /\ waited = 0 THEN "S_CAL" ELSE "S_GET_DATA"
      /\ current_state = "S_CAL" => current_state' \in {"S_CAL", "S_SHIFT"}
      /\ current_state = "S_SHIFT" => current_state' = "S_WAIT"
      /\ current_state = "S_WAIT" =>
           IF StreamReads /\ waited = 0
           THEN current_state' \in {"S_WAIT_AP_DONE", "S_GET_DATA"}
           ELSE current_state' = "S_WAIT"
  BY PolledFacts, EngineNext, Handshakes
<1>4. accepted' = IF current_state = "S_IDLE" THEN <<>>
                  ELSE IF pc = "d_in" /\ axi_enable /\ waited = 0
                  THEN Append(accepted, InputSignal[i]) ELSE accepted
  BY DataNext
<1>5. SUFFICES ASSUME pc' \in {"poll_fetch", "d_out"} \/ (pc' = "d_in" /\ waited' >= 1)
               PROVE  /\ \/ current_state' \in {"S_CAL", "S_SHIFT", "S_WAIT"}
                         \/ pc' = "d_out" /\ waited' >= 1
                      /\ accepted' = InputsTo(i' + 1)
  BY DEF Fetching, InputsTo
\* The sample is taken.
<1>6. CASE pc = "d_in" /\ axi_enable /\ waited = 0
  <2>1. StreamWrites /\ current_state = "S_GET_DATA" /\ accepted = InputsTo(i)
    <3>1. StreamWrites
      BY <1>6, AccessFacts
    <3>2. started /\ CanSend
      BY <1>1, <1>6 DEF ProgramInv, InRun, CanSend, ReadyToSend
    <3>3. ss_tready
      BY <1>1, <1>6, <3>1, <3>2 DEF KnowledgeInv
    <3> QED
      BY <1>1, <1>6, <3>1, <3>3 DEF RunInStep, Sending
  <2>2. GoesOn /\ pc' = pc /\ i' = i
    BY <1>6, WaitedNext
  <2>3. i \in 0 .. N /\ i < N
    BY <1>1, <1>6, FirControlAssumption DEF ProgramInv
  <2> QED
    BY <1>3, <1>4, <1>6, <2>1, <2>2, <2>3, InputFacts
\* The output is computed, offered and taken.
<1>7. CASE pc \in {"poll_fetch", "d_out"} \/ (pc = "d_in" /\ waited >= 1)
  <2>1. /\ current_state \in {"S_CAL", "S_SHIFT", "S_WAIT"} \/ (pc = "d_out" /\ waited >= 1)
        /\ accepted = InputsTo(i + 1)
    BY <1>1, <1>7 DEF Fetching
  <2>2. i' = i
    <3>1. CASE Pauses \/ GoesOn
      BY <3>1, WaitedNext
    <3>2. CASE Completes
      BY <1>5, <1>7, <3>2, WaitedNext DEF Completes, Proceed, Loop
    <3> QED
      BY <3>1, <3>2
  <2>3. current_state # "S_IDLE"
    <3>1. CASE pc = "d_out" /\ waited >= 1
      <4>1. StreamReads
        BY <1>2, <3>1, AccessFacts
      <4> QED
        BY <3>1, <4>1, PolledFacts
    <3> QED
      BY <2>1, <3>1
  <2>4. accepted' = InputsTo(i' + 1)
    BY <1>2, <1>4, <1>7, <2>1, <2>2, <2>3
  <2>5. CASE pc' = "d_out" /\ waited' >= 1
    BY <2>4, <2>5
  <2>6. CASE ~(pc' = "d_out" /\ waited' >= 1)
    <3>1. ~(pc = "d_out" /\ waited >= 1)
      <4>1. CASE Pauses \/ GoesOn
        BY <1>2, <2>6, <4>1, WaitedNext
      <4>2. CASE Completes
        BY <1>5, <1>7, <4>2, WaitedNext DEF Completes, Proceed, Loop
      <4> QED
        BY <4>1, <4>2
    <3>2. ~(StreamReads /\ waited = 0)
      <4>1. ASSUME StreamReads, waited = 0 PROVE FALSE
        <5>1. GoesOn /\ pc' = pc /\ waited' = 1
          BY <1>2, <4>1, WaitedNext
        <5> QED
          BY <1>2, <2>6, <4>1, <5>1
      <4> QED
        BY <4>1
    <3> QED
      BY <1>3, <2>1, <2>4, <3>1, <3>2
  <2> QED
    BY <2>5, <2>6
<1>8. CASE ~(pc \in {"poll_fetch", "d_out"} \/ (pc = "d_in" /\ waited >= 1))
           /\ ~(pc = "d_in" /\ axi_enable /\ waited = 0)
  <2>1. CASE Pauses \/ GoesOn
    BY <1>2, <1>5, <1>8, <2>1, WaitedNext
  <2>2. CASE Completes
    <3>1. pc \in {"taps", "datalength", "start", "first_config", "poll_send", "last_config"}
      BY <1>1, <1>8, <2>2, WaitedNext, AccessFacts DEF ProgramInv
    <3> QED
      BY <1>5, <2>2, <3>1, WaitedNext DEF Completes, Proceed, Loop, Return
  <2> QED
    BY <2>1, <2>2
<1> QED
  BY <1>6, <1>7, <1>8

\* From the last output to the status word that says that it was the last.
LEMMA FinishingStep ==
  ASSUME UInv, PInv, Edge, Pauses \/ GoesOn \/ Completes
  PROVE  Finishing'
<1>1. /\ ProgramInv /\ SettingsInv /\ Fetching /\ Finishing
      /\ EngineInv /\ KnowledgeInv /\ ChannelInv /\ RunInStep
      /\ current_state \in States
  BY DEF PInv, UInv, EInv, TypeOK
<1>2. /\ waited \in Nat /\ (~axi_enable => waited = 0)
      /\ axi_enable => (StreamReads <=> pc = "d_out")
      /\ axi_enable => (LiteReads <=> pc \in {"first_config", "poll_send", "poll_fetch",
                                              "last_config"})
      /\ LiteReads => axi_enable
      /\ StreamReads => axi_enable
  BY WaitedNext, AccessFacts DEF StreamReads, LiteReads
<1>3. /\ ap_done' <=> \/ current_state = "S_WAIT_AP_DONE"
                      \/ ap_done /\ current_state # "S_IDLE"
      /\ current_state = "S_GET_DATA" =>
           current_state' = IF StreamWrites /\ waited = 0 THEN "S_CAL" ELSE "S_GET_DATA"
      /\ current_state = "S_WAIT_AP_DONE" =>
           current_state' = IF rvalid /\ Bit1(rdata) THEN "S_IDLE" ELSE "S_WAIT_AP_DONE"
  BY Polls, EngineNext
<1>4. pc' = "d_out" /\ current_state' = "S_WAIT_AP_DONE" /\ waited' >= 2 => ap_done'
  <2>1. SUFFICES ASSUME pc' = "d_out", current_state' = "S_WAIT_AP_DONE", waited' >= 2
                 PROVE  ap_done'
    OBVIOUS
  <2>2. pc = "d_out" /\ axi_enable /\ waited >= 1
    BY <1>2, <2>1, WaitedNext
  <2>3. StreamReads
    BY <1>2, <2>2
  <2>4. current_state \in {"S_GET_DATA", "S_WAIT_AP_DONE"}
    BY <2>2, <2>3, PolledFacts
  <2>5. current_state = "S_WAIT_AP_DONE"
    BY <1>3, <2>1, <2>4
  <2> QED
    BY <1>3, <2>5
<1>5. ASSUME pc' = "last_config"
      PROVE  /\ waited' <= 1 => current_state' = "S_WAIT_AP_DONE" /\ ap_done'
             /\ waited' = 2 => Bit1(rdata')
             /\ waited' >= 3 => Bit1(AsWord(read_data'))
  <2>1. CASE Completes
    <3>1. Proceed /\ axi_enable /\ waited >= 4 /\ waited' = 0 /\ pc # "returned"
      BY <2>1, WaitedNext, AccessFacts DEF Completes
    <3>2. N \in Nat \ {0} /\ (pc \in {"first_config", "poll_send"} => i # N)
      BY <1>1, FirControlAssumption DEF ProgramInv
    <3>3. pc = "d_out" /\ i + 1 = N
      BY <1>1, <1>5, <3>1, <3>2 DEF Proceed, Loop, Return, ProgramInv
    <3>4. accepted = InputsTo(N) /\ length = N
      BY <1>1, <3>3 DEF Fetching, SettingsInv, InRun
    <3>5. Len(accepted) = length
      BY <3>2, <3>4, InputFacts
    <3>6. StreamReads /\ ~LiteReads
      BY <1>2, <3>1, <3>3
    <3>7. current_state = "S_WAIT_AP_DONE"
      BY <1>1, <1>2, <3>1, <3>5, <3>6, PolledFacts DEF RunInStep
    <3>8. ~rvalid
      BY <1>1, <3>6 DEF ChannelInv
    <3> QED
      BY <1>3, <3>1, <3>7, <3>8
  <2>2. CASE Pauses
    <3>1. waited = 0 /\ waited' = 0 /\ pc = "last_config" /\ ~LiteReads
      BY <1>2, <1>5, <2>2, WaitedNext
    <3>2. ~rvalid
      BY <1>1, <3>1 DEF ChannelInv
    <3> QED
      BY <1>1, <1>3, <3>1, <3>2 DEF Finishing
  <2>3. CASE GoesOn
    <3>1. axi_enable /\ waited' = waited + 1 /\ pc = "last_config" /\ LiteReads /\ Holds
      BY <1>2, <1>5, <2>3, WaitedNext DEF GoesOn
    <3>2. /\ adr = CtrlAddr /\ OutCycle = 1
      BY <3>1, AccessFacts, AddrFacts DEF ReadsStatus, OutCycle
    <3>3. /\ rvalid <=> waited = 2
          /\ waited = 1 => axi_current_state = "AXI_READ_OUT" /\ save_araddr = adr % 64
      BY <1>1, <1>2, <3>1, <3>2 DEF ChannelInv
    <3>4. CASE waited = 0
      BY <1>1, <1>3, <3>1, <3>3, <3>4 DEF Finishing
    <3>5. CASE waited = 1
      <4>1. rdata' = IF axi_current_state = "AXI_READ_OUT" THEN ReadWord ELSE 0
        BY Polls, ChannelNext
      <4>2. save_araddr = CtrlAddr
        BY <3>2, <3>3, <3>5 DEF CtrlAddr
      <4>3. rdata' = Status
        BY <3>3, <3>5, <4>1, <4>2 DEF ReadWord, CtrlAddr, LenAddr
      <4>4. ap_done
        BY <1>1, <3>1, <3>5 DEF Finishing
      <4> QED
        BY <3>1, <3>5, <4>3, <4>4, StatusBits
    <3>6. CASE waited >= 2
      <4>1. read_data' = IF rvalid THEN AsSum(rdata) ELSE read_data
        <5>1. ~StreamReads
          BY <3>1, KindsApart
        <5> QED
          BY <3>1, <5>1, PolledFacts, ReadNext
      <4>2. waited = 2 => Bit1(AsWord(read_data'))
        BY <1>1, <3>1, <3>3, <4>1 DEF Finishing, AsSum, AsWord
      <4>3. waited >= 3 => Bit1(AsWord(read_data'))
        BY <1>1, <1>2, <3>1, <3>3, <4>1 DEF Finishing
      <4> QED
        BY <1>2, <3>1, <3>6, <4>2, <4>3
    <3> QED
      BY <1>2, <3>4, <3>5, <3>6
  <2> QED
    BY <2>1, <2>2, <2>3
<1> QED
  BY <1>4, <1>5 DEF Finishing, AsWord

-----------------------------------------------------------------------------
(* The outputs.                                                            *)

\* The word that an access to d_out brings is the output of the samples sent.
LEMMA OutputRead ==
  ASSUME UInv, PInv, OutputsAreConvolutions, Edge, Completes, pc = "d_out"
  PROVE  read_data \in Sums /\ read_data = Expected(i + 1)
<1>1. /\ ProgramInv /\ SettingsInv /\ Fetching /\ EngineInv /\ FreshInv
      /\ OneOutputPerSample
      /\ tap_ram \in [Index -> Words] /\ emitted \in Seq(Sums) /\ accepted \in Seq(Words)
  BY DEF PInv, UInv, EInv, TypeOK
<1>2. StreamReads /\ waited \in Nat /\ waited >= 1
  BY WaitedNext, AccessFacts
<1>3. current_state \in {"S_GET_DATA", "S_WAIT_AP_DONE"}
  BY <1>2, PolledFacts
<1>4. i + 1 \in 1 .. N /\ i + 1 \in 0 .. N /\ accepted = InputsTo(i + 1)
  BY <1>1, FirControlAssumption DEF ProgramInv, Fetching
<1>5. Len(accepted) = i + 1
  BY <1>4, InputFacts
<1>6. Len(emitted) = i + 1
  <2>1. Len(accepted) = Len(emitted) + 0
    BY <1>1, <1>3 DEF OneOutputPerSample, Bit
  <2>2. Len(emitted) \in Nat
    BY <1>1, LenProperties
  <2> QED
    BY <1>5, <2>1, <2>2
<1>7. read_data = emitted[i + 1]
  BY <1>2, <1>6, PolledFacts
<1>8. emitted[i + 1] = Y(SubSeq(accepted, 1, i + 1))
  BY <1>1, <1>3, <1>4, <1>6 DEF OutputsAreConvolutions
<1>9. SubSeq(accepted, 1, i + 1) = InputsTo(i + 1)
  BY <1>4, InputFacts
<1>10. tap_ram = TapValues
  <2>1. TapValues \in [Index -> Taps]
    BY FirControlAssumption
  <2>2. \A k \in Index : tap_ram[k] = TapValues[k]
    BY <1>1 DEF SettingsInv
  <2> QED
    BY <1>1, <2>1, <2>2
<1>11. Y(InputsTo(i + 1)) = Expected(i + 1)
  BY <1>10 DEF Y, Expected, InputsTo
<1>12. emitted[i + 1] \in Sums
  BY <1>1, <1>4, <1>6, ElementOfSeq
<1> QED
  BY <1>7, <1>8, <1>9, <1>11, <1>12

\* What fir() stores stays, and what it adds is right.
LEMMA OutputKept ==
  ASSUME UInv, PInv, OutputsAreConvolutions, Edge, Pauses \/ GoesOn \/ Completes
  PROVE  OutputInv'
<1>1. /\ ProgramInv /\ OutputInv
      /\ outputsignal \in Seq(Sums) /\ Len(outputsignal) \in Nat
  BY LenProperties DEF PInv, OutputInv
<1>2. ASSUME outputsignal' = outputsignal,
             InRun' \/ pc' = "start" => (InRun \/ pc = "start") /\ i' = i
      PROVE  OutputInv'
  BY <1>1, <1>2 DEF OutputInv, StoresConvolution, Expected
<1>3. CASE Pauses \/ GoesOn
  <2>1. pc' = pc /\ i' = i /\ outputsignal' = outputsignal
    BY <1>3, WaitedNext
  <2> QED
    BY <1>2, <2>1 DEF InRun
<1>4. CASE Completes
  <2>1. Proceed /\ pc # "returned"
    BY <1>4, WaitedNext, AccessFacts DEF Completes
  <2>2. CASE pc = "datalength"
    <3>1. pc' = "start" /\ i' = 0 /\ outputsignal' = <<>>
      BY <1>1, <2>1, <2>2 DEF Proceed, ProgramInv
    <3>2. outputsignal' \in Seq(Sums) /\ Len(outputsignal') = 0
      BY <3>1
    <3>3. \A j \in 1 .. Len(outputsignal') : outputsignal'[j] = Expected(j)
      BY <3>2
    <3> QED
      BY <3>1, <3>2, <3>3 DEF OutputInv, StoresConvolution, Expected
  <2>3. CASE pc = "d_out"
    <3>1. /\ pc' \in {"last_config", "d_in", "poll_send"} /\ i' = i + 1
          /\ outputsignal' = Append(outputsignal, read_data)
      BY <2>1, <2>3 DEF Proceed, Loop
    <3>2. read_data \in Sums /\ read_data = Expected(i + 1)
      BY <1>4, <2>3, OutputRead
    <3>3. Len(outputsignal) = i /\ i \in Nat
      BY <1>1, <2>3 DEF OutputInv, InRun
    <3>4. /\ outputsignal' \in Seq(Sums) /\ Len(outputsignal') = i + 1
          /\ outputsignal'[i + 1] = read_data
          /\ \A j \in 1 .. i : outputsignal'[j] = outputsignal[j]
      BY <1>1, <3>1, <3>2, <3>3, AppendProperties
    <3>5. \A j \in 1 .. Len(outputsignal') : outputsignal'[j] = Expected(j)
      <4>1. SUFFICES ASSUME NEW j \in 1 .. i + 1 PROVE outputsignal'[j] = Expected(j)
        BY <3>4
      <4>2. CASE j = i + 1
        BY <3>2, <3>4, <4>2
      <4>3. CASE j # i + 1
        <5>1. j \in 1 .. i
          BY <3>3, <4>3
        <5>2. outputsignal[j] = Expected(j)
          BY <1>1, <3>3, <5>1 DEF OutputInv, StoresConvolution
        <5> QED
          BY <3>4, <5>1, <5>2
      <4> QED
        BY <4>2, <4>3
    <3> QED
      BY <3>1, <3>4, <3>5 DEF OutputInv, StoresConvolution, Expected
  <2>4. CASE pc \notin {"datalength", "d_out"}
    <3>1. outputsignal' = outputsignal
      BY <2>1, <2>4 DEF Proceed, Return
    <3>2. InRun' \/ pc' = "start" => (InRun \/ pc = "start") /\ i' = i
      BY <1>1, <2>1, <2>4 DEF Proceed, Return, Loop, InRun, ProgramInv
    <3> QED
      BY <1>2, <3>1, <3>2
  <2> QED
    BY <2>2, <2>3, <2>4
<1> QED
  BY <1>3, <1>4

-----------------------------------------------------------------------------
(* The program and the user project keep their invariants.                 *)

\* At power-up and after a reset the program is at its beginning.
AtBeginning ==
  /\ pc = "taps" /\ i = 0 /\ outputsignal = <<>> /\ calls = 0
  /\ ~started /\ started \in BOOLEAN /\ toSend = TRUE /\ ~axi_enable /\ waited = 0

LEMMA ProgramAtBeginning == AtBeginning => PInv
<1> SUFFICES ASSUME AtBeginning PROVE PInv
  OBVIOUS
<1>1. /\ pc = "taps" /\ i = 0 /\ outputsignal = <<>> /\ calls = 0 /\ waited = 0
      /\ started = FALSE /\ toSend = TRUE /\ ~axi_enable /\ InRun = FALSE
  BY DEF AtBeginning, InRun
<1>2. 0 \in Index /\ \A k \in Index : k \in Nat
  BY FirAssumption DEF Index
<1>3. ProgramInv
  BY <1>1, <1>2 DEF ProgramInv
<1>4. SettingsInv
  BY <1>1, <1>2 DEF SettingsInv
<1>5. Starting /\ Sending /\ Fetching /\ Finishing
  BY <1>1 DEF Starting, Sending, Fetching, Finishing
<1>6. OutputInv
  <2>1. outputsignal \in Seq(Sums) /\ Len(outputsignal) = 0
    BY <1>1
  <2> QED
    BY <1>1, <2>1 DEF OutputInv, StoresConvolution
<1> QED
  BY <1>3, <1>4, <1>5, <1>6 DEF PInv

LEMMA ProgramInit == CInit => UInv /\ PInv /\ OutputsAreConvolutions
<1> SUFFICES ASSUME CInit PROVE UInv /\ PInv /\ OutputsAreConvolutions
  OBVIOUS
<1>1. AtBeginning
  BY DEF AtBeginning, CInit, UInit, axi_enable
<1> QED
  BY <1>1, SlaveInit, ProgramAtBeginning, InitInv DEF CInit, UInit, IInv

LEMMA ProgramNext ==
  ASSUME UInv, PInv, OutputsAreConvolutions, [CNext]_cvars
  PROVE  UInv' /\ PInv' /\ OutputsAreConvolutions' /\ [UNext]_uvars
<1>1. [UNext]_uvars
  BY ProgramMoves DEF cvars
<1>2. UInv' /\ OutputsAreConvolutions'
  <2>1. [Next]_vars
    BY <1>1, Polls, EngineStep, ContractKept
  <2> QED
    BY <1>1, <2>1, SlaveStep, StepInv DEF UInv, IInv
<1>3. CASE Edge /\ (Pauses \/ GoesOn \/ Completes)
  <2>1. ProgramInv' /\ SettingsInv' /\ OutputInv'
    BY <1>3, ProgramStep, SettingsStep, OutputKept
  <2>2. Starting' /\ Sending' /\ Fetching' /\ Finishing'
    BY <1>3, SendingStep, FetchingStep, FinishingStep
  <2> QED
    BY <1>1, <1>2, <2>1, <2>2 DEF PInv
<1>4. CASE Restart
  <2>1. AtBeginning'
    BY <1>4 DEF AtBeginning, Restart, UReset, NoRequest, axi_enable
  <2>2. PInv'
    BY <2>1, ProgramAtBeginning, PTL
  <2> QED
    BY <1>1, <1>2, <2>2
<1>5. CASE UNCHANGED cvars
  <2>1. UNCHANGED <<vars, request, bridge, wrapper, software, fires, waited>>
        /\ UNCHANGED <<pc, i, outputsignal, calls>>
    BY <1>5 DEF cvars, uvars, local
  <2>2. /\ UNCHANGED <<cyc, we, adr, dat, read_data, program_config, started, toSend>>
        /\ UNCHANGED <<fsmVars, ctrlVars, readVars, ramVars, history, waited>>
    BY <2>1 DEF request, bridge, software, vars
  <2>3. /\ UNCHANGED <<current_state, ap_start, ap_done, length, rdata, tap_ram, accepted>>
        /\ axi_enable' = axi_enable
    BY <2>2 DEF fsmVars, ctrlVars, readVars, ramVars, history, axi_enable
  <2>4. Request' = Request /\ InRun' = InRun
    BY <2>1 DEF Request, InRun
  <2>5. ProgramInv'
    BY <2>1, <2>2, <2>3, <2>4 DEF PInv, ProgramInv
  <2>6. SettingsInv'
    BY <2>1, <2>2, <2>3, <2>4 DEF PInv, SettingsInv
  <2>7. Starting' /\ Sending' /\ Fetching'
    BY <2>1, <2>2, <2>3 DEF PInv, Starting, Sending, Fetching, InputsTo
  <2>8. Finishing'
    BY <2>1, <2>2, <2>3 DEF PInv, Finishing, AsWord
  <2>9. OutputInv'
    BY <2>1, <2>4 DEF PInv, OutputInv, StoresConvolution, Expected
  <2> QED
    BY <1>1, <1>2, <2>5, <2>6, <2>7, <2>8, <2>9 DEF PInv
<1> QED
  BY <1>3, <1>4, <1>5, ProgramMoves

-----------------------------------------------------------------------------
(* What the firmware gets, whatever the fairness.                          *)

\* Where the program, the bus and the engine are in every state of the system.
THEOREM ProgramInvariance == CSpec => [](UInv /\ PInv /\ OutputsAreConvolutions)
<1>1. UInv /\ PInv /\ OutputsAreConvolutions /\ [CNext]_cvars =>
        (UInv /\ PInv /\ OutputsAreConvolutions)'
  BY ProgramNext
<1> QED
  BY <1>1, ProgramInit, PTL DEF CSpec

\* fir() accesses the accelerator only as the slave relies on: it configures
\* and starts an idle engine, and sends and fetches when the status it has
\* polled allows it (the two while loops of fir_control.c); a reset at any
\* place starts it again.
THEOREM FirmwareKeepsRule == CSpec => KeepsTheRule
<1>1. UInv /\ PInv /\ OutputsAreConvolutions /\ [CNext]_cvars => [UNext]_uvars
  BY ProgramNext
<1>2. CInit => UInit
  BY DEF CInit
<1> QED
  BY <1>1, <1>2, ProgramInvariance, PTL DEF CSpec, KeepsTheRule, USpec

\* So what the slave and the engine promise to polling software, they promise
\* to this program.
THEOREM FirmwareIsServed ==
  CSpec => /\ EngineContract /\ ImplementsStream
           /\ [](OneHandshakePerAccess /\ ReadsAreFresh /\ StatusStillTrue /\ AnswersInTime)
BY FirmwareKeepsRule, Polls, ContractIsKept, RightBehindBus, AckMeansOneHandshake,
   AckMeansFresh, StatusKeeps, AckInTime, PTL DEF KeepsTheRule

\* Every word that fir() puts into outputsignal is the convolution of the
\* program's samples and taps, for each number of samples and of taps: no poll
\* is late or early enough to lose, repeat or shift one.
THEOREM StoredIsConvolution == CSpec => []StoresConvolution
<1>1. PInv => StoresConvolution
  BY DEF PInv, OutputInv
<1> QED
  BY <1>1, ProgramInvariance, PTL

\* fir() returns with all N outputs stored and the engine idle again: its last
\* read of the status has seen ap_done, though it does not look at it.
THEOREM ReturnMeansComplete == CSpec => ReturnsComplete
<1>1. ASSUME UInv, PInv, [CNext]_cvars, calls' > calls
      PROVE  Len(outputsignal) = N /\ current_state = "S_IDLE" /\ ~ap_start
  <2>1. ProgramInv /\ Finishing /\ OutputInv /\ calls \in Nat
    BY <1>1 DEF PInv, ProgramInv
  <2>2. calls' # calls /\ ~(calls' = 0)
    BY <1>1, <2>1
  <2>3. CompletesAccess
    BY <1>1, <2>2 DEF CNext, Computes, EndsBurst, StartsAccess, Restart, local, cvars
  <2>4. Edge /\ Proceed /\ pc = "last_config"
    BY <2>2, <2>3 DEF CompletesAccess, Proceed
  <2>5. Ends
    <3>1. Edge /\ Master /\ (Pauses \/ GoesOn \/ Completes)
      BY <1>1, <2>2, <2>3, ProgramMoves DEF CNext, Restart
    <3> QED
      BY <2>2, <3>1 DEF Pauses, GoesOn, Completes, local
  <2>6. Bit1(AsWord(read_data))
    BY <1>1, <2>1, <2>4, <2>5, Learns DEF Finishing
  <2>7. current_state = "S_IDLE" /\ ~ap_start
    BY <1>1, <2>4, <2>5, <2>6, Learns
  <2>8. Len(outputsignal) = N
    BY <2>1, <2>4 DEF OutputInv, ProgramInv, InRun
  <2> QED
    BY <2>7, <2>8
<1>2. UInv /\ PInv /\ [CNext]_cvars =>
        [calls' > calls => /\ Len(outputsignal) = N
                           /\ current_state = "S_IDLE" /\ ~ap_start]_cvars
  BY <1>1
<1> QED
  BY <1>2, ProgramInvariance, PTL DEF CSpec, ReturnsComplete
=============================================================================
