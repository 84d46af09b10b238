--------------------------- MODULE HostDriverProofs ---------------------------
(***************************************************************************)
(* The host drivers for any programs of the two threads, any pointers and  *)
(* any instances.                                                          *)
(***************************************************************************)
EXTENDS HostDriver, FiniteSetTheorems, WellFoundedInduction, TLAPS

-----------------------------------------------------------------------------
(* Types.                                                                  *)

Flags == {"start", "done", "idle", "ready", "auto", "vld", "enable"}
Values == Nat \cup SUBSET Flags
Operations == {"none"} \cup UNION {p["main"] \cup p["handler"] : p \in Programs}
Settings == {"auto", "ier", "romcode", "pads_in"}

Registers ==
  [AP_CTRL : SUBSET Flags, GIE : SUBSET Flags, IER : SUBSET Flags, ISR : SUBSET Flags,
   ROM_LO : Nat, ROM_HI : Nat, LENGTH : Nat, IN_LO : Nat, IN_HI : Nat, PIN : Nat,
   PADS : Nat]

\* The calls that do something with a value they have read.
ControlReaders == {"Start", "InterruptEnable", "InterruptDisable"}
PadReaders == {"Get_ps_mprj_out", "Get_ps_mprj_en"}

RegistersOK ==
  /\ program \in Programs
  /\ regs \in Registers
  /\ kernel \in [on : BOOLEAN, lo : Nat, hi : Nat, length : Nat, auto : BOOLEAN,
                 clean : BOOLEAN]
  /\ calls \in [Threads -> Nat]
  /\ asked \in [auto : SUBSET Flags, length : Nat, gie : SUBSET Flags, ier : SUBSET Flags,
                pin : Nat, romcode : Nat, pads_in : Nat]
  /\ clash \subseteq Settings
  /\ mine \in {"none", "asked", "lost", "written", "begun", "ended"}
  /\ fault \in BOOLEAN /\ swallowed \in BOOLEAN /\ misuse \in BOOLEAN

\* A call has one of its arguments, and what it has read so far.
ThreadsOK ==
  /\ th \in [Threads -> [op : Operations, arg : Values, step : 0 .. 3,
                         data : Seq(Values), since : Nat]]
  /\ \A t \in Threads :
       /\ th[t].op # "none" => th[t].arg \in Arguments(th[t].op)
       /\ th[t].op # "none" /\ th[t].step = 1 => th[t].data = <<>>
       /\ th[t].op \in ControlReaders /\ th[t].step = 2 =>
            Len(th[t].data) = 1 /\ th[t].data[1] \in SUBSET Flags
       /\ th[t].op \in PadReaders =>
            /\ th[t].step = 2 => Len(th[t].data) = 1 /\ th[t].data[1] \in Nat
            /\ th[t].step = 3 =>
                 Len(th[t].data) = 2 /\ th[t].data[1] \in Nat /\ th[t].data[2] \in Nat

DriverTypeOK == RegistersOK /\ ThreadsOK

\* Types of what the system keeps for the instances.
HandleTypeOK ==
  /\ inst \in [Instances -> [ready : BOOLEAN, released : BOOLEAN, base : Nat]]
  /\ info \in [fd : Nat, size : Nat]
  /\ open \subseteq Nat /\ IsFiniteSet(open)
  /\ pages \in [Instances -> Nat]


-----------------------------------------------------------------------------
(* The inductive invariant.                                                *)

\* A run of main that is asked for, requested or under way: nothing else has
\* the core, and no completion from before is left.
RunInv ==
  /\ mine = "asked" => ~Busy
  /\ mine = "written" => ~kernel.on /\ "start" \in regs.AP_CTRL
  /\ mine = "begun" => kernel.on
  /\ mine \in {"asked", "written", "begun"} => "done" \notin regs.AP_CTRL

\* A call that has read a word of the pads has read one of its time.
PadsInv ==
  \A t \in Threads :
    th[t].op \in PadReaders =>
      /\ th[t].since <= regs.PADS
      /\ th[t].step = 2 => /\ th[t].since <= th[t].data[1]
                           /\ th[t].data[1] <= regs.PADS
      /\ th[t].step = 3 => /\ th[t].since <= th[t].data[1]
                           /\ th[t].data[1] <= th[t].data[2]
                           /\ th[t].data[2] <= regs.PADS

\* A setting that only one thread at a time has changed.
ClashInv ==
  \A t, u \in Threads :
    t # u /\ SettingOf(th[t].op) = SettingOf(th[u].op)
      => SettingOf(th[t].op) \in clash \cup {"none"}

\* What a call writes back is what the register has held since it read it.
AutoKept ==
  "auto" \notin clash =>
    /\ regs.AP_CTRL \cap {"auto"} = asked.auto
    /\ \A t \in Threads : th[t].op = "Start" /\ th[t].step = 2
         => th[t].data[1] \cap {"auto"} = asked.auto

EnablesKept ==
  "ier" \notin clash =>
    /\ regs.IER = asked.ier
    /\ \A t \in Threads :
         th[t].op \in {"InterruptEnable", "InterruptDisable"} /\ th[t].step = 2
           => th[t].data[1] = asked.ier

WholeKept == regs.GIE = asked.gie /\ regs.LENGTH = asked.length /\ regs.PIN = asked.pin

KeptInv == AutoKept /\ EnablesKept /\ WholeKept

\* A call has written its low word, and no other call has one written.
Halfway(t, op) == th[t].op = op /\ th[t].step = 2

\* Of a 64-bit argument the high word is the last one asked for, and the low
\* word that of the call under way.
RomHalves ==
  "romcode" \notin clash =>
    /\ regs.ROM_HI = asked.romcode
    /\ \A t \in Threads : Halfway(t, "Set_romcode") => regs.ROM_LO = th[t].arg
    /\ (\A t \in Threads : ~Halfway(t, "Set_romcode")) => regs.ROM_LO = asked.romcode

PadHalves ==
  "pads_in" \notin clash =>
    /\ regs.IN_HI = asked.pads_in
    /\ \A t \in Threads : Halfway(t, "Set_ps_mprj_in") => regs.IN_LO = th[t].arg
    /\ (\A t \in Threads : ~Halfway(t, "Set_ps_mprj_in")) => regs.IN_LO = asked.pads_in

HalvesInv == RomHalves /\ PadHalves /\ (kernel.clean => kernel.lo = kernel.hi)

\* On bare metal nothing is opened; on Linux a call that needs an instance has
\* one that is ready.
BareInv ==
  ~program.linux =>
    /\ info = [fd |-> 0, size |-> 0] /\ open = {} /\ ~fault
    /\ \A i \in Instances : pages[i] = 0

ReadyInv ==
  program.linux =>
    \A t \in Threads :
      /\ th[t].op = "Release" => inst[th[t].arg].ready
      /\ th[t].op \notin {"none", "Initialize", "Release"} => inst[1].ready

\* As long as the instances are opened one at a time: the instance in use has
\* the descriptor and, if mmap has not failed, the pages of the size last read.
Holds(i) ==
  /\ open = {info.fd} /\ info.fd # 0
  /\ \/ inst[i].base = 0 /\ pages[i] = 0
     \/ inst[i].base = i /\ pages[i] = info.size /\ info.size # 0

OneInv ==
  program.linux /\ ~misuse =>
    /\ \A i, j \in Instances : Live(i) /\ Live(j) => i = j
    /\ (\A i \in Instances : ~Live(i)) => open = {}
    /\ \A i \in Instances : IF Live(i) THEN Holds(i) ELSE pages[i] = 0
    /\ fault => inst[1].released \/ (inst[1].base = 0 /\ info.fd # 0)

HandleInv == BareInv /\ ReadyInv /\ OneInv

\* The notebook's order of calls, and a program that has only these.
Boot == <<"Initialize", "Set_romcode", "Set_length_r", "Start", "WaitIdle",
          "Set_outpin_ctrl">>

ScriptsBoot ==
  \A p \in Programs : p.script # <<>> => p.script = Boot /\ p["handler"] = {}

Place == calls["main"]
Past(n) == Place > n \/ (Place = n /\ th["main"].op = "none")
Loaded ==
  /\ kernel.lo = asked.romcode /\ kernel.hi = asked.romcode
  /\ kernel.length = asked.length

\* Where the notebook's program is: auto restart is never set, no other thread
\* calls, and before the last call the pin is low.
BootPlace ==
  /\ Place <= 6 /\ clash = {} /\ asked.auto = {} /\ "idle" \notin regs.AP_CTRL
  /\ th["main"].op # "none" => Place > 0 /\ th["main"].op = Boot[Place]
  /\ th["handler"].op = "none"
  /\ ~Past(6) => regs.PIN = 0

\* What the core has done there: nothing before Start, and its one run after.
BootRun ==
  /\ ~Past(4) => /\ ~Busy
                 /\ mine = IF th["main"].op = "Start" /\ th["main"].step # 1
                           THEN "asked" ELSE "none"
  /\ Past(4) => \/ mine = "written" /\ ~kernel.on /\ "start" \in regs.AP_CTRL
                \/ mine = "begun" /\ kernel.on /\ Loaded
                \/ mine = "ended" /\ ~Busy /\ Loaded
  /\ Past(5) => mine = "ended"

BootInv == program.script # <<>> => BootPlace /\ BootRun

HInv == DriverTypeOK /\ RunInv /\ PadsInv /\ ClashInv /\ KeptInv /\ HalvesInv

-----------------------------------------------------------------------------
(* What the steps of a call do to its thread and to the registers.         *)

\* The registers that some call reads and keeps the value of.
Kept == {"AP_CTRL", "IER", "ROM_LO", "ROM_HI", "IN_LO", "IN_HI",
         "OUT_LO", "OUT_HI", "EN_LO", "EN_HI"}

LEMMA ReadFacts ==
  ASSUME RegistersOK
  PROVE  /\ \A r \in Kept : RegValue(r) \in Values
         /\ RegValue("AP_CTRL") \in SUBSET Flags
         /\ RegValue("AP_CTRL") \cap {"auto"} = regs.AP_CTRL \cap {"auto"}
         /\ RegValue("IER") = regs.IER /\ regs.IER \in SUBSET Flags
         /\ \A r \in {"OUT_LO", "OUT_HI", "EN_LO", "EN_HI"} : RegValue(r) = regs.PADS
         /\ regs.PADS \in Nat
<1>1. /\ regs.AP_CTRL \in SUBSET Flags /\ regs.IER \in SUBSET Flags /\ regs.PADS \in Nat
      /\ \A r \in {"ROM_LO", "ROM_HI", "IN_LO", "IN_HI"} : regs[r] \in Nat
  BY DEF RegistersOK, Registers
<1>2. /\ RegValue("AP_CTRL") \in SUBSET Flags
      /\ RegValue("AP_CTRL") \cap {"auto"} = regs.AP_CTRL \cap {"auto"}
  BY <1>1 DEF RegValue, Flag, Flags
<1>3. RegValue("IER") = regs.IER
  BY DEF RegValue
<1>4. \A r \in {"OUT_LO", "OUT_HI", "EN_LO", "EN_HI"} : RegValue(r) = regs.PADS
  BY DEF RegValue
<1>5. \A r \in {"ROM_LO", "ROM_HI", "IN_LO", "IN_HI"} : RegValue(r) = regs[r]
  BY DEF RegValue
<1>6. ASSUME NEW r \in Kept
      PROVE  RegValue(r) \in Values
  BY <1>1, <1>2, <1>3, <1>4, <1>5 DEF Kept, Values
<1> QED
  BY <1>1, <1>2, <1>3, <1>4, <1>6

\* The steps of a thread: it returns, waits, goes on to the second word that it
\* writes, or keeps the value of a register.
Stays(t) == th' = th
Writing(t) ==
  /\ th[t].op \in {"Set_romcode", "Set_ps_mprj_in"} /\ th[t].step = 1
  /\ Goto(t, 2)
Keeps(t, r, n) ==
  /\ (th[t].step = 1 /\ n = 2) \/ (th[t].step = 2 /\ n = 3)
  /\ th[t].op = "Start" => r = "AP_CTRL" /\ n = 2
  /\ th[t].op \in {"InterruptEnable", "InterruptDisable"} => r = "IER" /\ n = 2
  /\ th[t].op \in PadReaders => r \in {"OUT_LO", "OUT_HI", "EN_LO", "EN_HI"}
  /\ th' = [th EXCEPT ![t].data = Append(@, RegValue(r)), ![t].step = n]

LEMMA AppendFacts ==
  ASSUME NEW S, NEW s \in Seq(S), NEW v \in S
  PROVE  /\ Append(s, v) \in Seq(S) /\ Len(s) \in Nat
         /\ Len(Append(s, v)) = Len(s) + 1
         /\ Append(s, v)[Len(s) + 1] = v
         /\ \A n \in 1 .. Len(s) : Append(s, v)[n] = s[n]
  OBVIOUS

LEMMA ThreadMoves ==
  ASSUME NEW t \in Threads, Step(t)
  PROVE  Return(t) \/ Stays(t) \/ Writing(t) \/ \E r \in Kept, n \in {2, 3} : Keeps(t, r, n)
<1>. DEFINE K == \E r \in Kept, n \in {2, 3} : Keeps(t, r, n)
<1>1. CASE Start(t)
  <2>1. StartReads(t) => Keeps(t, "AP_CTRL", 2)
    BY DEF StartReads, In, Reads, Keeps, PadReaders
  <2>2. "AP_CTRL" \in Kept
    BY DEF Kept
  <2> QED
    BY <1>1, <2>1, <2>2 DEF Start, Starts
<1>2. CASE AsksControl(t) \/ Faults(t) \/ InterruptClear(t)
  BY <1>2 DEF AsksControl, Faults, InterruptClear, Stays
<1>3. CASE \/ EnableAutoRestart(t) \/ DisableAutoRestart(t) \/ Set_length_r(t)
           \/ InterruptGlobalEnable(t) \/ InterruptGlobalDisable(t) \/ Set_outpin_ctrl(t)
  BY <1>3 DEF EnableAutoRestart, DisableAutoRestart, Set_length_r, InterruptGlobalEnable,
              InterruptGlobalDisable, Set_outpin_ctrl, SetsWhole
<1>4. CASE Set_romcode(t) \/ Set_ps_mprj_in(t)
  BY <1>4 DEF Set_romcode, Set_ps_mprj_in, SetsTwo, Writing, In
<1>5. CASE InterruptEnable(t) \/ InterruptDisable(t)
  <2>1. Return(t) \/ Keeps(t, "IER", 2)
    BY <1>5 DEF InterruptEnable, InterruptDisable, ReadsAndWrites, In, Reads, Keeps, PadReaders
  <2>2. "IER" \in Kept
    BY DEF Kept
  <2> QED
    BY <2>1, <2>2
<1>6. CASE \/ Get_length_r(t) \/ InterruptGetEnabled(t) \/ InterruptGetStatus(t)
           \/ Get_outpin_ctrl(t) \/ Get_ps_mprj_out_vld(t) \/ Get_ps_mprj_en_vld(t)
  BY <1>6 DEF Get_length_r, InterruptGetEnabled, InterruptGetStatus, Get_outpin_ctrl,
              Get_ps_mprj_out_vld, Get_ps_mprj_en_vld, GetsWhole
<1>7. ASSUME NEW op, NEW lo \in Kept, NEW hi \in Kept, GetsTwo(t, op, lo, hi),
             op \notin ControlReaders,
             op \in PadReaders => {lo, hi} \subseteq {"OUT_LO", "OUT_HI", "EN_LO", "EN_HI"}
      PROVE  Return(t) \/ K
  <2>1. Return(t) \/ Keeps(t, lo, 2) \/ Keeps(t, hi, 3)
    BY <1>7 DEF GetsTwo, In, Reads, Keeps, ControlReaders
  <2> QED
    BY <2>1
<1>8. CASE \/ Get_romcode(t) \/ Get_ps_mprj_in(t)
           \/ Get_ps_mprj_out(t) \/ Get_ps_mprj_en(t)
  BY <1>7, <1>8 DEF Get_romcode, Get_ps_mprj_in, Get_ps_mprj_out, Get_ps_mprj_en,
                    Kept, PadReaders, ControlReaders
<1>9. CASE \E i \in Instances : Initialize(t, i) \/ Release(t, i)
  BY <1>9 DEF Initialize, Release
<1> QED
  BY <1>1, <1>2, <1>3, <1>4, <1>5, <1>6, <1>8, <1>9
     DEF Step, Control, Interrupts, Pads

\* The other thread stays where it is.
LEMMA OtherStays ==
  ASSUME ThreadsOK, NEW t \in Threads, NEW u \in Threads, u # t, Step(t)
  PROVE  th'[u] = th[u]
<1>1. CASE Return(t) \/ Stays(t) \/ Writing(t)
  BY <1>1 DEF ThreadsOK, Return, Stays, Writing, Goto
<1>2. CASE \E r \in Kept, n \in {2, 3} : Keeps(t, r, n)
  BY <1>2 DEF ThreadsOK, Keeps
<1> QED
  BY <1>1, <1>2, ThreadMoves

LEMMA ThreadsStep ==
  ASSUME DriverTypeOK, Next
  PROVE  ThreadsOK'
<1>1. RegistersOK /\ ThreadsOK
  BY DEF DriverTypeOK
<1>2. ASSUME NEW t \in Threads, Step(t)
      PROVE  ThreadsOK'
  <2>1. CASE Return(t)
    <3>1. <<>> \in Seq(Values) /\ 0 \in Values
      BY DEF Values
    <3> QED
      BY <1>1, <2>1, <3>1 DEF ThreadsOK, Return, Idle, Operations, ControlReaders, PadReaders
  <2>2. CASE Stays(t)
    BY <1>1, <2>2 DEF ThreadsOK, Stays, Arguments, Instances, Operations
  <2>3. CASE Writing(t)
    <3>1. /\ th' = [th EXCEPT ![t].step = 2]
          /\ th'[t].op = th[t].op /\ th'[t].arg = th[t].arg
          /\ th'[t].step = 2 /\ th[t].op \notin ControlReaders \cup PadReaders
          /\ \A u \in Threads : u # t => th'[u] = th[u]
      BY <1>1, <2>3 DEF ThreadsOK, Writing, Goto, ControlReaders, PadReaders
    <3>2. th' \in [Threads -> [op : Operations, arg : Values, step : 0 .. 3,
                               data : Seq(Values), since : Nat]]
      <4>1. [th[t] EXCEPT !.step = 2] \in [op : Operations, arg : Values, step : 0 .. 3,
                                           data : Seq(Values), since : Nat]
        BY <1>1 DEF ThreadsOK
      <4>2. th' = [th EXCEPT ![t] = [th[t] EXCEPT !.step = 2]]
        BY <3>1
      <4> QED
        BY <1>1, <4>1, <4>2 DEF ThreadsOK
    <3> QED
      BY <1>1, <3>1, <3>2 DEF ThreadsOK, Arguments, Instances, Operations
  <2>4. ASSUME NEW r \in Kept, NEW n \in {2, 3}, Keeps(t, r, n)
        PROVE  ThreadsOK'
    <3>1. PICK v \in Values : v = RegValue(r)
      BY <1>1, ReadFacts
    <3>2. th' = [th EXCEPT ![t].data = Append(@, v), ![t].step = n]
      BY <2>4, <3>1 DEF Keeps
    <3>3. /\ th[t].op \in ControlReaders => v \in SUBSET Flags
          /\ th[t].op \in PadReaders => v \in Nat
      BY <1>1, <2>4, <3>1, ReadFacts DEF Keeps, ControlReaders, PadReaders
    <3>4. /\ th[t].data \in Seq(Values) /\ Append(th[t].data, v) \in Seq(Values)
          /\ Len(Append(th[t].data, v)) = Len(th[t].data) + 1
          /\ Append(th[t].data, v)[Len(th[t].data) + 1] = v
          /\ \A m \in 1 .. Len(th[t].data) : Append(th[t].data, v)[m] = th[t].data[m]
          /\ Len(th[t].data) \in Nat
      BY <1>1, AppendFacts DEF ThreadsOK
    <3>5. th' \in [Threads -> [op : Operations, arg : Values, step : 0 .. 3,
                               data : Seq(Values), since : Nat]]
      BY <1>1, <2>4, <3>2, <3>4 DEF ThreadsOK, Keeps
    <3>6. /\ th'[t].op = th[t].op /\ th'[t].arg = th[t].arg
          /\ th'[t].step = n /\ th'[t].data = Append(th[t].data, v)
          /\ \A u \in Threads : u # t => th'[u] = th[u]
      BY <1>1, <3>2 DEF ThreadsOK
    <3>7. th[t].op \in ControlReaders =>
            th[t].step = 1 /\ n = 2 /\ th[t].data = <<>>
      BY <1>1, <2>4 DEF ThreadsOK, Keeps, ControlReaders
    <3>8. th[t].op \in PadReaders =>
            \/ th[t].step = 1 /\ n = 2 /\ th[t].data = <<>>
            \/ th[t].step = 2 /\ n = 3 /\ Len(th[t].data) = 1 /\ th[t].data[1] \in Nat
      BY <1>1, <2>4 DEF ThreadsOK, Keeps, PadReaders
    <3>9. ASSUME NEW u \in Threads
          PROVE  /\ th'[u].op # "none" => th'[u].arg \in Arguments(th'[u].op)
                 /\ th'[u].op # "none" /\ th'[u].step = 1 => th'[u].data = <<>>
                 /\ th'[u].op \in ControlReaders /\ th'[u].step = 2 =>
                      Len(th'[u].data) = 1 /\ th'[u].data[1] \in SUBSET Flags
                 /\ th'[u].op \in PadReaders =>
                      /\ th'[u].step = 2 => Len(th'[u].data) = 1 /\ th'[u].data[1] \in Nat
                      /\ th'[u].step = 3 => /\ Len(th'[u].data) = 2
                                            /\ th'[u].data[1] \in Nat /\ th'[u].data[2] \in Nat
      <4>1. CASE u # t
        BY <1>1, <3>6, <4>1 DEF ThreadsOK
      <4>2. CASE u = t
        BY <1>1, <2>4, <3>3, <3>4, <3>6, <3>7, <3>8, <4>2 DEF ThreadsOK, Keeps
      <4> QED
        BY <4>1, <4>2
    <3> QED
      BY <3>5, <3>9 DEF ThreadsOK, Arguments, Instances, Operations
  <2> QED
    BY <1>2, <2>1, <2>2, <2>3, <2>4, ThreadMoves
<1>3. ASSUME NEW t \in Threads, Call(t)
      PROVE  ThreadsOK'
  <2>1. PICK op \in program[t] : \E arg \in Arguments(op) :
          th' = [th EXCEPT ![t] = [op |-> op, arg |-> arg, step |-> 1,
                                   data |-> <<>>, since |-> regs.PADS]]
    BY <1>3 DEF Call
  <2>5. PICK arg \in Arguments(op) :
          th' = [th EXCEPT ![t] = [op |-> op, arg |-> arg, step |-> 1,
                                   data |-> <<>>, since |-> regs.PADS]]
    BY <2>1
  <2>2. op \in Operations
    BY <1>1 DEF RegistersOK, Operations, Threads
  <2>3. arg \in Values
    BY HostAssumption DEF Arguments, Values, Flags, Instances
  <2>4. <<>> \in Seq(Values) /\ regs.PADS \in Nat
    BY <1>1 DEF RegistersOK, Registers
  <2> QED
    BY <1>1, <2>5, <2>2, <2>3, <2>4
       DEF ThreadsOK, Arguments, Instances, Operations, ControlReaders, PadReaders
<1>4. CASE KernelBegins \/ KernelDone \/ StatusFollows \/ PadsChange
  BY <1>1, <1>4 DEF ThreadsOK, KernelBegins, KernelDone, StatusFollows, PadsChange
<1> QED
  BY <1>2, <1>3, <1>4 DEF Next

-----------------------------------------------------------------------------
(* The kinds of step.                                                      *)

SetsOne(t) ==
  \/ EnableAutoRestart(t) \/ DisableAutoRestart(t) \/ Set_length_r(t)
  \/ InterruptGlobalEnable(t) \/ InterruptGlobalDisable(t) \/ Set_outpin_ctrl(t)
SetsPointer(t) == Set_romcode(t) \/ Set_ps_mprj_in(t)
ReadsBack(t) == InterruptEnable(t) \/ InterruptDisable(t)
OnlyReads(t) ==
  \/ InterruptClear(t) \/ Get_length_r(t) \/ InterruptGetEnabled(t)
  \/ InterruptGetStatus(t) \/ Get_outpin_ctrl(t) \/ Get_ps_mprj_out_vld(t)
  \/ Get_ps_mprj_en_vld(t) \/ Get_romcode(t) \/ Get_ps_mprj_in(t)
  \/ Get_ps_mprj_out(t) \/ Get_ps_mprj_en(t)
Manages(t) == \E i \in Instances : Initialize(t, i) \/ Release(t, i)

LEMMA StepKinds ==
  ASSUME NEW t, Step(t)
  PROVE  \/ Start(t) \/ AsksControl(t) \/ SetsOne(t) \/ SetsPointer(t) \/ ReadsBack(t)
         \/ OnlyReads(t) \/ Faults(t) \/ Manages(t)
  BY DEF Step, Control, Interrupts, Pads, SetsOne, SetsPointer, ReadsBack, OnlyReads, Manages

rest == <<program, kernel, calls, os, fault, clash, mine, swallowed, misuse>>

\* A call that only reads changes no register but the interrupt status.
LEMMA OnlyReadsFacts ==
  ASSUME RegistersOK, NEW t, OnlyReads(t)
  PROVE  UNCHANGED <<rest, asked>> /\ \E s \in SUBSET Flags : regs' = [regs EXCEPT !.ISR = s]
<1>1. /\ regs \in Registers /\ regs.ISR \in SUBSET Flags /\ {} \in SUBSET Flags
      /\ regs = [regs EXCEPT !.ISR = regs.ISR]
  BY DEF RegistersOK, Registers
<1>2. CASE InterruptClear(t)
  BY <1>1, <1>2 DEF InterruptClear, rest
<1>3. CASE \/ Get_length_r(t) \/ InterruptGetEnabled(t) \/ Get_outpin_ctrl(t)
           \/ Get_ps_mprj_out_vld(t) \/ Get_ps_mprj_en_vld(t)
  <2>1. regs' = regs /\ UNCHANGED <<rest, asked>>
    BY <1>3 DEF Get_length_r, InterruptGetEnabled, Get_outpin_ctrl, Get_ps_mprj_out_vld,
                Get_ps_mprj_en_vld, GetsWhole, AfterRead, rest
  <2> QED
    BY <1>1, <2>1
<1>4. CASE InterruptGetStatus(t)
  <2>1. regs' = [regs EXCEPT !.ISR = {}] /\ UNCHANGED <<rest, asked>>
    BY <1>4 DEF InterruptGetStatus, GetsWhole, AfterRead, rest
  <2> QED
    BY <1>1, <2>1
<1>5. CASE Get_romcode(t) \/ Get_ps_mprj_in(t) \/ Get_ps_mprj_out(t) \/ Get_ps_mprj_en(t)
  <2>1. regs' = regs /\ UNCHANGED <<rest, asked>>
    BY <1>5 DEF Get_romcode, Get_ps_mprj_in, Get_ps_mprj_out, Get_ps_mprj_en,
                GetsTwo, Reads, AfterRead, rest
  <2> QED
    BY <1>1, <2>1
<1> QED
  BY <1>2, <1>3, <1>4, <1>5 DEF OnlyReads

\* What each call that writes one register writes, and that this is asked for.
LEMMA SetsOneFacts ==
  ASSUME DriverTypeOK, NEW t \in Threads, SetsOne(t)
  PROVE  /\ UNCHANGED rest /\ Return(t) /\ th[t].step = 1
         /\ \/ \E v \in {{}, {"auto"}} :
                 /\ th[t].op \in {"EnableAutoRestart", "DisableAutoRestart"}
                 /\ regs' = [regs EXCEPT !.AP_CTRL = (@ \ {"auto"}) \cup v]
                 /\ asked' = [asked EXCEPT !.auto = v]
            \/ \E v \in Nat : /\ th[t].op = "Set_length_r"
                              /\ regs' = [regs EXCEPT !.LENGTH = v]
                              /\ asked' = [asked EXCEPT !.length = v]
            \/ \E v \in SUBSET Flags : /\ th[t].op \in {"GlobalEnable", "GlobalDisable"}
                                       /\ regs' = [regs EXCEPT !.GIE = v]
                                       /\ asked' = [asked EXCEPT !.gie = v]
            \/ \E v \in Nat : /\ th[t].op = "Set_outpin_ctrl"
                              /\ regs' = [regs EXCEPT !.PIN = v]
                              /\ asked' = [asked EXCEPT !.pin = v]
<1>. USE DEF SetsWhole, In, Writes, AfterWrite, rest
<1>1. CASE EnableAutoRestart(t)
  <2>1. {"auto"} \cap {"start", "auto"} = {"auto"}
    OBVIOUS
  <2> QED
    BY <1>1, <2>1 DEF EnableAutoRestart
<1>2. CASE DisableAutoRestart(t)
  <2>1. {} \cap {"start", "auto"} = {}
    OBVIOUS
  <2> QED
    BY <1>2, <2>1 DEF DisableAutoRestart
<1>3. CASE Set_length_r(t) \/ Set_outpin_ctrl(t)
  <2>1. th[t].arg = 1
    BY <1>3 DEF DriverTypeOK, ThreadsOK, Set_length_r, Set_outpin_ctrl, Arguments
  <2> QED
    BY <1>3, <2>1 DEF Set_length_r, Set_outpin_ctrl
<1>4. CASE InterruptGlobalEnable(t) \/ InterruptGlobalDisable(t)
  BY <1>4 DEF InterruptGlobalEnable, InterruptGlobalDisable, Flags
<1> QED
  BY <1>1, <1>2, <1>3, <1>4 DEF SetsOne

\* A 64-bit argument: the low word, then the high word, that is asked for.
LEMMA SetsPointerFacts ==
  ASSUME DriverTypeOK, NEW t \in Threads, SetsPointer(t)
  PROVE  LET arg == th[t].arg
         IN  /\ UNCHANGED rest /\ arg \in Nat
             /\ \/ /\ th[t].op = "Set_romcode" /\ th[t].step = 1 /\ Goto(t, 2)
                   /\ regs' = [regs EXCEPT !.ROM_LO = arg] /\ asked' = asked
                \/ /\ th[t].op = "Set_romcode" /\ th[t].step = 2 /\ Return(t)
                   /\ regs' = [regs EXCEPT !.ROM_HI = arg]
                   /\ asked' = [asked EXCEPT !.romcode = arg]
                \/ /\ th[t].op = "Set_ps_mprj_in" /\ th[t].step = 1 /\ Goto(t, 2)
                   /\ regs' = [regs EXCEPT !.IN_LO = arg] /\ asked' = asked
                \/ /\ th[t].op = "Set_ps_mprj_in" /\ th[t].step = 2 /\ Return(t)
                   /\ regs' = [regs EXCEPT !.IN_HI = arg]
                   /\ asked' = [asked EXCEPT !.pads_in = arg]
<1>. USE DEF SetsTwo, In, Writes, AfterWrite, rest
<1>1. CASE Set_romcode(t)
  BY <1>1, HostAssumption DEF DriverTypeOK, ThreadsOK, Arguments, Set_romcode
<1>2. CASE Set_ps_mprj_in(t)
  BY <1>2, HostAssumption DEF DriverTypeOK, ThreadsOK, Arguments, Set_ps_mprj_in
<1> QED
  BY <1>1, <1>2 DEF SetsPointer

\* The interrupt enables: read, and written back with the argument in or out.
LEMMA ReadsBackFacts ==
  ASSUME DriverTypeOK, NEW t \in Threads, ReadsBack(t)
  PROVE  /\ UNCHANGED rest /\ th[t].op \in {"InterruptEnable", "InterruptDisable"}
         /\ \/ /\ th[t].step = 1 /\ regs' = regs /\ asked' = asked
               /\ Keeps(t, "IER", 2)
            \/ \E v \in SUBSET Flags :
                 /\ th[t].step = 2 /\ Return(t)
                 /\ regs' = [regs EXCEPT !.IER = v]
                 /\ \E w \in SUBSET Flags :
                      /\ asked' = [asked EXCEPT !.ier = w]
                      /\ th[t].data[1] = asked.ier => w = v
<1>. USE DEF ReadsAndWrites, In, Writes, AfterWrite, rest
<1>1. /\ ThreadsOK /\ asked.ier \in SUBSET Flags
      /\ th[t].op \in {"InterruptEnable", "InterruptDisable"} => th[t].arg \in SUBSET Flags
      /\ (th[t].op \in {"InterruptEnable", "InterruptDisable"} /\ th[t].step = 2) =>
           th[t].data[1] \in SUBSET Flags
  <2>1. ThreadsOK /\ asked.ier \in SUBSET Flags
    BY DEF DriverTypeOK, RegistersOK
  <2>2. ASSUME th[t].op \in {"InterruptEnable", "InterruptDisable"}
        PROVE  th[t].arg \in SUBSET Flags
    <3>1. th[t].arg \in Arguments(th[t].op)
      BY <2>1, <2>2 DEF ThreadsOK
    <3>2. Arguments(th[t].op) = {{"done"}, {"ready"}}
      BY <2>2 DEF Arguments
    <3> QED
      BY <3>1, <3>2 DEF Flags
  <2>3. (th[t].op \in {"InterruptEnable", "InterruptDisable"} /\ th[t].step = 2) =>
          th[t].data[1] \in SUBSET Flags
    BY <2>1 DEF ThreadsOK, ControlReaders
  <2> QED
    BY <2>1, <2>2, <2>3
<1>2. CASE InterruptEnable(t)
  <2>1. CASE th[t].step = 1
    BY <1>2, <2>1 DEF InterruptEnable, Reads, Keeps, AfterRead, PadReaders
  <2>2. CASE th[t].step # 1
    <3>1. /\ th[t].step = 2 /\ Return(t)
          /\ regs' = [regs EXCEPT !.IER = th[t].data[1] \cup th[t].arg]
          /\ asked' = [asked EXCEPT !.ier = asked.ier \cup th[t].arg]
          /\ UNCHANGED rest /\ th[t].op = "InterruptEnable"
      BY <1>2, <2>2 DEF InterruptEnable
    <3>2. th[t].data[1] \cup th[t].arg \in SUBSET Flags /\ asked.ier \cup th[t].arg \in SUBSET Flags
      BY <1>1, <3>1
    <3> QED
      BY <3>1, <3>2
  <2> QED
    BY <2>1, <2>2
<1>3. CASE InterruptDisable(t)
  <2>1. CASE th[t].step = 1
    BY <1>3, <2>1 DEF InterruptDisable, Reads, Keeps, AfterRead, PadReaders
  <2>2. CASE th[t].step # 1
    <3>1. /\ th[t].step = 2 /\ Return(t)
          /\ regs' = [regs EXCEPT !.IER = th[t].data[1] \ th[t].arg]
          /\ asked' = [asked EXCEPT !.ier = asked.ier \ th[t].arg]
          /\ UNCHANGED rest /\ th[t].op = "InterruptDisable"
      BY <1>3, <2>2 DEF InterruptDisable
    <3>2. th[t].data[1] \ th[t].arg \in SUBSET Flags /\ asked.ier \ th[t].arg \in SUBSET Flags
      BY <1>1, <3>1
    <3> QED
      BY <3>1, <3>2
  <2> QED
    BY <2>1, <2>2
<1> QED
  BY <1>2, <1>3 DEF ReadsBack

\* Start and the questions to the core: what happens to AP_CTRL.
LEMMA StartFacts ==
  ASSUME DriverTypeOK, NEW t \in Threads, Start(t)
  PROVE  /\ UNCHANGED <<program, kernel, calls, os, fault, asked, clash, misuse>>
         /\ th[t].op = "Start"
         /\ \/ /\ StartReads(t) /\ th[t].step = 1 /\ Keeps(t, "AP_CTRL", 2)
               /\ regs' = [regs EXCEPT !.AP_CTRL = @ \ {"done", "ready"}]
            \/ /\ th[t].step = 2 /\ Return(t) /\ swallowed' = swallowed
               /\ regs' = [regs EXCEPT !.AP_CTRL = (@ \ {"auto"}) \cup {"start"}
                                                     \cup (th[t].data[1] \cap {"auto"})]
               /\ mine' = CASE t = "main" -> IF mine = "asked" /\ ~Busy THEN "written" ELSE "lost"
                            [] OTHER -> IF mine = "asked" THEN "lost" ELSE mine
<1>1. CASE StartReads(t)
  BY <1>1 DEF StartReads, In, Reads, Keeps, PadReaders, AfterRead
<1>2. CASE Starts(t, (th[t].data[1] \cap {"auto"}) \cup {"start"})
  <2>1. ((th[t].data[1] \cap {"auto"}) \cup {"start"}) \cap {"start", "auto"}
          = (th[t].data[1] \cap {"auto"}) \cup {"start"}
    OBVIOUS
  <2>2. regs' = [regs EXCEPT !.AP_CTRL = (@ \ {"auto"}) \cup
                   (((th[t].data[1] \cap {"auto"}) \cup {"start"}) \cap {"start", "auto"})]
    BY <1>2 DEF Starts, Writes, AfterWrite
  <2>3. regs' = [regs EXCEPT !.AP_CTRL = (@ \ {"auto"}) \cup {"start"}
                                                     \cup (th[t].data[1] \cap {"auto"})]
    BY <2>1, <2>2
  <2> QED
    BY <1>2, <2>3 DEF Starts, In
<1> QED
  BY <1>1, <1>2 DEF Start

LEMMA AsksControlFacts ==
  ASSUME NEW t, AsksControl(t)
  PROVE  /\ UNCHANGED <<program, kernel, calls, os, fault, asked, clash, mine, misuse>>
         /\ th[t].op \in {"WaitDone", "WaitIdle", "IsReady"} /\ th[t].step = 1
         /\ regs' = [regs EXCEPT !.AP_CTRL = @ \ {"done", "ready"}]
         /\ Return(t) \/ Stays(t)
  BY DEF AsksControl, In, AfterRead, Stays

\* Faults, Initialize and Release are no business of the registers.
LEMMA ManagesFacts ==
  ASSUME NEW t, Faults(t) \/ Manages(t)
  PROVE  /\ UNCHANGED <<program, regs, kernel, calls, asked, clash, mine, swallowed>>
         /\ Return(t) \/ Stays(t)
  BY DEF Faults, Manages, Initialize, Release, Stays

-----------------------------------------------------------------------------
(* Each part of the invariant is kept by each step.                        *)

LEMMA RegistersStep ==
  ASSUME DriverTypeOK, Next
  PROVE  RegistersOK'
<1>1. RegistersOK /\ ThreadsOK
  BY DEF DriverTypeOK
<1>. USE DEF RegistersOK
<1>2. ASSUME NEW t \in Threads, Start(t)
      PROVE  RegistersOK'
  <2>1. /\ regs' \in Registers
        /\ UNCHANGED <<program, kernel, calls, os, fault, asked, clash, misuse>>
    <3>1. CASE regs' = [regs EXCEPT !.AP_CTRL = @ \ {"done", "ready"}]
      BY <1>1, <1>2, <3>1, StartFacts DEF Registers
    <3>2. CASE regs' = [regs EXCEPT !.AP_CTRL = (@ \ {"auto"}) \cup {"start"}
                                                     \cup (th[t].data[1] \cap {"auto"})]
      <4>1. (regs.AP_CTRL \ {"auto"}) \cup {"start"} \cup (th[t].data[1] \cap {"auto"})
              \in SUBSET Flags
        BY <1>1 DEF Registers, Flags
      <4> QED
        BY <1>1, <1>2, <3>2, <4>1, StartFacts DEF Registers
    <3> QED
      BY <1>2, <3>1, <3>2, StartFacts
  <2>2. mine' \in {"none", "asked", "lost", "written", "begun", "ended"}
    BY <1>1, <1>2 DEF Start, StartReads, Starts
  <2>3. swallowed' \in BOOLEAN
    BY <1>1, <1>2 DEF Start, StartReads, Starts
  <2> QED
    BY <1>1, <2>1, <2>2, <2>3
<1>3. ASSUME NEW t \in Threads, AsksControl(t)
      PROVE  RegistersOK'
  <2>1. regs' \in Registers
    BY <1>1, <1>3, AsksControlFacts DEF Registers
  <2>2. swallowed' \in BOOLEAN
    BY <1>3 DEF AsksControl
  <2> QED
    BY <1>1, <1>3, <2>1, <2>2, AsksControlFacts
<1>4. ASSUME NEW t \in Threads, SetsOne(t)
      PROVE  RegistersOK'
  <2>1. UNCHANGED rest
    BY <1>4, SetsOneFacts
  <2>2. /\ regs' \in Registers
        /\ asked' \in [auto : SUBSET Flags, length : Nat, gie : SUBSET Flags,
                       ier : SUBSET Flags, pin : Nat, romcode : Nat, pads_in : Nat]
    <3>1. /\ \A v \in {{}, {"auto"}} : v \in SUBSET Flags
          /\ \A v \in {{}, {"auto"}} : (regs.AP_CTRL \ {"auto"}) \cup v \in SUBSET Flags
      BY <1>1 DEF Flags, Registers
    <3> QED
      BY <1>1, <1>4, <3>1, SetsOneFacts DEF Registers
  <2> QED
    BY <1>1, <2>1, <2>2 DEF rest
<1>5. ASSUME NEW t \in Threads, SetsPointer(t)
      PROVE  RegistersOK'
  BY <1>1, <1>5, SetsPointerFacts DEF rest, Registers
<1>6. ASSUME NEW t \in Threads, ReadsBack(t)
      PROVE  RegistersOK'
  BY <1>1, <1>6, ReadsBackFacts DEF rest, Registers
<1>7. ASSUME NEW t \in Threads, OnlyReads(t)
      PROVE  RegistersOK'
  BY <1>1, <1>7, OnlyReadsFacts DEF rest, Registers
<1>8. ASSUME NEW t \in Threads, Faults(t) \/ Manages(t)
      PROVE  RegistersOK'
  <2>1. fault' \in BOOLEAN /\ misuse' \in BOOLEAN
    BY <1>1, <1>8 DEF Faults, Manages, Initialize, Release
  <2> QED
    BY <1>1, <1>8, <2>1, ManagesFacts
<1>9. ASSUME NEW t \in Threads, Call(t)
      PROVE  RegistersOK'
  <2>1. /\ calls' \in [Threads -> Nat]
        /\ UNCHANGED <<program, regs, kernel, fault, asked, mine, swallowed, misuse>>
    BY <1>1, <1>9 DEF Call
  <2>2. \A op : Flag(SettingOf(op) # "none", SettingOf(op)) \subseteq Settings
    BY DEF Flag, SettingOf, Settings
  <2>3. clash' \subseteq Settings
    BY <1>1, <1>9, <2>2 DEF Call
  <2> QED
    BY <1>1, <2>1, <2>3
<1>10. CASE KernelBegins
  BY <1>1, <1>10 DEF KernelBegins, Registers
<1>11. CASE KernelDone
  <2>1. kernel' \in [on : BOOLEAN, lo : Nat, hi : Nat, length : Nat, auto : BOOLEAN,
                      clean : BOOLEAN]
    BY <1>1, <1>11 DEF KernelDone
  <2>2. PICK a, i : /\ a = (regs.AP_CTRL \ {"start"})
                             \cup {IF "auto" \in regs.AP_CTRL THEN "start" ELSE "ready"}
                             \cup Flag("auto" \notin regs.AP_CTRL \/ ~kernel.auto, "done")
                    /\ i = regs.ISR \cup regs.IER
    OBVIOUS
  <2>3. a \in SUBSET Flags /\ i \in SUBSET Flags
    BY <1>1, <2>2 DEF Registers, Flags, Flag
  <2>4. regs' = [regs EXCEPT !.AP_CTRL = a, !.ISR = i]
    BY <1>11, <2>2 DEF KernelDone
  <2>5. regs' \in Registers
    BY <1>1, <2>3, <2>4 DEF Registers
  <2>6. mine' \in {"none", "asked", "lost", "written", "begun", "ended"}
    BY <1>1, <1>11 DEF KernelDone
  <2> QED
    BY <1>1, <1>11, <2>1, <2>5, <2>6 DEF KernelDone
<1>12. CASE PadsChange
  BY <1>1, <1>12 DEF PadsChange, Registers
<1>13. CASE StatusFollows
  BY <1>1, <1>13 DEF StatusFollows
<1> QED
  BY <1>2, <1>3, <1>4, <1>5, <1>6, <1>7, <1>8, <1>9, <1>10, <1>11, <1>12, <1>13, StepKinds
     DEF Next

\* A run of main.  Only the core sets ap_done, and it does so when it ends the
\* run that it is in.
LEMMA RunStep ==
  ASSUME DriverTypeOK, RunInv, Next
  PROVE  RunInv'
<1>1. /\ RegistersOK /\ ThreadsOK
      /\ regs \in Registers /\ regs.AP_CTRL \in SUBSET Flags
  BY DEF DriverTypeOK, RegistersOK, Registers
<1>2. ASSUME NEW t \in Threads, Start(t)
      PROVE  RunInv'
  <2>1. CASE StartReads(t)
    <3>1. /\ regs'.AP_CTRL = regs.AP_CTRL \ {"done", "ready"} /\ kernel' = kernel
          /\ mine' = IF t = "main" THEN (IF Busy THEN "lost" ELSE "asked") ELSE mine
      BY <1>1, <2>1 DEF StartReads, Reads, AfterRead, Registers
    <3> QED
      BY <1>1, <3>1 DEF RunInv, Busy
  <2>2. CASE ~StartReads(t)
    <3>1. /\ kernel' = kernel /\ "start" \in regs'.AP_CTRL
          /\ "done" \in regs'.AP_CTRL <=> "done" \in regs.AP_CTRL
          /\ mine' = CASE t = "main" -> IF mine = "asked" /\ ~Busy THEN "written" ELSE "lost"
                       [] OTHER -> IF mine = "asked" THEN "lost" ELSE mine
      BY <1>1, <1>2, <2>2, StartFacts DEF Registers
    <3> QED
      BY <1>1, <3>1 DEF RunInv, Busy
  <2> QED
    BY <2>1, <2>2
<1>3. ASSUME NEW t \in Threads, AsksControl(t)
      PROVE  RunInv'
  <2>1. regs'.AP_CTRL = regs.AP_CTRL \ {"done", "ready"} /\ UNCHANGED <<kernel, mine>>
    BY <1>1, <1>3, AsksControlFacts DEF Registers
  <2> QED
    BY <1>1, <2>1 DEF RunInv, Busy
<1>4. ASSUME UNCHANGED <<kernel, mine>>, 
             \A f \in {"start", "done"} : f \in regs'.AP_CTRL <=> f \in regs.AP_CTRL
      PROVE  RunInv'
  BY <1>4 DEF RunInv, Busy
<1>5. ASSUME NEW t \in Threads, SetsOne(t)
      PROVE  RunInv'
  <2>1. \A f \in {"start", "done"} : f \in regs'.AP_CTRL <=> f \in regs.AP_CTRL
    BY <1>1, <1>5, SetsOneFacts DEF Registers
  <2> QED
    BY <1>4, <1>5, <2>1, SetsOneFacts DEF rest
<1>6. ASSUME NEW t \in Threads, SetsPointer(t)
      PROVE  RunInv'
  BY <1>1, <1>4, <1>6, SetsPointerFacts DEF rest, Registers
<1>7. ASSUME NEW t \in Threads, ReadsBack(t)
      PROVE  RunInv'
  BY <1>1, <1>4, <1>7, ReadsBackFacts DEF rest, Registers
<1>8. ASSUME NEW t \in Threads, OnlyReads(t)
      PROVE  RunInv'
  BY <1>1, <1>4, <1>8, OnlyReadsFacts DEF rest, Registers
<1>9. ASSUME NEW t \in Threads, Faults(t) \/ Manages(t)
      PROVE  RunInv'
  BY <1>4, <1>9, ManagesFacts
<1>10. ASSUME NEW t \in Threads, Call(t)
       PROVE  RunInv'
  BY <1>4, <1>10 DEF Call
<1>11. CASE KernelBegins
  BY <1>1, <1>11 DEF KernelBegins, RunInv, Busy, RegistersOK
<1>12. CASE KernelDone
  <2>1. kernel.on /\ ~kernel'.on /\ mine' = IF mine = "begun" THEN "ended" ELSE mine
    BY <1>1, <1>12 DEF KernelDone, RegistersOK
  <2>2. mine' \notin {"asked", "written", "begun"}
    BY <2>1 DEF RunInv, Busy
  <2> QED
    BY <2>2 DEF RunInv
<1>13. CASE PadsChange
  BY <1>1, <1>4, <1>13 DEF PadsChange, Registers
<1>14. CASE StatusFollows
  BY <1>1, <1>14 DEF StatusFollows, RunInv, Busy, RegistersOK
<1> QED
  BY <1>2, <1>3, <1>5, <1>6, <1>7, <1>8, <1>9, <1>10, <1>11, <1>12, <1>13, <1>14, StepKinds
     DEF Next

\* The pads.  They only grow, and a call reads the high word after the low one.
LEMMA PadsStep ==
  ASSUME DriverTypeOK, PadsInv, Next
  PROVE  PadsInv'
<1>1. RegistersOK /\ ThreadsOK /\ regs.PADS \in Nat
  BY DEF DriverTypeOK, RegistersOK, Registers
<1>2. ASSUME NEW t \in Threads, Step(t)
      PROVE  PadsInv'
  <2>1. regs'.PADS = regs.PADS
    <3>1. CASE Start(t)
      BY <1>1, <3>1, StartFacts DEF RegistersOK, Registers
    <3>2. CASE AsksControl(t) \/ Faults(t) \/ Manages(t)
      BY <1>1, <3>2, AsksControlFacts, ManagesFacts DEF RegistersOK, Registers
    <3>3. CASE SetsOne(t)
      BY <1>1, <3>3, SetsOneFacts DEF RegistersOK, Registers
    <3>4. CASE SetsPointer(t)
      BY <1>1, <3>4, SetsPointerFacts DEF RegistersOK, Registers
    <3>5. CASE ReadsBack(t)
      BY <1>1, <3>5, ReadsBackFacts DEF RegistersOK, Registers
    <3>6. CASE OnlyReads(t)
      BY <1>1, <3>6, OnlyReadsFacts DEF RegistersOK, Registers
    <3> QED
      BY <1>2, <3>1, <3>2, <3>3, <3>4, <3>5, <3>6, StepKinds
  <2>2. ASSUME NEW u \in Threads, th'[u] = th[u]
        PROVE  th'[u].op \in PadReaders =>
                 /\ th'[u].since <= regs'.PADS
                 /\ th'[u].step = 2 => /\ th'[u].since <= th'[u].data[1]
                                       /\ th'[u].data[1] <= regs'.PADS
                 /\ th'[u].step = 3 => /\ th'[u].since <= th'[u].data[1]
                                       /\ th'[u].data[1] <= th'[u].data[2]
                                       /\ th'[u].data[2] <= regs'.PADS
    BY <2>1, <2>2 DEF PadsInv
  <2>3. ASSUME NEW u \in Threads, u # t
        PROVE  th'[u] = th[u]
    BY <1>1, <1>2, <2>3, OtherStays
  <2>4. CASE Return(t) \/ Writing(t)
    <3>1. th'[t].op \in {"none", "Set_romcode", "Set_ps_mprj_in"}
      <4>1. CASE Return(t)
        BY <1>1, <4>1 DEF ThreadsOK, Return, Idle
      <4>2. CASE Writing(t)
        BY <1>1, <4>2 DEF ThreadsOK, Writing, Goto
      <4> QED
        BY <2>4, <4>1, <4>2
    <3> QED
      BY <2>2, <2>3, <3>1 DEF PadsInv, PadReaders
  <2>5. CASE Stays(t)
    BY <2>2, <2>5 DEF Stays, PadsInv
  <2>6. ASSUME NEW r \in Kept, NEW n \in {2, 3}, Keeps(t, r, n)
        PROVE  PadsInv'
    <3>1. PICK v \in Values : v = RegValue(r)
      BY <1>1, ReadFacts
    <3>2. /\ th'[t].op = th[t].op /\ th'[t].since = th[t].since /\ th'[t].step = n
          /\ th'[t].data = Append(th[t].data, v)
      BY <1>1, <2>6, <3>1 DEF ThreadsOK, Keeps
    <3>3. SUFFICES ASSUME th[t].op \in PadReaders
                   PROVE  /\ th[t].since <= regs'.PADS
                          /\ n = 2 => /\ th[t].since <= th'[t].data[1]
                                      /\ th'[t].data[1] <= regs'.PADS
                          /\ n = 3 => /\ th[t].since <= th'[t].data[1]
                                      /\ th'[t].data[1] <= th'[t].data[2]
                                      /\ th'[t].data[2] <= regs'.PADS
      BY <2>2, <2>3, <3>2 DEF PadsInv
    <3>4. v = regs.PADS
      BY <1>1, <2>6, <3>1, <3>3, ReadFacts DEF Keeps
    <3>5. CASE n = 2
      <4>1. th[t].step = 1 /\ th[t].data = <<>> /\ <<>> \in Seq(Values) /\ Len(<<>>) = 0
        BY <1>1, <2>6, <3>3, <3>5 DEF ThreadsOK, Keeps, PadReaders
      <4>2. Append(<<>>, v)[0 + 1] = v
        BY <4>1, AppendFacts
      <4>3. th'[t].data[1] = v
        BY <3>2, <4>1, <4>2
      <4>4. th[t].since <= regs.PADS
        BY <3>3 DEF PadsInv
      <4> QED
        BY <1>1, <2>1, <3>4, <3>5, <4>3, <4>4
    <3>6. CASE n = 3
      <4>1. /\ th[t].step = 2 /\ th[t].data \in Seq(Values) /\ Len(th[t].data) = 1
            /\ th[t].data[1] \in Nat
        BY <1>1, <2>6, <3>3, <3>6 DEF ThreadsOK, Keeps
      <4>2. th'[t].data[1] = th[t].data[1] /\ th'[t].data[2] = v
        BY <3>2, <4>1, AppendFacts
      <4>3. /\ th[t].since <= regs.PADS /\ th[t].since <= th[t].data[1]
            /\ th[t].data[1] <= regs.PADS
        BY <3>3, <4>1 DEF PadsInv
      <4> QED
        BY <1>1, <2>1, <3>4, <3>6, <4>2, <4>3
    <3> QED
      BY <3>5, <3>6
  <2> QED
    BY <1>2, <2>4, <2>5, <2>6, ThreadMoves
<1>3. ASSUME NEW t \in Threads, Call(t)
      PROVE  PadsInv'
  <2>1. /\ th'[t].since = regs.PADS /\ th'[t].step = 1 /\ regs' = regs
        /\ \A u \in Threads : u # t => th'[u] = th[u]
    BY <1>1, <1>3 DEF ThreadsOK, Call
  <2> QED
    BY <1>1, <2>1 DEF PadsInv
<1>4. CASE KernelBegins \/ StatusFollows
  BY <1>4 DEF KernelBegins, StatusFollows, PadsInv
<1>5. CASE KernelDone
  <2>1. regs'.PADS = regs.PADS /\ th' = th
    BY <1>1, <1>5 DEF KernelDone, RegistersOK, Registers
  <2> QED
    BY <2>1 DEF PadsInv
<1>6. CASE PadsChange
  <2>1. regs'.PADS = regs.PADS + 1 /\ th' = th
    BY <1>1, <1>6 DEF PadsChange, RegistersOK, Registers
  <2>2. \A t \in Threads : /\ th[t].since \in Nat
                           /\ th[t].op \in PadReaders /\ th[t].step = 2 => th[t].data[1] \in Nat
                           /\ th[t].op \in PadReaders /\ th[t].step = 3 => th[t].data[2] \in Nat
    BY <1>1 DEF ThreadsOK
  <2> QED
    BY <1>1, <2>1, <2>2 DEF PadsInv
<1> QED
  BY <1>2, <1>3, <1>4, <1>5, <1>6 DEF Next

\* The threads that change a setting.
LEMMA OtherFacts ==
  /\ Other("main") = "handler" /\ Other("handler") = "main"
  /\ \A t, u \in Threads : t # u => u = Other(t)
<1>1. \A t \in Threads : \A u \in Threads : (u # t) <=> (u = IF t = "main" THEN "handler" ELSE "main")
  BY DEF Threads
<1>2. ASSUME NEW t \in Threads
      PROVE  Other(t) \in Threads /\ Other(t) # t
  <2>1. \E u \in Threads : u # t
    BY <1>2 DEF Threads
  <2> QED
    BY <2>1 DEF Other
<1> QED
  BY <1>1, <1>2 DEF Threads

LEMMA ThreadOps ==
  ASSUME ThreadsOK, NEW t \in Threads, Step(t)
  PROVE  \A u \in Threads : \/ th'[u].op = th[u].op
                            \/ u = t /\ th'[u] = Idle
<1>1. CASE Return(t) \/ Stays(t) \/ Writing(t)
  BY <1>1 DEF ThreadsOK, Return, Stays, Writing, Goto
<1>2. CASE \E r \in Kept, n \in {2, 3} : Keeps(t, r, n)
  BY <1>2 DEF ThreadsOK, Keeps
<1> QED
  BY <1>1, <1>2, ThreadMoves

LEMMA ClashStep ==
  ASSUME DriverTypeOK, ClashInv, Next
  PROVE  ClashInv'
<1>1. ThreadsOK
  BY DEF DriverTypeOK
<1>2. ASSUME NEW t \in Threads, Step(t)
      PROVE  ClashInv'
  <2>1. clash' = clash
    <3>1. CASE Start(t) \/ AsksControl(t) \/ Faults(t) \/ Manages(t)
      BY <3>1, StartFacts, AsksControlFacts, ManagesFacts
    <3>2. CASE SetsOne(t) \/ SetsPointer(t) \/ ReadsBack(t)
      BY <3>2, SetsOneFacts, SetsPointerFacts, ReadsBackFacts DEF rest
    <3>3. CASE OnlyReads(t)
      BY <3>3, OnlyReadsFacts DEF rest, DriverTypeOK
    <3> QED
      BY <1>2, <3>1, <3>2, <3>3, StepKinds
  <2>2. SettingOf("none") = "none" /\ Idle.op = "none"
    BY DEF SettingOf, Idle
  <2>3. \A u \in Threads : \/ SettingOf(th'[u].op) = SettingOf(th[u].op)
                           \/ SettingOf(th'[u].op) = "none"
    BY <1>1, <1>2, <2>2, ThreadOps
  <2>4. ASSUME NEW u \in Threads, NEW w \in Threads, u # w,
               SettingOf(th'[u].op) = SettingOf(th'[w].op)
        PROVE  SettingOf(th'[u].op) \in clash' \cup {"none"}
    BY <2>1, <2>3, <2>4 DEF ClashInv
  <2> QED
    BY <2>4 DEF ClashInv, SettingOf
<1>3. ASSUME NEW t \in Threads, Call(t)
      PROVE  ClashInv'
  <2>1. PICK op : /\ th'[t].op = op
                  /\ \A u \in Threads : u # t => th'[u] = th[u]
                  /\ clash' = IF SettingOf(op) = SettingOf(th[Other(t)].op)
                              THEN clash \cup Flag(SettingOf(op) # "none", SettingOf(op))
                              ELSE clash
    <3>1. PICK op \in program[t] : \E arg \in Arguments(op) :
            /\ th' = [th EXCEPT ![t] = [op |-> op, arg |-> arg, step |-> 1,
                                       data |-> <<>>, since |-> regs.PADS]]
            /\ clash' = IF SettingOf(op) = SettingOf(th[Other(t)].op)
                        THEN clash \cup Flag(SettingOf(op) # "none", SettingOf(op))
                        ELSE clash
      BY <1>3 DEF Call
    <3>2. th'[t].op = op /\ \A u \in Threads : u # t => th'[u] = th[u]
      BY <1>1, <3>1 DEF ThreadsOK
    <3> QED
      BY <3>1, <3>2
  <2>2. \A u \in Threads : u # t => u = Other(t)
    BY OtherFacts
  <2>3. /\ clash \subseteq clash'
        /\ SettingOf(op) = SettingOf(th[Other(t)].op) => SettingOf(op) \in clash' \cup {"none"}
    BY <2>1 DEF Flag
  <2>4. ASSUME NEW u \in Threads, NEW w \in Threads, u # w,
               SettingOf(th'[u].op) = SettingOf(th'[w].op)
        PROVE  SettingOf(th'[u].op) \in clash' \cup {"none"}
    <3>1. CASE u # t /\ w # t
      BY <2>2, <2>4, <3>1
    <3>2. CASE u = t
      <4>1. w = Other(t) /\ th'[w] = th[w]
        BY <2>1, <2>2, <2>4, <3>2
      <4> QED
        BY <2>1, <2>3, <2>4, <3>2, <4>1
    <3>3. CASE w = t
      <4>1. u = Other(t) /\ th'[u] = th[u]
        BY <2>1, <2>2, <2>4, <3>3
      <4> QED
        BY <2>1, <2>3, <2>4, <3>3, <4>1
    <3> QED
      BY <3>1, <3>2, <3>3
  <2> QED
    BY <2>4 DEF ClashInv, SettingOf
<1>4. CASE KernelBegins \/ KernelDone \/ StatusFollows \/ PadsChange
  BY <1>4 DEF ClashInv, SettingOf, KernelBegins, KernelDone, StatusFollows, PadsChange
<1> QED
  BY <1>2, <1>3, <1>4 DEF Next

\* Two threads are not in calls that change the same setting, unless it is in
\* clash.
LEMMA Alone ==
  ASSUME ClashInv, NEW t \in Threads, NEW u \in Threads, u # t,
         NEW s \in Settings, s \notin clash, SettingOf(th[t].op) = s
  PROVE  SettingOf(th[u].op) # s
  BY DEF ClashInv, Settings

LEMMA SettingFacts ==
  /\ \A op \in {"Start", "EnableAutoRestart", "DisableAutoRestart"} : SettingOf(op) = "auto"
  /\ \A op \in {"InterruptEnable", "InterruptDisable"} : SettingOf(op) = "ier"
  /\ SettingOf("Set_romcode") = "romcode" /\ SettingOf("Set_ps_mprj_in") = "pads_in"
  /\ {"auto", "ier", "romcode", "pads_in"} = Settings
  BY DEF SettingOf, Settings

\* What a thread has read for its call is what it was, except where it returns
\* or reads now.
LEMMA DataKept ==
  ASSUME ThreadsOK, NEW t \in Threads, Step(t), NEW u \in Threads,
         th'[u].op \in ControlReaders, th'[u].step = 2
  PROVE  \/ th'[u] = th[u]
         \/ /\ u = t /\ th[t].step = 1 /\ th'[t].op = th[t].op
            /\ \E r \in Kept : Keeps(t, r, 2) /\ th'[t].data[1] = RegValue(r)
<1>1. CASE u # t
  BY <1>1, OtherStays
<1>2. CASE u = t
  <2>1. CASE Return(t) \/ Writing(t)
    <3>1. th'[t].op \in {"none", "Set_romcode", "Set_ps_mprj_in"}
      <4>1. CASE Return(t)
        BY <4>1 DEF ThreadsOK, Return, Idle
      <4>2. CASE Writing(t)
        BY <4>2 DEF ThreadsOK, Writing, Goto
      <4> QED
        BY <2>1, <4>1, <4>2
    <3> QED
      BY <1>2, <3>1 DEF ControlReaders
  <2>2. CASE Stays(t)
    BY <1>2, <2>2 DEF Stays
  <2>3. ASSUME NEW r \in Kept, NEW n \in {2, 3}, Keeps(t, r, n)
        PROVE  \E q \in Kept : Keeps(t, q, 2) /\ th'[t].data[1] = RegValue(q)
                               /\ th[t].step = 1 /\ th'[t].op = th[t].op
    <3>1. /\ th'[t].step = n /\ th'[t].op = th[t].op
          /\ th'[t].data = Append(th[t].data, RegValue(r))
      BY <2>3 DEF ThreadsOK, Keeps
    <3>2. n = 2 /\ th[t].step = 1
      BY <1>2, <2>3, <3>1 DEF Keeps
    <3>3. th[t].data = <<>>
      BY <1>2, <3>1, <3>2 DEF ThreadsOK, ControlReaders
    <3>4. Append(<<>>, RegValue(r))[1] = RegValue(r)
      OBVIOUS
    <3> QED
      BY <2>3, <3>1, <3>2, <3>3, <3>4
  <2> QED
    BY <1>2, <2>1, <2>2, <2>3, ThreadMoves
<1> QED
  BY <1>1, <1>2

\* Most steps leave the settings, and only two kinds change words of pointers.
LEMMA SettingsLeft ==
  ASSUME DriverTypeOK, NEW t \in Threads, Step(t)
  PROVE  /\ clash' = clash /\ kernel' = kernel
         /\ (~Start(t) /\ ~SetsOne(t)) =>
               regs'.AP_CTRL \cap {"auto"} = regs.AP_CTRL \cap {"auto"}
         /\ ~SetsOne(t) => asked'.auto = asked.auto
         /\ ~ReadsBack(t) => regs'.IER = regs.IER /\ asked'.ier = asked.ier
         /\ ~SetsPointer(t) => /\ regs'.ROM_LO = regs.ROM_LO /\ regs'.ROM_HI = regs.ROM_HI
                               /\ regs'.IN_LO = regs.IN_LO /\ regs'.IN_HI = regs.IN_HI
                               /\ asked'.romcode = asked.romcode
                               /\ asked'.pads_in = asked.pads_in
                               /\ th' = th \/ th[t].op \notin {"Set_romcode", "Set_ps_mprj_in"}
         /\ ~SetsOne(t) => /\ UNCHANGED <<regs.GIE, regs.LENGTH, regs.PIN>>
                           /\ UNCHANGED <<asked.gie, asked.length, asked.pin>>
<1>1. regs \in Registers /\ RegistersOK
  BY DEF DriverTypeOK, RegistersOK
<1>2. asked \in [auto : SUBSET Flags, length : Nat, gie : SUBSET Flags, ier : SUBSET Flags,
                 pin : Nat, romcode : Nat, pads_in : Nat]
  BY <1>1 DEF RegistersOK
<1>3. CASE Start(t)
  BY <1>1, <1>3, StartFacts DEF Registers
<1>4. CASE AsksControl(t)
  BY <1>1, <1>4, AsksControlFacts DEF Registers
<1>5. CASE SetsOne(t)
  BY <1>1, <1>2, <1>5, SetsOneFacts DEF Registers, rest
<1>6. CASE SetsPointer(t)
  BY <1>1, <1>2, <1>6, SetsPointerFacts DEF Registers, rest
<1>7. CASE ReadsBack(t)
  BY <1>1, <1>2, <1>7, ReadsBackFacts DEF Registers, rest
<1>8. CASE OnlyReads(t)
  <2>1. th[t].op \notin {"Set_romcode", "Set_ps_mprj_in"}
    BY <1>8 DEF OnlyReads, InterruptClear, Get_length_r, InterruptGetEnabled,
                InterruptGetStatus, Get_outpin_ctrl, Get_ps_mprj_out_vld, Get_ps_mprj_en_vld,
                Get_romcode, Get_ps_mprj_in, Get_ps_mprj_out, Get_ps_mprj_en,
                GetsWhole, GetsTwo, In
  <2> QED
    BY <1>1, <1>8, <2>1, OnlyReadsFacts DEF Registers, rest
<1>9. CASE Faults(t) \/ Manages(t)
  <2>1. th' = th \/ th[t].op \notin {"Set_romcode", "Set_ps_mprj_in"}
    BY <1>9 DEF Faults, Manages, Initialize, Release
  <2> QED
    BY <1>9, <2>1, ManagesFacts
<1> QED
  BY <1>3, <1>4, <1>5, <1>6, <1>7, <1>8, <1>9, StepKinds

\* The core changes no setting.
LEMMA CoreLeaves ==
  ASSUME RegistersOK, KernelBegins \/ KernelDone \/ StatusFollows \/ PadsChange
  PROVE  /\ UNCHANGED <<th, asked, clash>>
         /\ regs'.AP_CTRL \cap {"auto"} = regs.AP_CTRL \cap {"auto"}
         /\ UNCHANGED <<regs.IER, regs.GIE, regs.LENGTH, regs.PIN, regs.ROM_LO,
                        regs.ROM_HI, regs.IN_LO, regs.IN_HI>>
<1>1. regs \in Registers
  BY DEF RegistersOK
<1>2. CASE KernelBegins \/ StatusFollows
  BY <1>2 DEF KernelBegins, StatusFollows
<1>3. CASE KernelDone
  <2>1. PICK a : /\ a = (regs.AP_CTRL \ {"start"})
                          \cup {IF "auto" \in regs.AP_CTRL THEN "start" ELSE "ready"}
                          \cup Flag("auto" \notin regs.AP_CTRL \/ ~kernel.auto, "done")
                 /\ regs' = [regs EXCEPT !.AP_CTRL = a, !.ISR = regs.ISR \cup regs.IER]
    BY <1>3 DEF KernelDone
  <2>2. a \cap {"auto"} = regs.AP_CTRL \cap {"auto"}
    BY <2>1 DEF Flag
  <2> QED
    BY <1>1, <1>3, <2>1, <2>2 DEF Registers, KernelDone
<1>4. CASE PadsChange
  BY <1>1, <1>4 DEF Registers, PadsChange
<1> QED
  BY <1>2, <1>3, <1>4

\* A call begins: its thread was idle, and clash only grows.
LEMMA CallFacts ==
  ASSUME ThreadsOK, NEW t \in Threads, Call(t)
  PROVE  /\ th[t].op = "none" /\ th'[t].step = 1
         /\ \A u \in Threads : u # t => th'[u] = th[u]
         /\ clash \subseteq clash'
         /\ UNCHANGED <<program, regs, kernel, os, fault, asked, mine, swallowed, misuse>>
         /\ \E op \in program[t] : \E arg \in Arguments(op) :
              th'[t].op = op /\ th'[t].arg = arg /\ MayCall(t, op, arg)
<1>1. PICK op \in program[t] : \E arg \in Arguments(op) :
            /\ MayCall(t, op, arg)
            /\ th' = [th EXCEPT ![t] = [op |-> op, arg |-> arg, step |-> 1,
                                       data |-> <<>>, since |-> regs.PADS]]
            /\ clash' = IF SettingOf(op) = SettingOf(th[Other(t)].op)
                        THEN clash \cup Flag(SettingOf(op) # "none", SettingOf(op))
                        ELSE clash
  BY DEF Call
<1>2. PICK arg \in Arguments(op) :
            /\ MayCall(t, op, arg)
            /\ th' = [th EXCEPT ![t] = [op |-> op, arg |-> arg, step |-> 1,
                                       data |-> <<>>, since |-> regs.PADS]]
            /\ clash' = IF SettingOf(op) = SettingOf(th[Other(t)].op)
                        THEN clash \cup Flag(SettingOf(op) # "none", SettingOf(op))
                        ELSE clash
  BY <1>1
<1>3. th'[t].op = op /\ th'[t].arg = arg /\ th'[t].step = 1
  BY <1>2 DEF ThreadsOK
<1>4. \A u \in Threads : u # t => th'[u] = th[u]
  BY <1>2 DEF ThreadsOK
<1>5. clash \subseteq clash'
  BY <1>2
<1> QED
  BY <1>2, <1>3, <1>4, <1>5 DEF Call

\* The flag auto_restart: Start writes back what it has read.
LEMMA AutoStep ==
  ASSUME DriverTypeOK, ClashInv, AutoKept, Next
  PROVE  AutoKept'
<1>1. RegistersOK /\ ThreadsOK /\ regs \in Registers
  BY DEF DriverTypeOK, RegistersOK
<1>2. ASSUME NEW t \in Threads, Step(t), "auto" \notin clash
      PROVE  AutoKept'
  <2>1. /\ regs.AP_CTRL \cap {"auto"} = asked.auto
        /\ \A u \in Threads : th[u].op = "Start" /\ th[u].step = 2
             => th[u].data[1] \cap {"auto"} = asked.auto
    BY <1>2 DEF AutoKept
  <2>2. CASE ~SetsOne(t)
    <3>1. asked'.auto = asked.auto
      BY <1>2, <2>2, SettingsLeft
    <3>2. regs'.AP_CTRL \cap {"auto"} = asked.auto
      <4>1. CASE ~Start(t)
        BY <1>2, <2>1, <2>2, <4>1, SettingsLeft
      <4>2. CASE Start(t)
        <5>1. CASE regs' = [regs EXCEPT !.AP_CTRL = @ \ {"done", "ready"}]
          BY <1>1, <2>1, <5>1 DEF Registers
        <5>2. CASE /\ th[t].op = "Start" /\ th[t].step = 2
                   /\ regs' = [regs EXCEPT !.AP_CTRL = (@ \ {"auto"}) \cup {"start"}
                                                     \cup (th[t].data[1] \cap {"auto"})]
          <6>1. regs'.AP_CTRL = (regs.AP_CTRL \ {"auto"}) \cup {"start"}
                                  \cup (th[t].data[1] \cap {"auto"})
            BY <1>1, <5>2 DEF Registers
          <6>2. th[t].data[1] \cap {"auto"} = asked.auto
            BY <2>1, <5>2
          <6>3. regs'.AP_CTRL \cap {"auto"} = th[t].data[1] \cap {"auto"}
            BY <6>1
          <6> QED
            BY <6>2, <6>3
        <5> QED
          BY <4>2, <5>1, <5>2, StartFacts
      <4> QED
        BY <4>1, <4>2
    <3>3. ASSUME NEW u \in Threads, th'[u].op = "Start", th'[u].step = 2
          PROVE  th'[u].data[1] \cap {"auto"} = asked.auto
      <4>1. CASE th'[u] = th[u]
        BY <2>1, <3>3, <4>1
      <4>2. CASE \E r \in Kept : /\ u = t /\ th'[t].op = th[t].op /\ Keeps(t, r, 2)
                                 /\ th'[t].data[1] = RegValue(r)
        BY <1>1, <2>1, <3>3, <4>2, ReadFacts DEF Keeps
      <4> QED
        BY <1>1, <1>2, <3>3, <4>1, <4>2, DataKept DEF ControlReaders
    <3> QED
      BY <3>1, <3>2, <3>3 DEF AutoKept
  <2>3. CASE SetsOne(t)
    <3>1. UNCHANGED rest /\ Return(t)
      BY <2>3, SetsOneFacts
    <3>2. \A u \in Threads : u # t => th'[u] = th[u]
      BY <1>1, <1>2, OtherStays
    <3>3. th'[t].op = "none"
      BY <1>1, <3>1 DEF ThreadsOK, Return, Idle
    <3>4. CASE th[t].op \notin {"EnableAutoRestart", "DisableAutoRestart"}
      <4>1. regs'.AP_CTRL = regs.AP_CTRL /\ asked'.auto = asked.auto
        BY <1>1, <2>3, <3>4, SetsOneFacts DEF Registers, RegistersOK
      <4> QED
        BY <2>1, <3>2, <3>3, <4>1 DEF AutoKept
    <3>5. CASE th[t].op \in {"EnableAutoRestart", "DisableAutoRestart"}
      <4>1. PICK v \in {{}, {"auto"}} :
              /\ regs' = [regs EXCEPT !.AP_CTRL = (@ \ {"auto"}) \cup v]
              /\ asked' = [asked EXCEPT !.auto = v]
        BY <2>3, <3>5, SetsOneFacts
      <4>2. regs'.AP_CTRL = (regs.AP_CTRL \ {"auto"}) \cup v /\ asked'.auto = v
        BY <1>1, <4>1 DEF Registers, RegistersOK
      <4>3. regs'.AP_CTRL \cap {"auto"} = asked'.auto
        BY <4>2
      <4>4. ASSUME NEW u \in Threads, u # t
            PROVE  th'[u].op # "Start"
        BY <1>2, <3>2, <3>5, <4>4, Alone, SettingFacts
      <4> QED
        BY <3>3, <4>3, <4>4 DEF AutoKept
    <3> QED
      BY <3>4, <3>5
  <2> QED
    BY <2>2, <2>3
<1>3. ASSUME NEW t \in Threads, Step(t)
      PROVE  AutoKept'
  BY <1>2, <1>3, SettingsLeft DEF AutoKept
<1>4. ASSUME NEW t \in Threads, Call(t)
      PROVE  AutoKept'
  BY <1>1, <1>4, CallFacts DEF AutoKept
<1>5. CASE KernelBegins \/ KernelDone \/ StatusFollows \/ PadsChange
  BY <1>1, <1>5, CoreLeaves DEF AutoKept
<1> QED
  BY <1>3, <1>4, <1>5 DEF Next

\* The interrupt enables: read, changed and written back.
LEMMA EnablesStep ==
  ASSUME DriverTypeOK, ClashInv, EnablesKept, Next
  PROVE  EnablesKept'
<1>1. RegistersOK /\ ThreadsOK /\ regs \in Registers
  BY DEF DriverTypeOK, RegistersOK
<1>2. ASSUME NEW t \in Threads, Step(t), "ier" \notin clash
      PROVE  EnablesKept'
  <2>1. /\ regs.IER = asked.ier
        /\ \A u \in Threads :
             th[u].op \in {"InterruptEnable", "InterruptDisable"} /\ th[u].step = 2
               => th[u].data[1] = asked.ier
    BY <1>2 DEF EnablesKept
  <2>2. CASE regs'.IER = regs.IER /\ asked'.ier = asked.ier
    <3>1. ASSUME NEW u \in Threads,
                 th'[u].op \in {"InterruptEnable", "InterruptDisable"}, th'[u].step = 2
          PROVE  th'[u].data[1] = asked.ier
      <4>1. CASE th'[u] = th[u]
        BY <2>1, <3>1, <4>1
      <4>2. CASE \E r \in Kept : /\ u = t /\ th'[t].op = th[t].op /\ Keeps(t, r, 2)
                                 /\ th'[t].data[1] = RegValue(r)
        BY <1>1, <2>1, <3>1, <4>2, ReadFacts DEF Keeps
      <4> QED
        BY <1>1, <1>2, <3>1, <4>1, <4>2, DataKept DEF ControlReaders
    <3> QED
      BY <2>1, <2>2, <3>1 DEF EnablesKept
  <2>3. CASE ReadsBack(t) /\ th[t].step = 2
    <3>1. PICK v \in SUBSET Flags :
            /\ Return(t) /\ regs' = [regs EXCEPT !.IER = v]
            /\ asked' = [asked EXCEPT !.ier = v]
            /\ th[t].op \in {"InterruptEnable", "InterruptDisable"}
      <4>1. th[t].op \in {"InterruptEnable", "InterruptDisable"} /\ th[t].data[1] = asked.ier
        BY <2>1, <2>3, ReadsBackFacts
      <4>2. PICK v \in SUBSET Flags :
              /\ th[t].step = 2 /\ Return(t)
              /\ regs' = [regs EXCEPT !.IER = v]
              /\ \E w \in SUBSET Flags :
                   /\ asked' = [asked EXCEPT !.ier = w]
                   /\ th[t].data[1] = asked.ier => w = v
        <5>1. th[t].step # 1
          BY <2>3
        <5> QED
          BY <2>3, <5>1, ReadsBackFacts
      <4> QED
        BY <4>1, <4>2
    <3>2. regs'.IER = v /\ asked'.ier = v
      BY <1>1, <3>1 DEF Registers, RegistersOK
    <3>3. th'[t].op = "none"
      BY <1>1, <3>1 DEF ThreadsOK, Return, Idle
    <3>4. ASSUME NEW u \in Threads, u # t
          PROVE  th'[u].op \notin {"InterruptEnable", "InterruptDisable"}
      BY <1>1, <1>2, <3>1, <3>4, Alone, SettingFacts, OtherStays
    <3> QED
      BY <3>2, <3>3, <3>4 DEF EnablesKept
  <2> QED
    BY <1>2, <2>2, <2>3, SettingsLeft, ReadsBackFacts
<1>3. ASSUME NEW t \in Threads, Step(t)
      PROVE  EnablesKept'
  BY <1>2, <1>3, SettingsLeft DEF EnablesKept
<1>4. ASSUME NEW t \in Threads, Call(t)
      PROVE  EnablesKept'
  BY <1>1, <1>4, CallFacts DEF EnablesKept
<1>5. CASE KernelBegins \/ KernelDone \/ StatusFollows \/ PadsChange
  BY <1>1, <1>5, CoreLeaves DEF EnablesKept
<1> QED
  BY <1>3, <1>4, <1>5 DEF Next

\* The registers that one write sets.
LEMMA WholeStep ==
  ASSUME DriverTypeOK, WholeKept, Next
  PROVE  WholeKept'
<1>1. RegistersOK /\ ThreadsOK /\ regs \in Registers
  BY DEF DriverTypeOK, RegistersOK
<1>2. ASSUME NEW t \in Threads, Step(t)
      PROVE  WholeKept'
  <2>1. CASE ~SetsOne(t)
    BY <1>2, <2>1, SettingsLeft DEF WholeKept
  <2>2. CASE SetsOne(t)
    BY <1>1, <2>2, SetsOneFacts DEF WholeKept, RegistersOK, Registers
  <2> QED
    BY <2>1, <2>2
<1>3. ASSUME NEW t \in Threads, Call(t)
      PROVE  WholeKept'
  BY <1>1, <1>3, CallFacts DEF WholeKept
<1>4. CASE KernelBegins \/ KernelDone \/ StatusFollows \/ PadsChange
  BY <1>1, <1>4, CoreLeaves DEF WholeKept
<1> QED
  BY <1>2, <1>3, <1>4 DEF Next

\* A call that sets a pointer: between its words its thread alone is halfway.
LEMMA RomStep ==
  ASSUME DriverTypeOK, ClashInv, RomHalves, Next
  PROVE  RomHalves'
<1>1. RegistersOK /\ ThreadsOK /\ regs \in Registers
  BY DEF DriverTypeOK, RegistersOK
<1>2. ASSUME NEW t \in Threads, Step(t), "romcode" \notin clash
      PROVE  RomHalves'
  <2>1. /\ regs.ROM_HI = asked.romcode
        /\ \A u \in Threads : Halfway(u, "Set_romcode") => regs.ROM_LO = th[u].arg
        /\ (\A u \in Threads : ~Halfway(u, "Set_romcode")) => regs.ROM_LO = asked.romcode
    BY <1>2 DEF RomHalves
  <2>2. \A u \in Threads : u # t => th'[u] = th[u]
    BY <1>1, <1>2, OtherStays
  <2>3. CASE th[t].op # "Set_romcode"
    <3>1. /\ regs'.ROM_LO = regs.ROM_LO /\ regs'.ROM_HI = regs.ROM_HI
          /\ asked'.romcode = asked.romcode
      <4>1. CASE SetsPointer(t)
        BY <1>1, <2>3, <4>1, SetsPointerFacts DEF Registers, RegistersOK
      <4>2. CASE ~SetsPointer(t)
        BY <1>2, <4>2, SettingsLeft
      <4> QED
        BY <4>1, <4>2
    <3>2. th'[t].op # "Set_romcode"
      BY <1>1, <1>2, <2>3, ThreadOps DEF Idle
    <3>3. \A u \in Threads : /\ Halfway(u, "Set_romcode")' <=> Halfway(u, "Set_romcode")
                             /\ u # t => th'[u].arg = th[u].arg
      BY <2>2, <2>3, <3>2 DEF Halfway
    <3>4. ASSUME NEW u \in Threads, Halfway(u, "Set_romcode")'
          PROVE  regs'.ROM_LO = th'[u].arg
      BY <2>1, <2>2, <3>1, <3>2, <3>4 DEF Halfway
    <3>5. ASSUME \A u \in Threads : ~Halfway(u, "Set_romcode")'
          PROVE  regs'.ROM_LO = asked'.romcode
      <4>1. \A u \in Threads : ~Halfway(u, "Set_romcode")
        BY <3>3, <3>5
      <4> QED
        BY <2>1, <3>1, <4>1
    <3> QED
      BY <2>1, <3>1, <3>4, <3>5 DEF RomHalves, Halfway
  <2>4. CASE th[t].op = "Set_romcode"
    <3>1. ASSUME NEW u \in Threads, u # t
          PROVE  th[u].op # "Set_romcode" /\ th'[u].op # "Set_romcode"
      BY <1>2, <2>2, <2>4, <3>1, Alone, SettingFacts
    <3>2. CASE ~SetsPointer(t)
      <4>1. /\ th' = th /\ regs'.ROM_LO = regs.ROM_LO /\ regs'.ROM_HI = regs.ROM_HI
            /\ asked'.romcode = asked.romcode
        BY <1>2, <2>4, <3>2, SettingsLeft
      <4> QED
        BY <2>1, <4>1 DEF RomHalves, Halfway
    <3>3. CASE SetsPointer(t) /\ th[t].step = 1
      <4>1. /\ Goto(t, 2) /\ regs' = [regs EXCEPT !.ROM_LO = th[t].arg] /\ asked' = asked
        BY <2>4, <3>3, SetsPointerFacts
      <4>2. /\ th'[t].op = "Set_romcode" /\ th'[t].step = 2 /\ th'[t].arg = th[t].arg
            /\ regs'.ROM_LO = th[t].arg /\ regs'.ROM_HI = regs.ROM_HI
        BY <1>1, <2>4, <4>1 DEF ThreadsOK, Goto, Registers
      <4>3. Halfway(t, "Set_romcode")'
        BY <4>2 DEF Halfway
      <4>4. \A u \in Threads : Halfway(u, "Set_romcode")' => u = t
        BY <3>1 DEF Halfway
      <4> QED
        BY <2>1, <4>1, <4>2, <4>3, <4>4 DEF RomHalves, Halfway
    <3>4. CASE SetsPointer(t) /\ th[t].step # 1
      <4>1. /\ Return(t) /\ regs' = [regs EXCEPT !.ROM_HI = th[t].arg]
            /\ asked' = [asked EXCEPT !.romcode = th[t].arg]
            /\ th[t].step = 2
        BY <2>4, <3>4, SetsPointerFacts
      <4>2. /\ th'[t].op = "none" /\ regs'.ROM_LO = regs.ROM_LO
            /\ regs'.ROM_HI = th[t].arg /\ asked'.romcode = th[t].arg
        BY <1>1, <4>1 DEF ThreadsOK, Return, Idle, Registers, RegistersOK
      <4>3. regs.ROM_LO = th[t].arg
        BY <2>1, <2>4, <4>1 DEF Halfway
      <4>4. \A u \in Threads : ~Halfway(u, "Set_romcode")'
        BY <3>1, <4>2 DEF Halfway
      <4> QED
        BY <4>2, <4>3, <4>4 DEF RomHalves, Halfway
    <3> QED
      BY <3>2, <3>3, <3>4
  <2> QED
    BY <2>3, <2>4
<1>3. ASSUME NEW t \in Threads, Step(t)
      PROVE  RomHalves'
  BY <1>2, <1>3, SettingsLeft DEF RomHalves, Halfway
<1>4. ASSUME NEW t \in Threads, Call(t)
      PROVE  RomHalves'
  <2>1. /\ UNCHANGED <<regs, asked>> /\ clash \subseteq clash'
        /\ \A u \in Threads : u # t => th'[u] = th[u]
        /\ th[t].op = "none" /\ th'[t].step = 1
    BY <1>1, <1>4, CallFacts
  <2>2. \A u \in Threads : Halfway(u, "Set_romcode")' <=> Halfway(u, "Set_romcode")
    BY <2>1 DEF Halfway
  <2> QED
    BY <2>1, <2>2 DEF RomHalves, Halfway
<1>5. CASE KernelBegins \/ KernelDone \/ StatusFollows \/ PadsChange
  BY <1>1, <1>5, CoreLeaves DEF RomHalves, Halfway
<1> QED
  BY <1>3, <1>4, <1>5 DEF Next

LEMMA PadWordsStep ==
  ASSUME DriverTypeOK, ClashInv, PadHalves, Next
  PROVE  PadHalves'
<1>1. RegistersOK /\ ThreadsOK /\ regs \in Registers
  BY DEF DriverTypeOK, RegistersOK
<1>2. ASSUME NEW t \in Threads, Step(t), "pads_in" \notin clash
      PROVE  PadHalves'
  <2>1. /\ regs.IN_HI = asked.pads_in
        /\ \A u \in Threads : Halfway(u, "Set_ps_mprj_in") => regs.IN_LO = th[u].arg
        /\ (\A u \in Threads : ~Halfway(u, "Set_ps_mprj_in")) => regs.IN_LO = asked.pads_in
    BY <1>2 DEF PadHalves
  <2>2. \A u \in Threads : u # t => th'[u] = th[u]
    BY <1>1, <1>2, OtherStays
  <2>3. CASE th[t].op # "Set_ps_mprj_in"
    <3>1. /\ regs'.IN_LO = regs.IN_LO /\ regs'.IN_HI = regs.IN_HI
          /\ asked'.pads_in = asked.pads_in
      <4>1. CASE SetsPointer(t)
        BY <1>1, <2>3, <4>1, SetsPointerFacts DEF Registers, RegistersOK
      <4>2. CASE ~SetsPointer(t)
        BY <1>2, <4>2, SettingsLeft
      <4> QED
        BY <4>1, <4>2
    <3>2. th'[t].op # "Set_ps_mprj_in"
      BY <1>1, <1>2, <2>3, ThreadOps DEF Idle
    <3>3. \A u \in Threads : /\ Halfway(u, "Set_ps_mprj_in")' <=> Halfway(u, "Set_ps_mprj_in")
                             /\ u # t => th'[u].arg = th[u].arg
      BY <2>2, <2>3, <3>2 DEF Halfway
    <3>4. ASSUME NEW u \in Threads, Halfway(u, "Set_ps_mprj_in")'
          PROVE  regs'.IN_LO = th'[u].arg
      BY <2>1, <2>2, <3>1, <3>2, <3>4 DEF Halfway
    <3>5. ASSUME \A u \in Threads : ~Halfway(u, "Set_ps_mprj_in")'
          PROVE  regs'.IN_LO = asked'.pads_in
      <4>1. \A u \in Threads : ~Halfway(u, "Set_ps_mprj_in")
        BY <3>3, <3>5
      <4> QED
        BY <2>1, <3>1, <4>1
    <3> QED
      BY <2>1, <3>1, <3>4, <3>5 DEF PadHalves, Halfway
  <2>4. CASE th[t].op = "Set_ps_mprj_in"
    <3>1. ASSUME NEW u \in Threads, u # t
          PROVE  th[u].op # "Set_ps_mprj_in" /\ th'[u].op # "Set_ps_mprj_in"
      BY <1>2, <2>2, <2>4, <3>1, Alone, SettingFacts
    <3>2. CASE ~SetsPointer(t)
      <4>1. /\ th' = th /\ regs'.IN_LO = regs.IN_LO /\ regs'.IN_HI = regs.IN_HI
            /\ asked'.pads_in = asked.pads_in
        BY <1>2, <2>4, <3>2, SettingsLeft
      <4> QED
        BY <2>1, <4>1 DEF PadHalves, Halfway
    <3>3. CASE SetsPointer(t) /\ th[t].step = 1
      <4>1. /\ Goto(t, 2) /\ regs' = [regs EXCEPT !.IN_LO = th[t].arg] /\ asked' = asked
        BY <2>4, <3>3, SetsPointerFacts
      <4>2. /\ th'[t].op = "Set_ps_mprj_in" /\ th'[t].step = 2 /\ th'[t].arg = th[t].arg
            /\ regs'.IN_LO = th[t].arg /\ regs'.IN_HI = regs.IN_HI
        BY <1>1, <2>4, <4>1 DEF ThreadsOK, Goto, Registers
      <4>3. Halfway(t, "Set_ps_mprj_in")'
        BY <4>2 DEF Halfway
      <4>4. \A u \in Threads : Halfway(u, "Set_ps_mprj_in")' => u = t
        BY <3>1 DEF Halfway
      <4> QED
        BY <2>1, <4>1, <4>2, <4>3, <4>4 DEF PadHalves, Halfway
    <3>4. CASE SetsPointer(t) /\ th[t].step # 1
      <4>1. /\ Return(t) /\ regs' = [regs EXCEPT !.IN_HI = th[t].arg]
            /\ asked' = [asked EXCEPT !.pads_in = th[t].arg]
            /\ th[t].step = 2
        BY <2>4, <3>4, SetsPointerFacts
      <4>2. /\ th'[t].op = "none" /\ regs'.IN_LO = regs.IN_LO
            /\ regs'.IN_HI = th[t].arg /\ asked'.pads_in = th[t].arg
        BY <1>1, <4>1 DEF ThreadsOK, Return, Idle, Registers, RegistersOK
      <4>3. regs.IN_LO = th[t].arg
        BY <2>1, <2>4, <4>1 DEF Halfway
      <4>4. \A u \in Threads : ~Halfway(u, "Set_ps_mprj_in")'
        BY <3>1, <4>2 DEF Halfway
      <4> QED
        BY <4>2, <4>3, <4>4 DEF PadHalves, Halfway
    <3> QED
      BY <3>2, <3>3, <3>4
  <2> QED
    BY <2>3, <2>4
<1>3. ASSUME NEW t \in Threads, Step(t)
      PROVE  PadHalves'
  BY <1>2, <1>3, SettingsLeft DEF PadHalves, Halfway
<1>4. ASSUME NEW t \in Threads, Call(t)
      PROVE  PadHalves'
  <2>1. /\ UNCHANGED <<regs, asked>> /\ clash \subseteq clash'
        /\ \A u \in Threads : u # t => th'[u] = th[u]
        /\ th[t].op = "none" /\ th'[t].step = 1
    BY <1>1, <1>4, CallFacts
  <2>2. \A u \in Threads : Halfway(u, "Set_ps_mprj_in")' <=> Halfway(u, "Set_ps_mprj_in")
    BY <2>1 DEF Halfway
  <2> QED
    BY <2>1, <2>2 DEF PadHalves, Halfway
<1>5. CASE KernelBegins \/ KernelDone \/ StatusFollows \/ PadsChange
  BY <1>1, <1>5, CoreLeaves DEF PadHalves, Halfway
<1> QED
  BY <1>3, <1>4, <1>5 DEF Next

\* The core takes whole arguments when no call is setting them.
LEMMA HalvesStep ==
  ASSUME DriverTypeOK, ClashInv, HalvesInv, Next
  PROVE  HalvesInv'
<1>1. RegistersOK /\ ThreadsOK
  BY DEF DriverTypeOK
<1>2. RomHalves' /\ PadHalves'
  BY RomStep, PadWordsStep DEF HalvesInv
<1>3. (kernel.clean => kernel.lo = kernel.hi)'
  <2>1. CASE kernel' = kernel
    BY <2>1 DEF HalvesInv
  <2>2. CASE KernelBegins
    <3>1. /\ kernel'.lo = regs.ROM_LO /\ kernel'.hi = regs.ROM_HI
          /\ kernel'.clean => "romcode" \notin clash
                               /\ \A t \in Threads : th[t].op # "Set_romcode"
      BY <2>2 DEF KernelBegins, InOp
    <3> QED
      BY <3>1 DEF HalvesInv, RomHalves, Halfway
  <2>3. CASE KernelDone \/ StatusFollows
    BY <1>1, <2>3 DEF KernelDone, StatusFollows, RegistersOK, HalvesInv
  <2>4. CASE PadsChange \/ \E t \in Threads : Call(t) \/ Step(t)
    <3>1. kernel' = kernel
      BY <2>4, SettingsLeft DEF PadsChange, Call
    <3> QED
      BY <2>1, <3>1
  <2> QED
    BY <2>2, <2>3, <2>4 DEF Next
<1> QED
  BY <1>2, <1>3 DEF HalvesInv

-----------------------------------------------------------------------------
(* The invariant, and what follows from it.                                *)

LEMMA HInit ==
  ASSUME Init
  PROVE  HInv
<1>1. /\ RegistersOK /\ RunInv /\ clash = {} /\ KeptInv /\ th = [t \in Threads |-> Idle]
      /\ kernel.clean /\ kernel.lo = kernel.hi
  BY DEF Init, RegistersOK, Registers, RunInv, KeptInv, AutoKept, EnablesKept, WholeKept,
         Idle
<1>2. ThreadsOK
  <2>1. "none" \in Operations /\ 0 \in Values /\ <<>> \in Seq(Values)
    BY DEF Operations, Values
  <2> QED
    BY <1>1, <2>1 DEF ThreadsOK, Idle, ControlReaders, PadReaders
<1>3. PadsInv
  BY <1>1 DEF PadsInv, PadReaders, Idle
<1>4. ClashInv
  BY <1>1 DEF ClashInv, SettingOf, Idle
<1>5. HalvesInv
  BY <1>1 DEF HalvesInv, RomHalves, PadHalves, Halfway, Idle, Init
<1> QED
  BY <1>1, <1>2, <1>3, <1>4, <1>5 DEF HInv, DriverTypeOK

LEMMA HStep ==
  ASSUME HInv, [Next]_vars
  PROVE  HInv'
<1>1. CASE Next
  BY <1>1, RegistersStep, ThreadsStep, RunStep, PadsStep, ClashStep, AutoStep, EnablesStep,
     WholeStep, HalvesStep DEF HInv, DriverTypeOK, KeptInv
<1>2. CASE UNCHANGED vars
  <2>1. UNCHANGED <<program, regs, kernel, th, calls, fault, asked, clash, mine, swallowed, misuse>>
    BY <1>2 DEF vars
  <2>2. RegistersOK'
    BY <2>1 DEF HInv, DriverTypeOK, RegistersOK
  <2>3. ThreadsOK'
    BY <2>1 DEF HInv, DriverTypeOK, ThreadsOK, Arguments, Instances, Operations
  <2>4. RunInv' /\ PadsInv' /\ KeptInv'
    BY <2>1 DEF HInv, RunInv, Busy, PadsInv, KeptInv, AutoKept, EnablesKept, WholeKept
  <2>5. ClashInv' /\ HalvesInv'
    BY <2>1 DEF HInv, ClashInv, SettingOf, HalvesInv, RomHalves, PadHalves, Halfway
  <2> QED
    BY <2>2, <2>3, <2>4, <2>5 DEF HInv, DriverTypeOK
<1> QED
  BY <1>1, <1>2

\* The registers of the cores, the calls of the two threads and what is kept
\* of both are what the drivers' headers and the hardware's registers allow,
\* and the invariant holds, for all programs, pointers and bounds.
THEOREM DriverInvariance == Spec => []HInv
<1>1. Init => HInv
  BY HInit
<1>2. HInv /\ [Next]_vars => HInv'
  BY HStep
<1> QED
  BY <1>1, <1>2, PTL DEF Spec

\* XRead_romcode_IsDone answers for the caller's own run: for every program, the
\* read in XRead_romcode_Start has cleared what an earlier run has left.
THEOREM DoneIsOfTheRun == Spec => []DoneMeansRun
<1>1. HInv => DoneMeansRun
  BY DEF HInv, RunInv, DoneMeansRun
<1> QED
  BY <1>1, DriverInvariance, PTL

\* The two words that XRead_romcode_Set_romcode writes, and that the core takes,
\* and the two that XCaravel_ps_Get_ps_mprj_out or _en reads, belong together.
THEOREM WordsAreOfOneValue == Spec => []WordsBelongTogether
<1>1. HInv => WordsBelongTogether
  BY DEF HInv, HalvesInv, PadsInv, PadReaders, WordsBelongTogether
<1> QED
  BY <1>1, DriverInvariance, PTL

\* What the calls of the drivers set stays set: every call that reads a register
\* and writes it back, and every one that writes two, keeps the settings of the
\* others, unless two threads change one setting at the same time.
THEOREM SettingsStay == Spec => []SettingsKept
<1>1. ASSUME HInv
      PROVE  SettingsKept
  <2>1. /\ WholeKept
        /\ Settled("auto") => regs.AP_CTRL \cap {"auto"} = asked.auto
        /\ Settled("ier") => regs.IER = asked.ier
    BY <1>1 DEF HInv, KeptInv, AutoKept, EnablesKept, Settled
  <2>2. Settled("romcode") => regs.ROM_LO = asked.romcode /\ regs.ROM_HI = asked.romcode
    BY <1>1, SettingFacts DEF HInv, HalvesInv, RomHalves, Halfway, Settled
  <2>3. Settled("pads_in") => regs.IN_LO = asked.pads_in /\ regs.IN_HI = asked.pads_in
    BY <1>1, SettingFacts DEF HInv, HalvesInv, PadHalves, Halfway, Settled
  <2>4. /\ Settled("romcode") => {regs.ROM_LO, regs.ROM_HI} = {asked.romcode}
        /\ Settled("pads_in") => {regs.IN_LO, regs.IN_HI} = {asked.pads_in}
    BY <2>2, <2>3
  <2> QED
    BY <2>1, <2>4 DEF SettingsKept, WholeKept
<1> QED
  BY <1>1, DriverInvariance, PTL

-----------------------------------------------------------------------------
(* The instances: descriptors and pages.                                   *)

\* The operators Min of the model, for any set of numbers.
LEMMA LeastOf ==
  ASSUME NEW S \in SUBSET Nat, S # {}
  PROVE  Min(S) \in S /\ \A n \in S : Min(S) <= n
<1>. DEFINE Upto == {1 .. n : n \in S}
<1>1. Upto \subseteq FiniteSubsetsOf(Nat) /\ Upto # {}
  <2>1. \A n \in S : 1 .. n \in SUBSET Nat /\ IsFiniteSet(1 .. n)
    BY FS_Interval
  <2> QED
    BY <2>1 DEF FiniteSubsetsOf
<1>. HIDE DEF Upto
<1>2. PICK u \in Upto : \A w \in Upto : <<w, u>> \notin StrictSubsetOrdering(Nat)
  BY <1>1, FS_StrictSubsetOrderingWellFounded, WFMin
<1>3. PICK m \in S : u = 1 .. m
  BY DEF Upto
<1>4. ASSUME NEW n \in S
      PROVE  m <= n
  <2>1. <<1 .. n, 1 .. m>> \notin StrictSubsetOrdering(Nat)
    BY <1>2, <1>3 DEF Upto
  <2>2. 1 .. n \in SUBSET Nat /\ 1 .. m \in SUBSET Nat
    OBVIOUS
  <2>3. ~(1 .. n \subseteq 1 .. m) \/ 1 .. n = 1 .. m
    BY <2>1, <2>2 DEF StrictSubsetOrdering
  <2>4. n < m => m \in 1 .. m /\ m \notin 1 .. n /\ 1 .. n \subseteq 1 .. m
    OBVIOUS
  <2>5. ~(n < m)
    BY <2>3, <2>4
  <2> QED
    BY <2>5
<1> QED
  BY <1>4 DEF Min

\* What open gives is not 0 and is not open already.
LEMMA DescriptorFacts ==
  ASSUME HandleTypeOK
  PROVE  NewDescriptor \in Nat \ {0} /\ NewDescriptor \notin open
<1>. DEFINE C == Cardinality(open)
<1>1. open \subseteq Nat /\ IsFiniteSet(open) /\ C \in Nat
  BY FS_CardinalityType DEF HandleTypeOK
<1>2. ~(1 .. (C + 1) \subseteq open)
  <2>1. Cardinality(1 .. (C + 1)) = C + 1
    BY <1>1, FS_Interval
  <2>2. 1 .. (C + 1) \subseteq open => Cardinality(1 .. (C + 1)) <= C
    BY <1>1, FS_Subset
  <2> QED
    BY <1>1, <2>1, <2>2
<1>3. /\ (1 .. (C + 1)) \ open \in SUBSET Nat /\ (1 .. (C + 1)) \ open # {}
      /\ 0 \notin (1 .. (C + 1)) \ open
  BY <1>1, <1>2
<1>4. NewDescriptor \in (1 .. (C + 1)) \ open
  BY <1>3, LeastOf DEF NewDescriptor
<1> QED
  BY <1>3, <1>4

LEMMA LeastOfTwo ==
  ASSUME NEW a \in Nat, NEW b \in Nat
  PROVE  /\ Min({a, b}) \in {a, b} /\ Min({a, b}) <= a /\ Min({a, b}) <= b
         /\ Min({a, b}) \in Nat
<1>1. {a, b} \in SUBSET Nat /\ {a, b} # {}
  OBVIOUS
<1> QED
  BY <1>1, LeastOf

\* munmap takes pages away, of its own instance or of another.
LEMMA UnmappedFacts ==
  ASSUME HandleTypeOK, NEW i \in Instances, NEW p \in Unmapped(i)
  PROVE  /\ p \in [Instances -> Nat]
         /\ \A j \in Instances : p[j] <= pages[j]
         /\ inst[i].base = 0 => p = pages
         /\ inst[i].base # 0 => p[i] = pages[i] - Min({pages[i], info.size})
<1>1. pages \in [Instances -> Nat] /\ info.size \in Nat /\ pages[i] \in Nat
  BY DEF HandleTypeOK
<1>2. CASE inst[i].base = 0
  BY <1>1, <1>2 DEF Unmapped
<1>3. CASE inst[i].base # 0
  <2>. DEFINE own == Min({pages[i], info.size})
  <2>1. own \in Nat /\ own <= pages[i] /\ own <= info.size
    BY <1>1, LeastOfTwo
  <2>. HIDE DEF own
  <2>2. CASE p = [pages EXCEPT ![i] = @ - own]
    BY <1>1, <1>3, <2>1, <2>2 DEF own
  <2>3. ASSUME NEW j \in Instances \ {i},
               p = [pages EXCEPT ![i] = @ - own, ![j] = @ - Min({@, info.size - own})]
        PROVE  /\ p \in [Instances -> Nat] /\ \A k \in Instances : p[k] <= pages[k]
               /\ p[i] = pages[i] - own
    <3>1. pages[j] \in Nat /\ info.size - own \in Nat
      BY <1>1, <2>1
    <3>2. PICK m \in Nat : m = Min({pages[j], info.size - own}) /\ m <= pages[j]
      BY <3>1, LeastOfTwo
    <3>3. p = [pages EXCEPT ![i] = pages[i] - own, ![j] = pages[j] - m]
      BY <1>1, <2>3, <3>2
    <3> QED
      BY <1>1, <2>1, <3>1, <3>2, <3>3
  <2>4. \/ p = [pages EXCEPT ![i] = @ - own]
        \/ \E j \in Instances \ {i} :
             p = [pages EXCEPT ![i] = @ - own, ![j] = @ - Min({@, info.size - own})]
    BY <1>3 DEF Unmapped, own
  <2> QED
    BY <1>3, <2>2, <2>3, <2>4 DEF own
<1> QED
  BY <1>2, <1>3

\* Only Initialize and Release touch the instances.
LEMMA OthersLeave ==
  ASSUME RegistersOK, Next
  PROVE  \/ \E t \in Threads : Manages(t) \/ Faults(t)
         \/ UNCHANGED <<program, os, fault, misuse>>
<1>1. ASSUME NEW t \in Threads, Step(t)
      PROVE  Manages(t) \/ Faults(t) \/ UNCHANGED <<program, os, fault, misuse>>
  <2>1. CASE Start(t)
    BY <2>1 DEF Start, StartReads, Starts
  <2>2. CASE AsksControl(t)
    BY <2>2, AsksControlFacts
  <2>3. CASE SetsOne(t)
    BY <2>3 DEF SetsOne, SetsWhole, EnableAutoRestart, DisableAutoRestart, Set_length_r,
                InterruptGlobalEnable, InterruptGlobalDisable, Set_outpin_ctrl
  <2>4. CASE SetsPointer(t)
    BY <2>4 DEF SetsPointer, SetsTwo, Set_romcode, Set_ps_mprj_in
  <2>5. CASE ReadsBack(t)
    BY <2>5 DEF ReadsBack, ReadsAndWrites, InterruptEnable, InterruptDisable
  <2>6. CASE OnlyReads(t)
    BY <2>6, OnlyReadsFacts DEF rest
  <2> QED
    BY <1>1, <2>1, <2>2, <2>3, <2>4, <2>5, <2>6, StepKinds
<1>2. CASE \/ KernelBegins \/ KernelDone \/ StatusFollows \/ PadsChange
           \/ \E t \in Threads : Call(t)
  BY <1>2 DEF KernelBegins, KernelDone, StatusFollows, PadsChange, Call
<1> QED
  BY <1>1, <1>2 DEF Next

LEMMA HandleTypeStep ==
  ASSUME DriverTypeOK, HandleTypeOK, Next
  PROVE  HandleTypeOK'
<1>. USE DEF HandleTypeOK
<1>1. RegistersOK /\ Instances \subseteq Nat
      /\ \A i \in Instances : PageCount[i] \in Nat \ {0}
  BY HostAssumption DEF DriverTypeOK, Instances
<1>2. CASE UNCHANGED os
  BY <1>2 DEF os, Instances
<1>3. ASSUME NEW t \in Threads, NEW i \in Instances, Initialize(t, i)
      PROVE  HandleTypeOK'
  <2>1. CASE NotFound(i)
    BY <1>2, <2>1 DEF NotFound
  <2>2. ASSUME NEW readable \in BOOLEAN, NotOpened(i, readable)
        PROVE  HandleTypeOK'
    BY <1>1, <2>2 DEF NotOpened, SizeRead, Instances
  <2>3. ASSUME NEW readable \in BOOLEAN, NEW granted \in BOOLEAN, Opened(i, readable, granted)
        PROVE  HandleTypeOK'
    <3>1. SizeRead(i, readable) \in Nat /\ NewDescriptor \in Nat
      BY <1>1, DescriptorFacts DEF SizeRead
    <3>2. info' \in [fd : Nat, size : Nat]
      BY <2>3, <3>1 DEF Opened
    <3>3. open' \subseteq Nat /\ IsFiniteSet(open')
      BY <2>3, <3>1, FS_AddElement DEF Opened
    <3>4. /\ inst' \in [Instances -> [ready : BOOLEAN, released : BOOLEAN, base : Nat]]
          /\ pages' \in [Instances -> Nat]
      BY <1>1, <2>3, <3>1 DEF Opened
    <3> QED
      BY <3>2, <3>3, <3>4 DEF Instances
  <2>4. ASSUME NEW found \in BOOLEAN, Configured(i, found)
        PROVE  HandleTypeOK'
    BY <1>1, <2>4 DEF Configured, Instances
  <2> QED
    BY <1>3, <2>1, <2>2, <2>3, <2>4 DEF Initialize
<1>4. ASSUME NEW t \in Threads, NEW i \in Instances, Release(t, i)
      PROVE  HandleTypeOK'
  <2>1. /\ pages' \in Unmapped(i) /\ open' = open \ {info.fd} /\ info' = info
        /\ inst' = [inst EXCEPT ![i].released = TRUE]
    BY <1>4 DEF Release
  <2>2. pages' \in [Instances -> Nat]
    BY <2>1, UnmappedFacts
  <2>3. open' \subseteq Nat /\ IsFiniteSet(open')
    BY <2>1, FS_RemoveElement
  <2>4. inst' \in [Instances -> [ready : BOOLEAN, released : BOOLEAN, base : Nat]]
    BY <2>1
  <2> QED
    BY <2>1, <2>2, <2>3, <2>4 DEF Instances
<1>5. ASSUME NEW t \in Threads, Faults(t)
      PROVE  HandleTypeOK'
  BY <1>2, <1>5 DEF Faults
<1> QED
  BY <1>1, <1>2, <1>3, <1>4, <1>5, OthersLeave DEF Manages, os

\* A call keeps its operation and its argument.
LEMMA ThreadArgs ==
  ASSUME ThreadsOK, NEW t \in Threads, Step(t)
  PROVE  \A u \in Threads : \/ th'[u].op = th[u].op /\ th'[u].arg = th[u].arg
                            \/ u = t /\ th'[u] = Idle
<1>1. CASE Return(t) \/ Stays(t) \/ Writing(t)
  BY <1>1 DEF ThreadsOK, Return, Stays, Writing, Goto
<1>2. CASE \E r \in Kept, n \in {2, 3} : Keeps(t, r, n)
  BY <1>2 DEF ThreadsOK, Keeps
<1> QED
  BY <1>1, <1>2, ThreadMoves

LEMMA InstanceFacts ==
  Instances \subseteq Nat \ {0} /\ 1 \in Instances /\ \A i \in Instances : PageCount[i] \in Nat \ {0}
BY HostAssumption DEF Instances

\* On bare metal.
LEMMA BareStep ==
  ASSUME DriverTypeOK, HandleTypeOK, BareInv, Next
  PROVE  BareInv'
<1>1. RegistersOK
  BY DEF DriverTypeOK
<1>2. SUFFICES ASSUME ~program'.linux
               PROVE  BareInv'
  BY DEF BareInv
<1>3. program' = program
  BY <1>1, OthersLeave, ManagesFacts
<1>4. CASE UNCHANGED <<program, os, fault, misuse>>
  BY <1>2, <1>4 DEF BareInv, os, Instances
<1>5. ASSUME NEW t \in Threads, NEW i \in Instances, Initialize(t, i)
      PROVE  BareInv'
  BY <1>2, <1>3, <1>5 DEF BareInv, Initialize, Configured, Instances
<1>6. ASSUME NEW t \in Threads, NEW i \in Instances, Release(t, i)
      PROVE  BareInv'
  <2>1. pages' \in Unmapped(i) /\ open' = {} /\ info' = info /\ fault' = fault
    BY <1>2, <1>3, <1>6 DEF BareInv, Release
  <2>2. /\ pages' \in [Instances -> Nat]
        /\ \A j \in Instances : pages'[j] <= pages[j]
    BY <2>1, UnmappedFacts
  <2>3. \A j \in Instances : pages'[j] = 0
    BY <1>2, <1>3, <2>2 DEF BareInv
  <2> QED
    BY <1>2, <1>3, <2>1, <2>3 DEF BareInv, Instances
<1>7. ASSUME NEW t \in Threads, Faults(t)
      PROVE  BareInv'
  BY <1>2, <1>3, <1>7 DEF BareInv, Faults, Mapped
<1> QED
  BY <1>1, <1>4, <1>5, <1>6, <1>7, OthersLeave DEF Manages

\* Readiness stays.
LEMMA ReadyStep ==
  ASSUME DriverTypeOK, HandleTypeOK, ReadyInv, Next
  PROVE  ReadyInv'
<1>1. RegistersOK /\ ThreadsOK
  BY DEF DriverTypeOK
<1>2. program' = program
  BY <1>1, OthersLeave, ManagesFacts
<1>3. ASSUME program.linux, NEW i \in Instances, inst[i].ready
      PROVE  inst'[i].ready
  <2>1. ASSUME NEW t \in Threads, NEW j \in Instances, Initialize(t, j)
        PROVE  inst'[i].ready
    BY <1>3, <2>1 DEF Initialize, NotFound, NotOpened, Opened, os, HandleTypeOK
  <2>2. ASSUME NEW t \in Threads, NEW j \in Instances, Release(t, j)
        PROVE  inst'[i].ready
    BY <1>3, <2>2 DEF Release, HandleTypeOK
  <2>3. ASSUME NEW t \in Threads, Faults(t)
        PROVE  inst'[i].ready
    BY <1>3, <2>3 DEF Faults, os
  <2> QED
    BY <1>1, <1>3, <2>1, <2>2, <2>3, OthersLeave DEF Manages, os
<1>4. \A t \in Threads : th[t].op = "Release" => th[t].arg \in Instances
  BY <1>1 DEF ThreadsOK, Arguments
<1>5. ASSUME NEW t \in Threads, Step(t)
      PROVE  ReadyInv'
  <2>1. Idle.op = "none"
    BY DEF Idle
  <2> QED
    BY <1>1, <1>2, <1>3, <1>4, <1>5, <2>1, ThreadArgs, InstanceFacts DEF ReadyInv
<1>6. ASSUME NEW t \in Threads, Call(t)
      PROVE  ReadyInv'
  <2>1. /\ UNCHANGED <<program, os>>
        /\ \A u \in Threads : u # t => th'[u] = th[u]
    BY <1>1, <1>6, CallFacts
  <2>2. PICK op \in program[t] : \E arg \in Arguments(op) :
              th'[t].op = op /\ th'[t].arg = arg /\ MayCall(t, op, arg)
    BY <1>1, <1>6, CallFacts
  <2>3. /\ th'[t].op = "Release" => inst[th'[t].arg].ready
        /\ th'[t].op \notin {"none", "Initialize", "Release"} => inst[1].ready
    BY <2>2 DEF MayCall
  <2> QED
    BY <2>1, <2>3 DEF ReadyInv, os
<1>7. CASE KernelBegins \/ KernelDone \/ StatusFollows \/ PadsChange
  BY <1>7 DEF KernelBegins, KernelDone, StatusFollows, PadsChange, ReadyInv, os
<1> QED
  BY <1>5, <1>6, <1>7 DEF Next

\* Initialize opens when nothing is open, and Release closes it again.
LEMMA OneStep ==
  ASSUME DriverTypeOK, HandleTypeOK, ReadyInv, OneInv, Next
  PROVE  OneInv'
<1>1. RegistersOK /\ ThreadsOK
  BY DEF DriverTypeOK
<1>2. program' = program
  BY <1>1, OthersLeave, ManagesFacts
<1>3. SUFFICES ASSUME program.linux, ~misuse'
               PROVE  OneInv'
  BY <1>2 DEF OneInv
<1>4. CASE UNCHANGED <<program, os, fault, misuse>>
  BY <1>4 DEF OneInv, os, Instances, Live, Holds
<1>5. ASSUME NEW t \in Threads, NEW i \in Instances, Initialize(t, i)
      PROVE  OneInv'
  <2>1. /\ ~misuse /\ ~Misused(i, "Initialize") /\ ~fault /\ ~fault'
        /\ \/ NotFound(i)
           \/ \E readable, granted \in BOOLEAN :
                NotOpened(i, readable) \/ Opened(i, readable, granted)
    BY <1>3, <1>5 DEF Initialize
  <2>2. /\ \A j \in Instances : ~Live(j) /\ pages[j] = 0
        /\ open = {}
    BY <1>3, <2>1 DEF Misused, OneInv
  <2>3. CASE UNCHANGED <<inst, open, pages>>
    BY <2>1, <2>2, <2>3 DEF OneInv, Live, Instances
  <2>4. ASSUME NEW readable \in BOOLEAN, NEW granted \in BOOLEAN, Opened(i, readable, granted)
        PROVE  OneInv'
    <3>1. PICK maps \in BOOLEAN, size \in Nat :
            /\ maps => size # 0
            /\ info' = [fd |-> NewDescriptor, size |-> size]
            /\ open' = open \cup {NewDescriptor}
            /\ inst' = [inst EXCEPT ![i] = [ready |-> TRUE, released |-> FALSE,
                                            base |-> IF maps THEN i ELSE 0]]
            /\ pages' = IF maps THEN [pages EXCEPT ![i] = @ + size] ELSE pages
      <4>1. SizeRead(i, readable) \in Nat
        BY InstanceFacts DEF SizeRead, HandleTypeOK
      <4>2. PICK maps \in BOOLEAN :
              maps <=> granted /\ SizeRead(i, readable) \in 1 .. PageCount[i]
        OBVIOUS
      <4>3. maps => SizeRead(i, readable) # 0
        BY <4>1, <4>2
      <4>4. /\ info' = [fd |-> NewDescriptor, size |-> SizeRead(i, readable)]
            /\ open' = open \cup {NewDescriptor}
            /\ inst' = [inst EXCEPT ![i] = [ready |-> TRUE, released |-> FALSE,
                                            base |-> IF maps THEN i ELSE 0]]
            /\ pages' = IF maps THEN [pages EXCEPT ![i] = @ + SizeRead(i, readable)] ELSE pages
        BY <2>4, <4>2 DEF Opened
      <4> QED
        BY <4>1, <4>3, <4>4
    <3>2. \A j \in Instances : Live(j)' <=> j = i
      BY <2>2, <3>1 DEF Live, HandleTypeOK
    <3>3. open' = {info'.fd} /\ info'.fd # 0 /\ info'.size = size
      BY <2>2, <3>1, DescriptorFacts
    <3>4. \A j \in Instances : pages'[j] = IF j = i /\ maps THEN size ELSE 0
      BY <2>2, <3>1 DEF HandleTypeOK
    <3>5. inst'[i].base = IF maps THEN i ELSE 0
      BY <3>1 DEF HandleTypeOK
    <3>6. Holds(i)'
      BY <3>1, <3>3, <3>4, <3>5 DEF Holds
    <3>7. Instances' = Instances
      BY DEF Instances
    <3> QED
      BY <2>1, <3>2, <3>4, <3>6, <3>7 DEF OneInv
  <2> QED
    BY <2>1, <2>3, <2>4 DEF NotFound, NotOpened, os
<1>6. ASSUME NEW t \in Threads, NEW i \in Instances, Release(t, i)
      PROVE  OneInv'
  <2>1. /\ ~misuse /\ ~Misused(i, "Release") /\ ~fault /\ ~fault'
        /\ pages' \in Unmapped(i) /\ open' = open \ {info.fd} /\ info' = info
        /\ inst' = [inst EXCEPT ![i].released = TRUE]
        /\ th[t].op = "Release" /\ th[t].arg = i
    BY <1>3, <1>6 DEF Release
  <2>2. Live(i)
    BY <1>3, <2>1 DEF Misused, ReadyInv, Live
  <2>3. Holds(i) /\ \A j \in Instances \ {i} : ~Live(j) /\ pages[j] = 0
    BY <1>3, <2>1, <2>2 DEF OneInv
  <2>4. open' = {} /\ \A j \in Instances : ~Live(j)'
    BY <2>1, <2>3 DEF Holds, Live, HandleTypeOK
  <2>5. \A j \in Instances : pages'[j] \in Nat /\ pages'[j] <= pages[j]
    BY <2>1, UnmappedFacts
  <2>6. pages'[i] = 0
    <3>1. pages[i] \in Nat /\ info.size \in Nat
      BY DEF HandleTypeOK
    <3>2. CASE inst[i].base = 0 /\ pages[i] = 0
      BY <2>1, <3>2, UnmappedFacts
    <3>3. CASE inst[i].base # 0 /\ pages[i] = info.size
      <4>1. Min({pages[i], info.size}) = pages[i]
        BY <3>1, <3>3, LeastOfTwo
      <4>2. pages'[i] = pages[i] - Min({pages[i], info.size})
        BY <2>1, <3>3, UnmappedFacts
      <4> QED
        BY <3>1, <4>1, <4>2
    <3> QED
      BY <2>3, <3>2, <3>3, InstanceFacts DEF Holds
  <2>7. \A j \in Instances : pages'[j] = 0
    BY <2>3, <2>5, <2>6
  <2> QED
    BY <2>1, <2>4, <2>7 DEF OneInv, Instances
<1>7. ASSUME NEW t \in Threads, Faults(t)
      PROVE  OneInv'
  <2>1. UNCHANGED <<program, os, misuse>> /\ ~Mapped
        /\ th[t].op \notin {"none", "Initialize", "Release"}
    BY <1>7 DEF Faults
  <2>2. inst[1].ready /\ (inst[1].base # 1 \/ ~(pages[1] > 0))
    BY <1>3, <2>1 DEF Mapped, ReadyInv
  <2>3. pages[1] \in Nat /\ 1 \in Instances
    BY InstanceFacts DEF HandleTypeOK
  <2>4. ~misuse
    BY <1>3, <2>1
  <2>5. inst[1].released \/ (inst[1].base = 0 /\ info.fd # 0)
    BY <1>3, <2>2, <2>3, <2>4 DEF OneInv, Live, Holds
  <2> QED
    BY <1>3, <2>1, <2>4, <2>5 DEF OneInv, os, Instances, Live, Holds
<1> QED
  BY <1>1, <1>4, <1>5, <1>6, <1>7, OthersLeave DEF Manages

LEMMA HandleStep ==
  ASSUME DriverTypeOK, HandleTypeOK, HandleInv, [Next]_vars
  PROVE  HandleTypeOK' /\ HandleInv'
<1>1. CASE Next
  BY <1>1, HandleTypeStep, BareStep, ReadyStep, OneStep DEF HandleInv
<1>2. CASE UNCHANGED vars
  <2>1. UNCHANGED <<program, th, os, fault, misuse>>
    BY <1>2 DEF vars
  <2>2. HandleTypeOK'
    BY <2>1 DEF HandleTypeOK, os, Instances
  <2>3. BareInv' /\ ReadyInv'
    BY <2>1 DEF HandleInv, BareInv, ReadyInv, os, Instances
  <2>4. OneInv'
    BY <2>1 DEF HandleInv, OneInv, Live, Holds, os, Instances
  <2> QED
    BY <2>2, <2>3, <2>4 DEF HandleInv
<1> QED
  BY <1>1, <1>2

\* What the system keeps for the instances: at any number of instances of any
\* size, opened one at a time, the one in use has all that is open and mapped.
THEOREM HandleInvariance == Spec => [](HandleTypeOK /\ HandleInv)
<1>1. Init => HandleTypeOK /\ HandleInv
  <2>1. ASSUME Init
        PROVE  HandleTypeOK /\ HandleInv
    <3>1. HandleTypeOK
      BY <2>1, FS_EmptySet DEF Init, HandleTypeOK
    <3>2. \A i \in Instances : ~Live(i) /\ pages[i] = 0
      BY <2>1 DEF Init, Live
    <3>3. ReadyInv
      BY <2>1 DEF Init, ReadyInv, Idle
    <3> QED
      BY <2>1, <3>1, <3>2, <3>3 DEF Init, HandleInv, BareInv, OneInv
  <2> QED
    BY <2>1
<1>2. DriverTypeOK /\ HandleTypeOK /\ HandleInv /\ [Next]_vars => HandleTypeOK' /\ HandleInv'
  BY HandleStep
<1>3. HInv => DriverTypeOK
  BY DEF HInv
<1> QED
  BY <1>1, <1>2, <1>3, DriverInvariance, PTL DEF Spec

\* XRead_romcode_Initialize and _Release leave no descriptor open and no page
\* mapped that nothing uses, however Initialize fails, and no call reaches an
\* address that is not mapped except after Release or a failed mmap.
THEOREM HandlesAreBalanced == Spec => []HandlesBalanced
<1>1. ASSUME HandleTypeOK, HandleInv
      PROVE  HandlesBalanced
  <2>1. SUFFICES ASSUME ~misuse
                 PROVE  /\ Cardinality(open) =
                             Cardinality({i \in Instances : program.linux /\ Live(i)})
                        /\ \A i \in Instances : pages[i] > 0 => Live(i)
                        /\ fault => inst[1].released \/ (inst[1].base = 0 /\ info.fd # 0)
    BY DEF HandlesBalanced
  <2>2. \A i \in Instances : pages[i] \in Nat
    BY <1>1 DEF HandleTypeOK
  <2>3. CASE ~program.linux
    <3>1. {i \in Instances : program.linux /\ Live(i)} = {} /\ open = {}
      BY <1>1, <2>3 DEF HandleInv, BareInv
    <3> QED
      BY <1>1, <2>2, <2>3, <3>1 DEF HandleInv, BareInv
  <2>4. CASE program.linux
    <3>1. Cardinality(open) = Cardinality({i \in Instances : program.linux /\ Live(i)})
      <4>1. CASE \A i \in Instances : ~Live(i)
        <5>1. open = {} /\ {i \in Instances : program.linux /\ Live(i)} = {}
          BY <1>1, <2>1, <2>4, <4>1 DEF HandleInv, OneInv
        <5> QED
          BY <5>1
      <4>2. ASSUME NEW k \in Instances, Live(k)
            PROVE  Cardinality(open) = Cardinality({i \in Instances : program.linux /\ Live(i)})
        <5>1. open = {info.fd} /\ {i \in Instances : program.linux /\ Live(i)} = {k}
          BY <1>1, <2>1, <2>4, <4>2 DEF HandleInv, OneInv, Holds
        <5> QED
          BY <5>1, FS_Singleton
      <4> QED
        BY <4>1, <4>2
    <3>2. \A i \in Instances : pages[i] > 0 => Live(i)
      BY <1>1, <2>1, <2>2, <2>4 DEF HandleInv, OneInv
    <3> QED
      BY <1>1, <2>1, <2>4, <3>1, <3>2 DEF HandleInv, OneInv
  <2> QED
    BY <2>3, <2>4
<1>2. HandleTypeOK /\ HandleInv => HandlesBalanced
  BY <1>1
<1> QED
  BY <1>2, HandleInvariance, PTL

-----------------------------------------------------------------------------
(* The notebook's program.                                                 *)

\* A thread that steps is in a call.
LEMMA InACall ==
  ASSUME NEW t \in Threads, DriverTypeOK, Step(t)
  PROVE  /\ th[t].op # "none"
         /\ OnlyReads(t) => th[t].op \notin {Boot[n] : n \in 1 .. 6}
         /\ Manages(t) => th[t].op \in {"Initialize", "Release"} /\ Return(t)
<1>1. /\ Manages(t) => th[t].op \in {"Initialize", "Release"} /\ Return(t)
      /\ Faults(t) => th[t].op # "none"
  BY DEF Manages, Initialize, Release, Faults
<1>2. OnlyReads(t) => th[t].op \notin {"none"} \cup {Boot[n] : n \in 1 .. 6}
  BY DEF OnlyReads, InterruptClear, Get_length_r, InterruptGetEnabled,
         InterruptGetStatus, Get_outpin_ctrl, Get_ps_mprj_out_vld, Get_ps_mprj_en_vld,
         Get_romcode, Get_ps_mprj_in, Get_ps_mprj_out, Get_ps_mprj_en,
         GetsWhole, GetsTwo, In, Boot
<1>3. /\ Start(t) \/ AsksControl(t) => th[t].op # "none"
      /\ SetsPointer(t) \/ SetsOne(t) \/ ReadsBack(t) => th[t].op # "none"
  BY StartFacts, AsksControlFacts, SetsPointerFacts, SetsOneFacts, ReadsBackFacts
<1> QED
  BY <1>1, <1>2, <1>3, StepKinds

\* The steps of the notebook's program, each at its place.
LEMMA BootSteps ==
  ASSUME DriverTypeOK, BootPlace, Step("main")
  PROVE  \/ UNCHANGED <<th, regs, kernel, asked, mine>>
         \/ Place = 1 /\ Return("main") /\ UNCHANGED <<regs, kernel, asked, mine>>
         \/ Place = 2 /\ SetsPointer("main")
         \/ Place = 3 /\ SetsOne("main") /\ th["main"].op = "Set_length_r"
         \/ Place = 4 /\ Start("main")
         \/ Place = 5 /\ AsksControl("main")
         \/ Place = 6 /\ SetsOne("main") /\ th["main"].op = "Set_outpin_ctrl"
<1>1. /\ "main" \in Threads /\ th["main"].op # "none" /\ Place \in 1 .. 6
      /\ th["main"].op = Boot[Place]
  BY InACall DEF Threads, BootPlace, DriverTypeOK, RegistersOK, Place
<1>2. \/ Place = 1 /\ th["main"].op = "Initialize"
      \/ Place = 2 /\ th["main"].op = "Set_romcode"
      \/ Place = 3 /\ th["main"].op = "Set_length_r"
      \/ Place = 4 /\ th["main"].op = "Start"
      \/ Place = 5 /\ th["main"].op = "WaitIdle"
      \/ Place = 6 /\ th["main"].op = "Set_outpin_ctrl"
  <2>1. /\ Boot[1] = "Initialize" /\ Boot[2] = "Set_romcode" /\ Boot[3] = "Set_length_r"
        /\ Boot[4] = "Start" /\ Boot[5] = "WaitIdle" /\ Boot[6] = "Set_outpin_ctrl"
    BY DEF Boot
  <2>2. \/ Place = 1 \/ Place = 2 \/ Place = 3 \/ Place = 4 \/ Place = 5 \/ Place = 6
    BY <1>1
  <2> QED
    BY <1>1, <2>1, <2>2
<1>3. CASE Start("main")
  BY <1>1, <1>2, <1>3, StartFacts
<1>4. CASE AsksControl("main")
  BY <1>1, <1>2, <1>4, AsksControlFacts
<1>5. CASE SetsOne("main")
  <2>1. th["main"].op \in {"EnableAutoRestart", "DisableAutoRestart", "Set_length_r",
                           "GlobalEnable", "GlobalDisable", "Set_outpin_ctrl"}
    BY <1>1, <1>5, SetsOneFacts
  <2> QED
    BY <1>2, <1>5, <2>1
<1>6. CASE SetsPointer("main")
  <2>1. th["main"].op \in {"Set_romcode", "Set_ps_mprj_in"}
    BY <1>1, <1>6, SetsPointerFacts
  <2> QED
    BY <1>2, <1>6, <2>1
<1>7. CASE ReadsBack("main")
  BY <1>1, <1>2, <1>7, ReadsBackFacts
<1>8. CASE OnlyReads("main")
  BY <1>1, <1>8, InACall
<1>9. CASE Faults("main")
  BY <1>9 DEF Faults
<1>10. CASE Manages("main")
  BY <1>1, <1>2, <1>10, InACall, ManagesFacts
<1> QED
  BY <1>1, <1>3, <1>4, <1>5, <1>6, <1>7, <1>8, <1>9, <1>10, StepKinds

\* Only a new call is counted.
LEMMA StepsKeepCalls ==
  ASSUME DriverTypeOK, NEW t \in Threads, Step(t)
  PROVE  calls' = calls
<1>1. RegistersOK
  BY DEF DriverTypeOK
<1>2. CASE Start(t) \/ AsksControl(t) \/ Faults(t) \/ Manages(t)
  BY <1>2, StartFacts, AsksControlFacts, ManagesFacts
<1>3. CASE SetsOne(t) \/ SetsPointer(t) \/ ReadsBack(t) \/ OnlyReads(t)
  BY <1>1, <1>3, SetsOneFacts, SetsPointerFacts, ReadsBackFacts, OnlyReadsFacts DEF rest
<1> QED
  BY <1>2, <1>3, StepKinds

LEMMA BootStep ==
  ASSUME ScriptsBoot, HInv, BootInv, Next
  PROVE  BootInv'
<1>1. /\ DriverTypeOK /\ RegistersOK /\ ThreadsOK /\ regs \in Registers
      /\ Place \in Nat /\ Place' = calls'["main"]
      /\ "main" \in Threads /\ "handler" \in Threads /\ Threads = {"main", "handler"}
  BY DEF HInv, DriverTypeOK, RegistersOK, Place, Threads
<1>2. program' = program
  BY <1>1, OthersLeave, ManagesFacts
<1>3. SUFFICES ASSUME program.script # <<>>
               PROVE  BootPlace' /\ BootRun'
  BY <1>2 DEF BootInv
<1>4. BootPlace /\ BootRun /\ program.script = Boot /\ program["handler"] = {}
  BY <1>1, <1>3 DEF BootInv, ScriptsBoot, RegistersOK
<1>5. ASSUME Step("main")
      PROVE  BootPlace' /\ BootRun'
  <2>1. /\ th'["handler"] = th["handler"] /\ calls' = calls /\ clash' = clash
    BY <1>1, <1>5, OtherStays, SettingsLeft, StepsKeepCalls
  <2>2. CASE UNCHANGED <<th, regs, kernel, asked, mine>>
    BY <1>4, <2>1, <2>2 DEF BootPlace, BootRun, Past, Place, Busy, Loaded
  <2>3. Place' = Place
    BY <2>1 DEF Place
  <2>4. ASSUME th'["main"].op \in {"none", th["main"].op}, Place \in 1 .. 6,
               asked'.auto = {}, "idle" \notin regs'.AP_CTRL,
               regs'.PIN = regs.PIN \/ (Place = 6 /\ th'["main"].op = "none")
        PROVE  BootPlace'
    BY <1>4, <2>1, <2>3, <2>4 DEF BootPlace, Past
  <2>5. CASE Place \in 1 .. 3
    <3>1. /\ th'["main"].op \in {"none", th["main"].op} /\ th["main"].op # "Start"
          /\ regs'.AP_CTRL = regs.AP_CTRL /\ regs'.PIN = regs.PIN /\ mine' = mine
          /\ kernel' = kernel /\ asked'.auto = asked.auto
      <4>1. CASE Place = 1 /\ Return("main") /\ UNCHANGED <<regs, kernel, asked, mine>>
        BY <1>1, <1>4, <1>5, <4>1, InACall DEF BootPlace, Boot, Return, Idle, ThreadsOK
      <4>2. CASE Place = 2 /\ SetsPointer("main")
        <5>1. UNCHANGED <<kernel, mine>> /\ th'["main"].op \in {"none", th["main"].op}
          BY <1>1, <1>5, <4>2, SetsPointerFacts, ThreadOps DEF rest, Idle
        <5>2. PICK v \in Nat :
                /\ \/ regs' = [regs EXCEPT !.ROM_LO = v] \/ regs' = [regs EXCEPT !.ROM_HI = v]
                   \/ regs' = [regs EXCEPT !.IN_LO = v] \/ regs' = [regs EXCEPT !.IN_HI = v]
                /\ \/ asked' = asked \/ asked' = [asked EXCEPT !.romcode = v]
                   \/ asked' = [asked EXCEPT !.pads_in = v]
                /\ th["main"].op # "Start"
          BY <1>1, <4>2, SetsPointerFacts
        <5>3. regs'.AP_CTRL = regs.AP_CTRL /\ regs'.PIN = regs.PIN /\ asked'.auto = asked.auto
          BY <1>1, <5>2 DEF Registers, RegistersOK
        <5> QED
          BY <5>1, <5>2, <5>3
      <4>3. CASE Place = 3 /\ SetsOne("main") /\ th["main"].op = "Set_length_r"
        <5>1. PICK v \in Nat : /\ regs' = [regs EXCEPT !.LENGTH = v]
                               /\ asked' = [asked EXCEPT !.length = v]
          BY <1>1, <4>3, SetsOneFacts
        <5>2. UNCHANGED <<kernel, mine>> /\ th'["main"].op \in {"none", th["main"].op}
          BY <1>1, <1>5, <4>3, SetsOneFacts, ThreadOps DEF rest, Idle
        <5> QED
          BY <1>1, <4>3, <5>1, <5>2 DEF Registers, RegistersOK
      <4>4. CASE UNCHANGED <<th, regs, kernel, asked, mine>>
        BY <1>1, <1>4, <1>5, <2>5, <4>4, InACall DEF BootPlace, Boot
      <4> QED
        BY <1>1, <1>4, <1>5, <2>5, <4>1, <4>2, <4>3, <4>4, BootSteps
    <3>2. BootPlace'
      BY <1>4, <2>4, <2>5, <3>1 DEF BootPlace
    <3>3. ~Past(4) /\ ~Past(4)' /\ ~Past(5)'
      BY <2>3, <2>5 DEF Past
    <3>4. BootRun'
      BY <1>4, <3>1, <3>3 DEF BootRun, Busy
    <3> QED
      BY <3>2, <3>4
  <2>6. CASE Place = 4 /\ Start("main")
    <3>1. ~Past(4) /\ th["main"].op = "Start" /\ ~Past(5)' /\ asked' = asked
          /\ kernel' = kernel
      BY <1>1, <2>3, <2>6, StartFacts DEF Past
    <3>2. CASE StartReads("main")
      <4>1. /\ regs'.AP_CTRL = regs.AP_CTRL \ {"done", "ready"} /\ regs'.PIN = regs.PIN
            /\ mine' = IF Busy THEN "lost" ELSE "asked"
            /\ th'["main"].op = "Start" /\ th'["main"].step = 2
        BY <1>1, <3>1, <3>2 DEF StartReads, Reads, AfterRead, Registers, ThreadsOK
      <4>2. BootPlace'
        BY <1>4, <2>4, <2>6, <3>1, <4>1 DEF BootPlace
      <4>3. ~Past(4)'
        BY <2>3, <2>6, <4>1 DEF Past
      <4> QED
        BY <1>4, <3>1, <4>1, <4>2, <4>3 DEF BootRun, Busy
    <3>3. CASE ~StartReads("main")
      <4>1. /\ Return("main") /\ th["main"].step = 2
            /\ regs' = [regs EXCEPT !.AP_CTRL = (@ \ {"auto"}) \cup {"start"}
                                                   \cup (th["main"].data[1] \cap {"auto"})]
            /\ mine' = IF mine = "asked" /\ ~Busy THEN "written" ELSE "lost"
        BY <1>1, <2>6, <3>3, StartFacts
      <4>2. /\ th'["main"].op = "none" /\ regs'.PIN = regs.PIN
            /\ "start" \in regs'.AP_CTRL /\ "idle" \notin regs'.AP_CTRL
        BY <1>1, <1>4, <4>1 DEF BootPlace, Return, Idle, ThreadsOK, Registers
      <4>3. BootPlace'
        BY <1>4, <2>4, <2>6, <3>1, <4>2 DEF BootPlace
      <4>4. mine' = "written" /\ ~kernel'.on
        BY <1>4, <3>1, <4>1 DEF BootRun, Busy
      <4>5. Past(4)'
        BY <2>3, <2>6, <4>2 DEF Past
      <4> QED
        BY <3>1, <4>2, <4>3, <4>4, <4>5 DEF BootRun
    <3> QED
      BY <3>2, <3>3
  <2>7. CASE Place = 5 /\ AsksControl("main")
    <3>1. /\ regs'.AP_CTRL = regs.AP_CTRL \ {"done", "ready"} /\ regs'.PIN = regs.PIN
          /\ UNCHANGED <<kernel, asked, mine>>
      BY <1>1, <2>7, AsksControlFacts DEF Registers
    <3>2. BootPlace'
      BY <1>1, <1>4, <1>5, <2>4, <2>7, <3>1, ThreadOps DEF BootPlace, Idle
    <3>3. Past(4) /\ Past(4)'
      BY <2>3, <2>7 DEF Past
    <3>4. /\ Busy' <=> Busy
          /\ Loaded' <=> Loaded
      BY <3>1 DEF Busy, Loaded
    <3>5. ASSUME Past(5)'
          PROVE  mine' = "ended"
      <4>1. th["main"].op = "WaitIdle"
        BY <1>1, <1>4, <1>5, <2>7, InACall DEF BootPlace, Boot
      <4>2. "idle" \in RegValue("AP_CTRL")
        <5>1. th' # th
          BY <2>3, <2>7, <3>5, <4>1 DEF Past
        <5> QED
          BY <2>7, <4>1, <5>1 DEF AsksControl, Answer
      <4>3. ~Busy
        BY <1>4, <4>2 DEF BootPlace, RegValue, Flag
      <4> QED
        BY <1>4, <3>1, <3>3, <4>3 DEF BootRun, Busy
    <3>6. BootRun'
      BY <1>4, <3>1, <3>3, <3>4, <3>5 DEF BootRun
    <3> QED
      BY <3>2, <3>6
  <2>8. CASE Place = 6 /\ SetsOne("main") /\ th["main"].op = "Set_outpin_ctrl"
    <3>1. /\ Return("main") /\ UNCHANGED <<kernel, mine>> /\ regs'.AP_CTRL = regs.AP_CTRL
          /\ UNCHANGED <<asked.auto, asked.romcode, asked.length>>
      BY <1>1, <2>8, SetsOneFacts DEF rest, Registers, RegistersOK
    <3>2. th'["main"].op = "none"
      BY <1>1, <3>1 DEF Return, Idle, ThreadsOK
    <3>3. BootPlace'
      BY <1>4, <2>4, <2>8, <3>1, <3>2 DEF BootPlace
    <3>4. Past(4) /\ Past(4)' /\ Past(5) /\ Past(5)'
      BY <2>3, <2>8 DEF Past
    <3>5. BootRun'
      BY <1>4, <3>1, <3>4 DEF BootRun, Busy, Loaded
    <3> QED
      BY <3>3, <3>5
  <2> QED
    BY <1>1, <1>4, <1>5, <2>2, <2>5, <2>6, <2>7, <2>8, BootSteps
<1>6. ASSUME Step("handler")
      PROVE  FALSE
  BY <1>1, <1>4, <1>6, InACall DEF BootPlace
<1>7. ASSUME Call("main")
      PROVE  BootPlace' /\ BootRun'
  <2>1. /\ th["main"].op = "none" /\ th'["main"].step = 1
        /\ th'["handler"] = th["handler"]
        /\ UNCHANGED <<regs, kernel, asked, mine>>
    BY <1>1, <1>7, CallFacts
  <2>2. Place' = Place + 1
    BY <1>1, <1>7 DEF Call, RegistersOK, Place
  <2>3. Place < 6 /\ th'["main"].op = Boot[Place + 1]
    <3>1. PICK op \in program["main"] : \E arg \in Arguments(op) :
            th'["main"].op = op /\ MayCall("main", op, arg)
      BY <1>1, <1>7, CallFacts
    <3>2. Len(Boot) = 6
      BY DEF Boot
    <3> QED
      BY <1>3, <1>4, <3>1, <3>2 DEF MayCall, Place
  <2>4. clash' = {}
    <3>1. th[Other("main")].op = "none" /\ SettingOf("none") = "none"
      BY <1>4, OtherFacts DEF BootPlace, SettingOf
    <3>2. \A op : SettingOf(op) = SettingOf(th[Other("main")].op)
                   => Flag(SettingOf(op) # "none", SettingOf(op)) = {}
      BY <3>1 DEF Flag
    <3>3. clash = {}
      BY <1>4 DEF BootPlace
    <3> QED
      BY <1>7, <3>2, <3>3 DEF Call
  <2>5. \A n \in 1 .. 6 : /\ Past(n)' <=> Past(n)
                          /\ Boot[n] # "none" /\ (Boot[n] = "Start" <=> n = 4)
    <3>1. \A n \in 1 .. 6 : Boot[n] # "none" /\ (Boot[n] = "Start" <=> n = 4)
      BY DEF Boot
    <3>2. th'["main"].op # "none"
      BY <1>1, <2>3, <3>1
    <3> QED
      BY <1>1, <2>1, <2>2, <3>1, <3>2 DEF Past
  <2>6. BootPlace'
    BY <1>1, <1>4, <2>1, <2>2, <2>3, <2>4, <2>5 DEF BootPlace
  <2>7. BootRun'
    <3>1. /\ Past(4)' <=> Past(4)
          /\ Past(5)' <=> Past(5)
          /\ Busy' <=> Busy
          /\ Loaded' <=> Loaded
      BY <2>1, <2>5 DEF Busy, Loaded
    <3> QED
      BY <1>4, <2>1, <3>1 DEF BootRun
  <2> QED
    BY <2>6, <2>7
<1>8. ASSUME Call("handler")
      PROVE  FALSE
  BY <1>4, <1>8 DEF Call
<1>9. CASE KernelBegins
  <2>1. /\ ~kernel.on /\ "start" \in regs.AP_CTRL
        /\ UNCHANGED <<regs, th, calls, asked, clash>>
        /\ kernel'.on /\ kernel'.lo = regs.ROM_LO /\ kernel'.hi = regs.ROM_HI
        /\ kernel'.length = regs.LENGTH
        /\ mine' = IF mine = "written" THEN "begun" ELSE mine
    BY <1>9 DEF KernelBegins
  <2>2. BootPlace'
    BY <1>4, <2>1 DEF BootPlace, Past, Place
  <2>3. Past(4) /\ mine = "written" /\ ~Past(5)
    BY <1>4, <2>1 DEF BootRun, Busy
  <2>4. \A t \in Threads : ~Halfway(t, "Set_romcode")
    BY <1>1, <1>4, <2>3 DEF BootPlace, Past, Boot, Halfway
  <2>5. regs.ROM_LO = asked.romcode /\ regs.ROM_HI = asked.romcode /\ regs.LENGTH = asked.length
    BY <1>4, <2>4 DEF BootPlace, HInv, HalvesInv, RomHalves, KeptInv, WholeKept
  <2>6. Past(4)' /\ ~Past(5)'
    BY <2>1, <2>3 DEF Past, Place
  <2>7. mine' = "begun" /\ kernel'.on /\ Loaded'
    BY <2>1, <2>3, <2>5 DEF Loaded
  <2> QED
    BY <2>2, <2>6, <2>7 DEF BootRun
<1>10. CASE KernelDone
  <2>1. /\ kernel.on
        /\ kernel' = [kernel EXCEPT !.on = FALSE, !.auto = @ /\ "auto" \in regs.AP_CTRL]
        /\ mine' = IF mine = "begun" THEN "ended" ELSE mine
        /\ UNCHANGED <<th, calls, asked, clash>>
    BY <1>10 DEF KernelDone
  <2>2. Past(4) /\ mine = "begun" /\ Loaded /\ ~Past(5)
    BY <1>4, <2>1 DEF BootRun, Busy
  <2>3. "auto" \notin regs.AP_CTRL
    <3>1. regs.AP_CTRL \cap {"auto"} = {}
      BY <1>4 DEF BootPlace, HInv, KeptInv, AutoKept
    <3> QED
      BY <3>1
  <2>4. /\ regs'.AP_CTRL = (regs.AP_CTRL \ {"start"}) \cup {"done", "ready"}
        /\ regs'.PIN = regs.PIN
    BY <1>1, <1>10, <2>3 DEF KernelDone, Registers, Flag
  <2>5. /\ Past(4)' <=> Past(4)
        /\ Past(5)' <=> Past(5)
        /\ Past(6)' <=> Past(6)
        /\ Place' = Place
    BY <2>1 DEF Past, Place
  <2>6. BootPlace'
    BY <1>4, <2>1, <2>4, <2>5 DEF BootPlace
  <2>7. ~kernel'.on /\ Loaded' /\ ~Busy' /\ mine' = "ended"
    BY <1>1, <2>1, <2>2, <2>4 DEF Loaded, Busy, RegistersOK
  <2> QED
    BY <2>2, <2>5, <2>6, <2>7 DEF BootRun
<1>11. CASE PadsChange
  <2>1. /\ UNCHANGED <<th, calls, kernel, asked, clash, mine>>
        /\ regs'.AP_CTRL = regs.AP_CTRL /\ regs'.PIN = regs.PIN
    BY <1>1, <1>11 DEF PadsChange, Registers
  <2> QED
    BY <1>4, <2>1 DEF BootPlace, BootRun, Past, Place, Busy, Loaded
<1>12. CASE StatusFollows
  <2>1. /\ UNCHANGED <<th, calls, regs, asked, clash, mine>>
        /\ UNCHANGED <<kernel.on, kernel.lo, kernel.hi, kernel.length>>
    BY <1>1, <1>12 DEF StatusFollows, RegistersOK
  <2> QED
    BY <1>4, <2>1 DEF BootPlace, BootRun, Past, Place, Busy, Loaded
<1> QED
  BY <1>1, <1>5, <1>6, <1>7, <1>8, <1>9, <1>10, <1>11, <1>12 DEF Next

\* The notebook of the project loads the program memory before it releases the
\* chip: at any pointer, when each program that follows the notebook has its
\* six calls in its order and no thread that serves an interrupt.
THEOREM LoadsBeforeRelease ==
  ASSUME ScriptsBoot
  PROVE  Spec => []LoadedBeforeRelease
<1>1. Init => BootInv
  <2>1. ASSUME Init
        PROVE  BootInv
    <3>1. BootPlace
      BY <2>1 DEF Init, BootPlace, Place, Past, Idle, Threads
    <3>2. BootRun
      BY <2>1 DEF Init, BootRun, Place, Past, Idle, Threads, Busy
    <3> QED
      BY <3>1, <3>2 DEF BootInv
  <2> QED
    BY <2>1
<1>2. HInv /\ BootInv /\ [Next]_vars => BootInv'
  <2>1. ASSUME HInv, BootInv, UNCHANGED vars
        PROVE  BootInv'
    BY <2>1 DEF vars, BootInv, BootPlace, BootRun, Past, Place, Busy, Loaded
  <2> QED
    BY <2>1, BootStep
<1>3. ASSUME HInv, BootInv
      PROVE  LoadedBeforeRelease
  <2>1. SUFFICES ASSUME program.script # <<>>, regs.PIN = 1
                 PROVE  ~kernel.on /\ mine = "ended" /\ Loaded
    BY DEF LoadedBeforeRelease, Loaded
  <2>2. BootPlace /\ BootRun
    BY <1>3, <2>1 DEF BootInv
  <2>3. Past(6)
    BY <2>1, <2>2 DEF BootPlace
  <2>4. Past(4) /\ Past(5)
    BY <1>3, <2>3 DEF Past, Place, HInv, DriverTypeOK, RegistersOK, Threads
  <2> QED
    BY <2>2, <2>4 DEF BootRun, Busy
<1>4. HInv /\ BootInv => LoadedBeforeRelease
  BY <1>3
<1> QED
  BY <1>1, <1>2, <1>4, DriverInvariance, PTL DEF Spec
=============================================================================
