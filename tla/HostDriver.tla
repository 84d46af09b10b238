----------------------------- MODULE HostDriver ------------------------------
(***************************************************************************)
(* The C drivers of the three cores through which the processing system    *)
(* loads the program memory (read_romcode), watches the pads (caravel_ps)  *)
(* and releases the chip from reset (output_pin): two threads call the     *)
(* drivers, the program and the one that serves the interrupt, and the     *)
(* cores answer.  A step is one access to a register, one step of the      *)
(* core, or one Initialize or Release.  A program is the set of calls it   *)
(* may make in any order, or a script of calls; bits of a register that is *)
(* a set of flags are the members of a set.  A 64-bit argument whose two   *)
(* words belong together is one number that both words carry.              *)
(***************************************************************************)
EXTENDS Naturals, Sequences, FiniteSets, FiniteSetsExt

CONSTANTS
  Programs,      \* [linux, main, handler, script]
  Pointers,      \* arguments of Set_romcode and of Set_ps_mprj_in
  PageCount,     \* pages of the register window of each instance
  MaxCalls,      \* bound of the calls of each thread
  MaxChanges     \* bound of the changes of the pads

ASSUME HostAssumption ==
  /\ Pointers \subseteq Nat \ {0}
  /\ PageCount \in Seq(Nat \ {0}) /\ PageCount # <<>>
  /\ MaxCalls \in [{"main", "handler"} -> Nat] /\ MaxChanges \in Nat

VARIABLES
  program,       \* the program that runs
  regs,          \* the registers of the three cores
  kernel,        \* the core read_romcode: does it run, with what, and its
                 \* auto_restart_status
  th,            \* the call each thread is in, its step, what it has read
  calls,         \* calls made by each thread
  inst,          \* the driver's instances: IsReady and base address
  info,          \* the static uio_info: uio_fd and maps[0].size
  open, pages,   \* descriptors open, pages mapped for each instance
  fault,         \* an access to memory that is not mapped
  asked,         \* history: the settings asked for
  clash,         \* history: settings two threads changed at the same time
  mine,          \* history: the run main has started
  swallowed,     \* history: ap_done cleared by a read that was not IsDone's
  misuse         \* history: the instances were not opened one at a time

os == <<inst, info, open, pages>>
vars == <<program, regs, kernel, th, calls, os, fault, asked, clash, mine,
          swallowed, misuse>>

Threads == {"main", "handler"}
Instances == DOMAIN PageCount
Idle == [op |-> "none", arg |-> 0, step |-> 0, data |-> <<>>, since |-> 0]
Flag(b, f) == IF b THEN {f} ELSE {}

-----------------------------------------------------------------------------
(* The register windows.                                                   *)

Busy == kernel.on \/ "start" \in regs.AP_CTRL

\* ap_idle is the core's own, the other flags of AP_CTRL are kept; both words
\* of the pads are taken from the same register; ap_vld is set all the time.
RegValue(r) ==
  CASE r = "AP_CTRL" -> regs.AP_CTRL \cup Flag(~Busy, "idle")
    [] r \in {"OUT_CTRL", "EN_CTRL"} -> {"vld"}
    [] r \in {"OUT_LO", "OUT_HI", "EN_LO", "EN_HI"} -> regs.PADS
    [] OTHER -> regs[r]

\* Fault: a read of the interrupt status clears the completion with it.
AfterReadBoth(r) ==
  CASE r = "AP_CTRL" -> [regs EXCEPT !.AP_CTRL = @ \ {"done", "ready"}]
    [] r = "ISR" -> [regs EXCEPT !.ISR = {}, !.AP_CTRL = @ \ {"done", "ready"}]
    [] OTHER -> regs

\* ap_done, ap_ready and the interrupt status are cleared by a read.
AfterRead(r) ==
  CASE r = "AP_CTRL" -> [regs EXCEPT !.AP_CTRL = @ \ {"done", "ready"}]
    [] r = "ISR" -> [regs EXCEPT !.ISR = {}]
    [] OTHER -> regs

\* ap_start is set by a 1 and kept by a 0; auto_restart takes what is written.
AfterWrite(r, v) ==
  IF r = "AP_CTRL"
  THEN [regs EXCEPT !.AP_CTRL = (@ \ {"auto"}) \cup (v \cap {"start", "auto"})]
  ELSE [regs EXCEPT ![r] = v]

\* The mapping of the first instance, whose registers the calls use.
Mapped == ~program.linux \/ (inst[1].base = 1 /\ pages[1] > 0)

In(t, op, step) ==
  /\ th[t].op = op /\ th[t].step = step
  /\ ~fault /\ Mapped

Goto(t, step) == th' = [th EXCEPT ![t].step = step]
Return(t) == th' = [th EXCEPT ![t] = Idle]

Reads(t, r, next) ==
  /\ regs' = AfterRead(r)
  /\ th' = [th EXCEPT ![t].data = Append(@, RegValue(r)), ![t].step = next]

\* auto_restart_status is set in the cycle after auto_restart, and cleared in
\* the first one in which auto_restart is off and the core idle.
StatusLags ==
  LET auto == "auto" \in regs.AP_CTRL
  IN kernel.auto # auto /\ (auto \/ ~Busy)

\* A write takes more than a cycle: by the next one the status has followed.
Writes(t, r, v) == ~StatusLags /\ regs' = AfterWrite(r, v)

Other(t) == CHOOSE u \in Threads : u # t

\* A read of AP_CTRL that drops a completion nobody has been told of.
Swallows(t) == "done" \in regs.AP_CTRL /\ ~(t = "main" /\ th[t].op = "WaitDone")

-----------------------------------------------------------------------------
(* The driver of read_romcode: control.                                    *)

\* Main's run: busy while main reads or writes the register, or another Start
\* in between, and the request is not one of its own any more.
StartReads(t) ==
  /\ In(t, "Start", 1)
  /\ Reads(t, "AP_CTRL", 2)
  /\ mine' = IF t = "main" THEN (IF Busy THEN "lost" ELSE "asked") ELSE mine
  /\ swallowed' = (swallowed \/ Swallows(t))
  /\ UNCHANGED <<program, kernel, calls, os, fault, asked, clash, misuse>>

\* The rest of Start: what is written to the register, given what was read.
Starts(t, v) ==
  /\ In(t, "Start", 2)
  /\ Writes(t, "AP_CTRL", v)
  /\ Return(t)
  /\ mine' = CASE t = "main" -> IF mine = "asked" /\ ~Busy THEN "written" ELSE "lost"
               [] OTHER -> IF mine = "asked" THEN "lost" ELSE mine
  /\ UNCHANGED <<program, kernel, calls, os, fault, asked, clash, swallowed, misuse>>

\* Fault: the auto restart flag is not written back.
StartPlain(t) == StartReads(t) \/ Starts(t, {"start"})

\* Fault: the register is written without having been read.
StartBlind(t) ==
  \/ /\ In(t, "Start", 1)
     /\ Goto(t, 2)
     /\ mine' = IF t = "main" THEN (IF Busy THEN "lost" ELSE "asked") ELSE mine
     /\ UNCHANGED <<program, regs, kernel, calls, os, fault, asked, clash,
                    swallowed, misuse>>
  \/ Starts(t, {"start"})

Start(t) ==
  \/ StartReads(t)
  \/ Starts(t, (th[t].data[1] \cap {"auto"}) \cup {"start"})

\* Fault: IsIdle gives the flag the wrong sense.
AnswerInverted(op, v) ==
  CASE op = "WaitDone" -> "done" \in v
    [] op = "WaitIdle" -> "idle" \notin v
    [] OTHER -> TRUE

\* IsDone, IsIdle and IsReady read AP_CTRL; WaitDone and WaitIdle are the loops
\* of a caller of IsDone and IsIdle, that go on until the answer is yes.
Answer(op, v) ==
  CASE op = "WaitDone" -> "done" \in v
    [] op = "WaitIdle" -> "idle" \in v
    [] OTHER -> TRUE

AsksControl(t) ==
  /\ \E op \in {"WaitDone", "WaitIdle", "IsReady"} : In(t, op, 1)
  /\ regs' = AfterRead("AP_CTRL")
  /\ IF Answer(th[t].op, RegValue("AP_CTRL")) THEN Return(t) ELSE UNCHANGED th
  /\ swallowed' = (swallowed \/ Swallows(t))
  /\ UNCHANGED <<program, kernel, calls, os, fault, asked, clash, mine, misuse>>

\* A call that writes its argument to one register.
SetsWhole(t, op, r, v, setting) ==
  /\ In(t, op, 1)
  /\ Writes(t, r, v)
  /\ Return(t)
  /\ asked' = [asked EXCEPT ![setting] = v]
  /\ UNCHANGED <<program, kernel, calls, os, fault, clash, mine, swallowed, misuse>>

EnableAutoRestart(t) == SetsWhole(t, "EnableAutoRestart", "AP_CTRL", {"auto"}, "auto")
DisableAutoRestart(t) == SetsWhole(t, "DisableAutoRestart", "AP_CTRL", {}, "auto")
Set_length_r(t) == SetsWhole(t, "Set_length_r", "LENGTH", th[t].arg, "length")
InterruptGlobalEnable(t) == SetsWhole(t, "GlobalEnable", "GIE", {"enable"}, "gie")
InterruptGlobalDisable(t) == SetsWhole(t, "GlobalDisable", "GIE", {}, "gie")
Set_outpin_ctrl(t) == SetsWhole(t, "Set_outpin_ctrl", "PIN", th[t].arg, "pin")

\* A call that writes a 64-bit argument, the least significant word first.
SetsTwo(t, op, lo, hi, setting) ==
  \/ /\ In(t, op, 1)
     /\ Writes(t, lo, th[t].arg)
     /\ Goto(t, 2)
     /\ UNCHANGED <<program, kernel, calls, os, fault, asked, clash, mine,
                    swallowed, misuse>>
  \/ /\ In(t, op, 2)
     /\ Writes(t, hi, th[t].arg)
     /\ Return(t)
     /\ asked' = [asked EXCEPT ![setting] = th[t].arg]
     /\ UNCHANGED <<program, kernel, calls, os, fault, clash, mine, swallowed, misuse>>

\* Fault: the most significant word keeps what it was.
Set_romcodeLow(t) == SetsTwo(t, "Set_romcode", "ROM_LO", "ROM_LO", "romcode")

Set_romcode(t) == SetsTwo(t, "Set_romcode", "ROM_LO", "ROM_HI", "romcode")
Set_ps_mprj_in(t) == SetsTwo(t, "Set_ps_mprj_in", "IN_LO", "IN_HI", "pads_in")

\* InterruptEnable and InterruptDisable: the register is read, then written.
ReadsAndWrites(t, op, Written(_)) ==
  \/ /\ In(t, op, 1)
     /\ Reads(t, "IER", 2)
     /\ UNCHANGED <<program, kernel, calls, os, fault, asked, clash, mine,
                    swallowed, misuse>>
  \/ /\ In(t, op, 2)
     /\ Writes(t, "IER", Written(th[t].data[1]))
     /\ Return(t)
     /\ asked' = [asked EXCEPT !.ier = Written(@)]
     /\ UNCHANGED <<program, kernel, calls, os, fault, clash, mine, swallowed, misuse>>

InterruptEnable(t) ==
  LET Enabled(register) == register \cup th[t].arg
  IN ReadsAndWrites(t, "InterruptEnable", Enabled)

InterruptDisable(t) ==
  LET Disabled(register) == register \ th[t].arg
  IN ReadsAndWrites(t, "InterruptDisable", Disabled)

\* The write that would clear the status is a comment.
InterruptClear(t) ==
  /\ In(t, "InterruptClear", 1)
  /\ Return(t)
  /\ UNCHANGED <<program, regs, kernel, calls, os, fault, asked, clash, mine,
                 swallowed, misuse>>

\* A call that returns one register: InterruptGetStatus clears it.
GetsWhole(t, op, r) ==
  /\ In(t, op, 1)
  /\ regs' = AfterRead(r)
  /\ Return(t)
  /\ UNCHANGED <<program, kernel, calls, os, fault, asked, clash, mine, swallowed, misuse>>

Get_length_r(t) == GetsWhole(t, "Get_length_r", "LENGTH")
InterruptGetEnabled(t) == GetsWhole(t, "GetEnabled", "IER")
InterruptGetStatus(t) == GetsWhole(t, "GetStatus", "ISR")
Get_outpin_ctrl(t) == GetsWhole(t, "Get_outpin_ctrl", "PIN")
Get_ps_mprj_out_vld(t) == GetsWhole(t, "Get_ps_mprj_out_vld", "OUT_CTRL")
Get_ps_mprj_en_vld(t) == GetsWhole(t, "Get_ps_mprj_en_vld", "EN_CTRL")

\* A call that reads two words, the least significant first: step 3 returns.
GetsTwo(t, op, lo, hi) ==
  /\ \/ In(t, op, 1) /\ Reads(t, lo, 2)
     \/ In(t, op, 2) /\ Reads(t, hi, 3)
     \/ In(t, op, 3) /\ Return(t) /\ UNCHANGED regs
  /\ UNCHANGED <<program, kernel, calls, os, fault, asked, clash, mine,
                 swallowed, misuse>>

Get_romcode(t) == GetsTwo(t, "Get_romcode", "ROM_LO", "ROM_HI")
Get_ps_mprj_in(t) == GetsTwo(t, "Get_ps_mprj_in", "IN_LO", "IN_HI")
Get_ps_mprj_out(t) == GetsTwo(t, "Get_ps_mprj_out", "OUT_LO", "OUT_HI")
Get_ps_mprj_en(t) == GetsTwo(t, "Get_ps_mprj_en", "EN_LO", "EN_HI")

-----------------------------------------------------------------------------
(* The driver's instances on Linux: Initialize and Release.                *)

NewDescriptor == Min(1 .. Cardinality(open) + 1 \ open)

Live(i) == inst[i].ready /\ ~inst[i].released

\* More than one instance at a time, or the same one again.
Misused(i, call) ==
  IF call = "Initialize" THEN \E j \in Instances : Live(j)
                         ELSE inst[i].released

\* The name is not found, or the device cannot be opened: IsReady keeps its
\* value.  The size is left from the instance before if its file cannot be
\* read, and what mmap returns when it fails, MAP_FAILED, is not 0.
NotFound(i) == UNCHANGED os

SizeRead(i, readable) == IF readable THEN PageCount[i] ELSE info.size

NotOpened(i, readable) ==
  /\ info' = [fd |-> 0, size |-> SizeRead(i, readable)]
  /\ UNCHANGED <<inst, open, pages>>

Opened(i, readable, granted) ==
  LET size == SizeRead(i, readable)
      maps == granted /\ size \in 1 .. PageCount[i]
  IN /\ info' = [fd |-> NewDescriptor, size |-> size]
     /\ open' = open \cup {NewDescriptor}
     /\ inst' = [inst EXCEPT ![i] = [ready |-> TRUE, released |-> FALSE,
                                     base |-> IF maps THEN i ELSE 0]]
     /\ pages' = IF maps THEN [pages EXCEPT ![i] = @ + size] ELSE pages

\* On bare metal the table of configurations has the device or has not.
Configured(i, found) ==
  /\ inst' = [inst EXCEPT ![i] = [ready |-> found, released |-> FALSE, base |-> i]]
  /\ UNCHANGED <<info, open, pages>>

Initialize(t, i) ==
  /\ th[t].op = "Initialize" /\ th[t].arg = i /\ ~fault
  /\ IF program.linux
     THEN \/ NotFound(i)
          \/ \E readable, granted \in BOOLEAN :
               NotOpened(i, readable) \/ Opened(i, readable, granted)
     ELSE \E found \in BOOLEAN : Configured(i, found)
  /\ misuse' = (misuse \/ Misused(i, "Initialize"))
  /\ Return(t)
  /\ UNCHANGED <<program, regs, kernel, calls, fault, asked, clash, mine, swallowed>>

\* munmap of the size of the instance opened last: the pages past this
\* instance's own may be those of another.  The number 0 stands for the
\* descriptor -1 and for the address MAP_FAILED, that release nothing.
Unmapped(i) ==
  IF inst[i].base = 0 THEN {pages}
  ELSE LET own == Min({pages[i], info.size})
       IN {[pages EXCEPT ![i] = @ - own]} \cup
          {[pages EXCEPT ![i] = @ - own, ![j] = @ - Min({@, info.size - own})] :
             j \in Instances \ {i}}

\* Fault: the descriptor is not closed.
ReleaseKeepsOpen(t, i) ==
  /\ th[t].op = "Release" /\ th[t].arg = i /\ ~fault
  /\ pages' \in Unmapped(i)
  /\ inst' = [inst EXCEPT ![i].released = TRUE]
  /\ misuse' = (misuse \/ Misused(i, "Release"))
  /\ Return(t)
  /\ UNCHANGED <<program, regs, kernel, calls, info, open, fault, asked, clash,
                 mine, swallowed>>

\* IsReady stays set; "released" is history.
Release(t, i) ==
  /\ th[t].op = "Release" /\ th[t].arg = i /\ ~fault
  /\ pages' \in Unmapped(i)
  /\ open' = open \ {info.fd}
  /\ inst' = [inst EXCEPT ![i].released = TRUE]
  /\ misuse' = (misuse \/ Misused(i, "Release"))
  /\ Return(t)
  /\ UNCHANGED <<program, regs, kernel, calls, info, fault, asked, clash, mine,
                 swallowed>>

\* A register is accessed through an address that is not mapped.
Faults(t) ==
  /\ th[t].op \notin {"none", "Initialize", "Release"}
  /\ ~fault /\ ~Mapped
  /\ fault' = TRUE
  /\ UNCHANGED <<program, regs, kernel, th, calls, os, asked, clash, mine,
                 swallowed, misuse>>

-----------------------------------------------------------------------------
(* The cores.                                                              *)

InOp(ops) == \E t \in Threads : th[t].op \in ops

\* The arguments are taken when the core begins.
KernelBegins ==
  /\ ~kernel.on /\ "start" \in regs.AP_CTRL
  /\ kernel' = [on |-> TRUE, lo |-> regs.ROM_LO, hi |-> regs.ROM_HI,
                length |-> regs.LENGTH, auto |-> kernel.auto,
                clean |-> ~InOp({"Set_romcode"}) /\ "romcode" \notin clash]
  /\ mine' = IF mine = "written" THEN "begun" ELSE mine
  /\ UNCHANGED <<program, regs, th, calls, os, fault, asked, clash, swallowed, misuse>>

StatusFollows ==
  /\ StatusLags
  /\ kernel' = [kernel EXCEPT !.auto = ~@]
  /\ UNCHANGED <<program, regs, th, calls, os, fault, asked, clash, mine,
                 swallowed, misuse>>

\* ap_ready and ap_done come together: ap_start takes auto_restart.  The
\* completion is kept if the core is not to start again, and also in the one
\* cycle in which auto_restart is set and its status not yet.  (With the status
\* still set and auto_restart off, auto_restart_done keeps it a cycle later, as
\* the core goes idle, which clears the status: one step here.)
KernelDone ==
  LET again == "auto" \in regs.AP_CTRL
  IN /\ kernel.on
     /\ kernel' = [kernel EXCEPT !.on = FALSE, !.auto = @ /\ again]
     /\ regs' = [regs EXCEPT
           !.AP_CTRL = (@ \ {"start"}) \cup {IF again THEN "start" ELSE "ready"}
                                      \cup Flag(~again \/ ~kernel.auto, "done"),
           !.ISR = @ \cup regs.IER]
     /\ mine' = IF mine = "begun" THEN "ended" ELSE mine
     /\ UNCHANGED <<program, th, calls, os, fault, asked, clash, swallowed, misuse>>

PadsChange ==
  /\ regs.PADS < MaxChanges
  /\ InOp({"Get_ps_mprj_out", "Get_ps_mprj_en"})
  /\ regs' = [regs EXCEPT !.PADS = @ + 1]
  /\ UNCHANGED <<program, kernel, th, calls, os, fault, asked, clash, mine,
                 swallowed, misuse>>

-----------------------------------------------------------------------------
(* The programs.                                                           *)

\* The setting a call changes.
SettingOf(op) ==
  CASE op \in {"Start", "EnableAutoRestart", "DisableAutoRestart"} -> "auto"
    [] op \in {"InterruptEnable", "InterruptDisable"} -> "ier"
    [] op = "Set_romcode" -> "romcode"
    [] op = "Set_ps_mprj_in" -> "pads_in"
    [] OTHER -> "none"

Arguments(op) ==
  CASE op \in {"Set_romcode", "Set_ps_mprj_in"} -> Pointers
    [] op \in {"InterruptEnable", "InterruptDisable"} -> {{"done"}, {"ready"}}
    [] op \in {"Set_length_r", "Set_outpin_ctrl"} -> {1}
    [] op \in {"Initialize", "Release"} -> Instances
    [] OTHER -> {0}

\* Every call but Initialize asserts that the instance is ready; the thread
\* that serves the interrupt runs when there is one.
MayCall(t, op, arg) ==
  /\ calls[t] < MaxCalls[t]
  /\ t = "handler" => regs.GIE # {} /\ regs.ISR # {}
  /\ op # "Initialize" => inst[IF op = "Release" THEN arg ELSE 1].ready
  /\ IF t = "main" /\ program.script # <<>>
     THEN /\ calls[t] < Len(program.script)
          /\ op = program.script[calls[t] + 1]
     ELSE op \in program[t]

Call(t) ==
  /\ th[t].op = "none" /\ ~fault
  /\ \E op \in program[t] : \E arg \in Arguments(op) :
       /\ MayCall(t, op, arg)
       /\ th' = [th EXCEPT ![t] = [op |-> op, arg |-> arg, step |-> 1,
                                   data |-> <<>>, since |-> regs.PADS]]
       /\ clash' = IF SettingOf(op) = SettingOf(th[Other(t)].op)
                   THEN clash \cup Flag(SettingOf(op) # "none", SettingOf(op))
                   ELSE clash
  /\ calls' = [calls EXCEPT ![t] = @ + 1]
  /\ UNCHANGED <<program, regs, kernel, os, fault, asked, mine, swallowed, misuse>>

Init ==
  /\ program \in Programs
  /\ regs = [AP_CTRL |-> {}, GIE |-> {}, IER |-> {}, ISR |-> {}, ROM_LO |-> 0,
             ROM_HI |-> 0, LENGTH |-> 0, IN_LO |-> 0, IN_HI |-> 0, PIN |-> 0,
             PADS |-> 0]
  /\ kernel = [on |-> FALSE, lo |-> 0, hi |-> 0, length |-> 0, auto |-> FALSE,
             clean |-> TRUE]
  /\ th = [t \in Threads |-> Idle]
  /\ calls = [t \in Threads |-> 0]
  /\ inst = [i \in Instances |-> [ready |-> FALSE, released |-> FALSE, base |-> 0]]
  /\ info = [fd |-> 0, size |-> 0]
  /\ open = {} /\ pages = [i \in Instances |-> 0]
  /\ fault = FALSE
  /\ asked = [auto |-> {}, length |-> 0, gie |-> {}, ier |-> {}, pin |-> 0,
              romcode |-> 0, pads_in |-> 0]
  /\ clash = {} /\ mine = "none" /\ swallowed = FALSE /\ misuse = FALSE

Control(t) ==
  \/ Start(t) \/ AsksControl(t) \/ EnableAutoRestart(t) \/ DisableAutoRestart(t)
  \/ Set_romcode(t) \/ Get_romcode(t) \/ Set_length_r(t) \/ Get_length_r(t)

Interrupts(t) ==
  \/ InterruptGlobalEnable(t) \/ InterruptGlobalDisable(t)
  \/ InterruptEnable(t) \/ InterruptDisable(t) \/ InterruptClear(t)
  \/ InterruptGetEnabled(t) \/ InterruptGetStatus(t)

Pads(t) ==
  \/ Set_ps_mprj_in(t) \/ Get_ps_mprj_in(t)
  \/ Get_ps_mprj_out(t) \/ Get_ps_mprj_out_vld(t)
  \/ Get_ps_mprj_en(t) \/ Get_ps_mprj_en_vld(t)
  \/ Set_outpin_ctrl(t) \/ Get_outpin_ctrl(t)

Step(t) ==
  \/ Control(t) \/ Interrupts(t) \/ Pads(t) \/ Faults(t)
  \/ \E i \in Instances : Initialize(t, i) \/ Release(t, i)

Next ==
  \/ KernelBegins \/ KernelDone \/ StatusFollows \/ PadsChange
  \/ \E t \in Threads : Call(t) \/ Step(t)

\* The core goes on, and so does a thread that is inside a call.
Spec ==
  /\ Init /\ [][Next]_vars
  /\ WF_vars(KernelBegins) /\ WF_vars(KernelDone) /\ WF_vars(StatusFollows)
  /\ \A t \in Threads : WF_vars(Step(t))

-----------------------------------------------------------------------------
(* Properties.                                                             *)

\* IsDone speaks of the caller's own run: after a Start of main that found the
\* core idle, no IsDone of main can be answered by the completion of an earlier
\* run, because the read in Start has cleared it.
DoneMeansRun ==
  th["main"].op = "WaitDone" /\ mine \in {"written", "begun"}
     => "done" \notin regs.AP_CTRL

\* The two words of a 64-bit value belong together.  A run copies from an
\* address somebody asked for, never from halves of two, unless it begins
\* while Set_romcode is between its words: then auto restart has begun it, or
\* another thread.  The value Get_ps_mprj_out or Get_ps_mprj_en returns is made
\* of words that were on the pads during the call, the most significant one no
\* older than the other.
WordsBelongTogether ==
  /\ kernel.clean => kernel.lo = kernel.hi
  /\ \A t \in Threads :
       th[t].op \in {"Get_ps_mprj_out", "Get_ps_mprj_en"} /\ th[t].step = 3
         => LET lo == th[t].data[1]
                hi == th[t].data[2]
            IN th[t].since <= lo /\ lo <= hi /\ hi <= regs.PADS

Settled(s) == s \notin clash /\ \A t \in Threads : SettingOf(th[t].op) # s

\* A setting is what was asked for last, whatever the calls in between did to
\* the register it shares with others, unless two threads have changed the
\* same register at the same time.
SettingsKept ==
  /\ Settled("auto") => regs.AP_CTRL \cap {"auto"} = asked.auto
  /\ Settled("ier") => regs.IER = asked.ier
  /\ Settled("romcode") => {regs.ROM_LO, regs.ROM_HI} = {asked.romcode}
  /\ Settled("pads_in") => {regs.IN_LO, regs.IN_HI} = {asked.pads_in}
  /\ regs.GIE = asked.gie /\ regs.LENGTH = asked.length /\ regs.PIN = asked.pin

\* As long as the instances are opened one at a time, every descriptor that is
\* open belongs to an instance in use, and so does every page: nothing leaks
\* and nothing of another instance is released, however Initialize has failed.
\* The assertions on IsReady keep every access inside the mapping, except
\* after Release or after mmap has failed.
HandlesBalanced ==
  ~misuse =>
    /\ Cardinality(open) = Cardinality({i \in Instances : program.linux /\ Live(i)})
    /\ \A i \in Instances : pages[i] > 0 => Live(i)
    /\ fault => \/ inst[1].released
                \/ inst[1].base = 0 /\ info.fd # 0     \* MAP_FAILED

\* The chip leaves its reset only when the program memory has been loaded from
\* the whole address and to the length that were set: the order the notebook
\* of the project gives its calls in.
LoadedBeforeRelease ==
  program.script # <<>> /\ regs.PIN = 1
    => /\ ~kernel.on /\ mine = "ended"
       /\ kernel.lo = asked.romcode /\ kernel.hi = asked.romcode
       /\ kernel.length = asked.length

\* A caller that has started a run and loops on IsDone gets out of the loop,
\* unless the other thread has read AP_CTRL and so taken the completion, or
\* auto restart is on, with which a run is not reported any more.
PollEnds ==
  (th["main"].op = "WaitDone" /\ mine \in {"written", "begun"})
    ~> \/ th["main"].op # "WaitDone" \/ swallowed \/ fault
       \/ "auto" \in regs.AP_CTRL
=============================================================================
