----------------------------- MODULE SimpleTimer -----------------------------
(***************************************************************************)
(* The timer and counter library of the simple system                      *)
(* (firmware/simple_system_common.c): a program that calls it, the timer   *)
(* interrupt that runs simple_timer_handler between any two of its memory  *)
(* accesses, and the memory mapped timer.  A 64-bit value is two words of  *)
(* W values each (2^32 in the code); a step is one access to a word, or    *)
(* one count of the timer, that never stops for either thread.             *)
(***************************************************************************)
EXTENDS Integers

CONSTANTS
  W,               \* values of a word
  EndOfTime,       \* bound of the timer
  Increments,      \* arguments of timer_enable
  FirstCycles,     \* what mcycle may hold at the start
  MaxCalls         \* bound of the calls the program makes

Lo(x) == x % W
Hi(x) == x \div W
SetLo(x, l) == Hi(x) * W + l
SetHi(x, h) == h * W + Lo(x)

\* What time_increment may hold: words of two increments, of which 0 is the
\* value before the first timer_enable.
MixedIncrements ==
  {Hi(i) * W + Lo(j) : i \in Increments \cup {0}, j \in Increments \cup {0}}

ASSUME TimerAssumption ==
  /\ W \in Nat \ {0, 1}
  /\ EndOfTime \in 0 .. W * W - 1
  /\ Increments \subseteq Nat \ {0}
  /\ \A i \in MixedIncrements : EndOfTime + i < W * W    \* no deadline wraps
  /\ FirstCycles \subseteq 0 .. W * W - 1
  /\ MaxCalls \in Nat

VARIABLES
  mtime, mtimecmp,                 \* the timer's registers
  mtie, mstatus_mie,               \* bit 7 of mie, bit 3 of mstatus
  time_elapsed, time_increment,    \* the library's variables
  mcycle, inhibit,                 \* a performance counter, mcountinhibit
  pc,                              \* where each thread is
  loc,                             \* and its local values
  calls,                           \* calls made so far
  deadline,                        \* history: the last complete timecmp_update
  mixed,                           \* history: two updates of mtimecmp overlap
  resetAt                          \* history: time of the last pcount_reset

device == <<mtimecmp, mtie, mstatus_mie>>
counters == <<mcycle, inhibit, resetAt>>
elapsed == <<time_elapsed, time_increment>>
history == <<deadline, mixed>>
vars == <<mtime, device, elapsed, counters, pc, loc, calls, history>>

Threads == {"main", "handler"}

\* The timer asks for an interrupt as long as it is at or past mtimecmp.
Pending == mtime >= mtimecmp

Goto(t, label) == pc' = [pc EXCEPT ![t] = label]

\* The handler keeps the processor until it returns.
Runs(t) == t = "main" => pc["handler"] = "idle"

At(t, label) == pc[t] = label /\ Runs(t)

\* The clock is read for the program itself; otherwise for increment_timecmp.
OnlyReads(t) == t = "main" /\ loc[t].base = 0

-----------------------------------------------------------------------------
(* timer_read, increment_timecmp and timecmp_update, in either thread.     *)

ReadHigh(t) ==
  /\ At(t, "read_high")
  /\ loc' = [loc EXCEPT ![t].high = Hi(mtime)]
  /\ Goto(t, "read_low")
  /\ UNCHANGED <<mtime, device, elapsed, counters, calls, history>>

ReadLow(t) ==
  /\ At(t, "read_low")
  /\ loc' = [loc EXCEPT ![t].low = Lo(mtime)]
  /\ Goto(t, "read_again")
  /\ UNCHANGED <<mtime, device, elapsed, counters, calls, history>>

\* Fault: the high word is not read again.
ReadAgainNever(t) ==
  /\ At(t, "read_again")
  /\ loc' = [loc EXCEPT ![t].new = loc[t].high * W + loc[t].low + loc[t].base]
  /\ Goto(t, IF OnlyReads(t) THEN "read_done" ELSE "compare_max")
  /\ UNCHANGED <<mtime, device, elapsed, counters, calls, history>>

\* The high word is read again: if it has changed the low word is of no use.
ReadAgain(t) ==
  /\ At(t, "read_again")
  /\ LET final_time == loc[t].high * W + loc[t].low
     IN IF Hi(mtime) # loc[t].high
        THEN Goto(t, "read_high") /\ UNCHANGED loc
        ELSE IF OnlyReads(t)
        THEN Goto(t, "read_done") /\ loc' = [loc EXCEPT ![t].new = final_time]
        ELSE /\ Goto(t, "compare_max")
             /\ loc' = [loc EXCEPT ![t].new = final_time + loc[t].base]
  /\ UNCHANGED <<mtime, device, elapsed, counters, calls, history>>

\* An interrupt now has the handler update mtimecmp in the middle of main's.
InMainsUpdate == pc["main"] \in {"compare_high", "compare_low"}

\* Fault: the first store of timecmp_update is missing.
CompareMaxForgotten(t) ==
  /\ At(t, "compare_max")
  /\ mixed' = (mixed /\ InMainsUpdate)
  /\ Goto(t, "compare_high")
  /\ UNCHANGED <<mtime, device, elapsed, counters, loc, calls, deadline>>

\* timecmp_update: the low word is out of reach while the high one changes.
CompareMax(t) ==
  /\ At(t, "compare_max")
  /\ mtimecmp' = SetLo(mtimecmp, W - 1)
  /\ mixed' = (mixed /\ InMainsUpdate)
  /\ Goto(t, "compare_high")
  /\ UNCHANGED <<mtime, mtie, mstatus_mie, elapsed, counters, loc, calls, deadline>>

\* Fault: the high word is not stored.
CompareHighForgotten(t) ==
  /\ At(t, "compare_high")
  /\ Goto(t, "compare_low")
  /\ UNCHANGED <<mtime, device, elapsed, counters, loc, calls, history>>

CompareHigh(t) ==
  /\ At(t, "compare_high")
  /\ mtimecmp' = SetHi(mtimecmp, Hi(loc[t].new))
  /\ Goto(t, "compare_low")
  /\ UNCHANGED <<mtime, mtie, mstatus_mie, elapsed, counters, loc, calls, history>>

CompareLow(t) ==
  /\ At(t, "compare_low")
  /\ mtimecmp' = SetLo(mtimecmp, Lo(loc[t].new))
  /\ deadline' = loc[t].new
  /\ Goto(t, IF t = "main" THEN "enable_timer" ELSE "count")
  /\ UNCHANGED <<mtime, mtie, mstatus_mie, elapsed, counters, loc, calls, mixed>>

-----------------------------------------------------------------------------
(* simple_timer_handler                                                    *)

Interrupt ==
  /\ Pending /\ mtie /\ mstatus_mie
  /\ pc["handler"] = "idle"
  /\ loc' = [loc EXCEPT !["handler"].base = time_increment]
  /\ mixed' = (mixed \/ InMainsUpdate)
  /\ Goto("handler", "read_high")
  /\ UNCHANGED <<mtime, device, elapsed, counters, calls, deadline>>

HandlerReturns ==
  /\ At("handler", "count")
  /\ time_elapsed' = (time_elapsed + 1) % (W * W)
  /\ Goto("handler", "idle")
  /\ UNCHANGED <<mtime, device, time_increment, counters, loc, calls, history>>

-----------------------------------------------------------------------------
(* The calls of the program.                                               *)

Call(label) ==
  /\ At("main", "idle") /\ calls < MaxCalls
  /\ calls' = calls + 1
  /\ Goto("main", label)
  /\ UNCHANGED <<mtime, device, elapsed, counters, history>>

CallTimerEnable ==
  /\ Call("clear")
  /\ \E time_base \in Increments :
       loc' = [loc EXCEPT !["main"].base = time_base]

CallTimerRead ==
  /\ Call("read_high")
  /\ loc' = [loc EXCEPT !["main"].base = 0, !["main"].began = mtime]

CallGetElapsed ==
  /\ Call("elapsed")
  /\ loc' = [loc EXCEPT !["main"].began = time_elapsed]

\* time_elapsed = 0 is a store for each word; C leaves their order open.
ClearElapsed ==
  /\ \/ /\ At("main", "clear")
        /\ \/ time_elapsed' = SetLo(time_elapsed, 0) /\ Goto("main", "clear_high")
           \/ time_elapsed' = SetHi(time_elapsed, 0) /\ Goto("main", "clear_low")
     \/ /\ At("main", "clear_high")
        /\ time_elapsed' = SetHi(time_elapsed, 0) /\ Goto("main", "increment")
     \/ /\ At("main", "clear_low")
        /\ time_elapsed' = SetLo(time_elapsed, 0) /\ Goto("main", "increment")
  /\ UNCHANGED <<mtime, device, time_increment, counters, loc, calls, history>>

\* time_increment = time_base, also a store for each word: an interrupt between
\* them has the handler use the high word of one increment and the low word of
\* another.
SetIncrement ==
  /\ LET time_base == loc["main"].base
     IN \/ /\ At("main", "increment")
           /\ \/ /\ time_increment' = SetLo(time_increment, Lo(time_base))
                 /\ Goto("main", "increment_high")
              \/ /\ time_increment' = SetHi(time_increment, Hi(time_base))
                 /\ Goto("main", "increment_low")
        \/ /\ At("main", "increment_high")
           /\ time_increment' = SetHi(time_increment, Hi(time_base))
           /\ Goto("main", "read_high")
        \/ /\ At("main", "increment_low")
           /\ time_increment' = SetLo(time_increment, Lo(time_base))
           /\ Goto("main", "read_high")
  /\ UNCHANGED <<mtime, device, time_elapsed, counters, loc, calls, history>>

EnableTimer ==
  /\ At("main", "enable_timer")
  /\ mtie' = TRUE
  /\ Goto("main", "enable_global")
  /\ UNCHANGED <<mtime, mtimecmp, mstatus_mie, elapsed, counters, loc, calls, history>>

EnableGlobal ==
  /\ At("main", "enable_global")
  /\ mstatus_mie' = TRUE
  /\ Goto("main", "idle")
  /\ UNCHANGED <<mtime, mtimecmp, mtie, elapsed, counters, loc, calls, history>>

timer_disable ==
  /\ At("main", "idle") /\ calls < MaxCalls
  /\ calls' = calls + 1
  /\ mtie' = FALSE
  /\ UNCHANGED <<mtime, mtimecmp, mstatus_mie, elapsed, counters, pc, loc, history>>

\* get_elapsed_time: a load for each word, in either order.
GetElapsed ==
  /\ \/ /\ At("main", "elapsed")
        /\ \/ /\ loc' = [loc EXCEPT !["main"].low = Lo(time_elapsed)]
              /\ Goto("main", "elapsed_high")
           \/ /\ loc' = [loc EXCEPT !["main"].high = Hi(time_elapsed)]
              /\ Goto("main", "elapsed_low")
     \/ /\ At("main", "elapsed_high")
        /\ loc' = [loc EXCEPT !["main"].new = Hi(time_elapsed) * W + loc["main"].low]
        /\ Goto("main", "elapsed_done")
     \/ /\ At("main", "elapsed_low")
        /\ loc' = [loc EXCEPT !["main"].new = loc["main"].high * W + Lo(time_elapsed)]
        /\ Goto("main", "elapsed_done")
  /\ UNCHANGED <<mtime, device, elapsed, counters, calls, history>>

Return ==
  /\ \/ At("main", "read_done")
     \/ At("main", "elapsed_done")
  /\ Goto("main", "idle")
  /\ UNCHANGED <<mtime, device, elapsed, counters, loc, calls, history>>

\* pcount_reset: all the low words, then all the high ones, of which mcycle's
\* two are kept.
CallPcountReset ==
  /\ Call("cycle_low")
  /\ UNCHANGED loc

\* Fault: the high words are cleared first.
pcount_resetHighFirst ==
  /\ \/ /\ At("main", "cycle_low")
        /\ mcycle' = SetHi(mcycle, 0) /\ resetAt' = mtime
        /\ Goto("main", "cycle_high")
     \/ /\ At("main", "cycle_high")
        /\ mcycle' = SetLo(mcycle, 0) /\ UNCHANGED resetAt
        /\ Goto("main", "idle")
  /\ UNCHANGED <<mtime, device, elapsed, inhibit, loc, calls, history>>

pcount_reset ==
  /\ \/ /\ At("main", "cycle_low")
        /\ mcycle' = SetLo(mcycle, 0) /\ resetAt' = mtime
        /\ Goto("main", "cycle_high")
     \/ /\ At("main", "cycle_high")
        /\ mcycle' = SetHi(mcycle, 0) /\ UNCHANGED resetAt
        /\ Goto("main", "idle")
  /\ UNCHANGED <<mtime, device, elapsed, inhibit, loc, calls, history>>

pcount_enable ==
  /\ At("main", "idle") /\ calls < MaxCalls
  /\ calls' = calls + 1
  /\ \E enable \in BOOLEAN : inhibit' = ~enable
  /\ UNCHANGED <<mtime, device, elapsed, mcycle, resetAt, pc, loc, history>>

-----------------------------------------------------------------------------
\* The clock, that both counters follow (EndOfTime bounds the model).
Tick ==
  /\ mtime < EndOfTime
  /\ mtime' = mtime + 1
  /\ mcycle' = IF inhibit THEN mcycle ELSE (mcycle + 1) % (W * W)
  /\ UNCHANGED <<device, elapsed, inhibit, resetAt, pc, loc, calls, history>>

NoLocals == [base |-> 0, high |-> 0, low |-> 0, new |-> 0, began |-> 0]
Never == EndOfTime + 1

Init ==
  /\ mtime = 0 /\ mtimecmp \in {0, W * W - 1}
  /\ mtie = FALSE /\ mstatus_mie = FALSE
  /\ time_elapsed = 0 /\ time_increment = 0
  /\ mcycle \in FirstCycles /\ inhibit = FALSE /\ resetAt = Never
  /\ pc = [t \in Threads |-> "idle"]
  /\ loc = [t \in Threads |-> NoLocals]
  /\ calls = 0
  /\ deadline = mtimecmp /\ mixed = FALSE

\* What a thread does once it is inside a function of the library.
Inside(t) ==
  \/ ReadHigh(t) \/ ReadLow(t) \/ ReadAgain(t)
  \/ CompareMax(t) \/ CompareHigh(t) \/ CompareLow(t)

Main ==
  \/ Inside("main")
  \/ ClearElapsed \/ SetIncrement \/ EnableTimer \/ EnableGlobal
  \/ GetElapsed \/ Return
  \/ pcount_reset

Handler == Inside("handler") \/ HandlerReturns

Calls ==
  \/ CallTimerEnable \/ CallTimerRead \/ CallGetElapsed \/ CallPcountReset
  \/ timer_disable \/ pcount_enable

Next == Tick \/ Main \/ Handler \/ Interrupt \/ Calls

\* The clock runs, the processor goes on with what it has begun and takes an
\* interrupt that stays pending; the program need not call anything.
Fairness ==
  /\ WF_vars(Tick)
  /\ WF_vars(Main)
  /\ WF_vars(Handler)
  /\ WF_vars(Interrupt)

Spec == Init /\ [][Next]_vars /\ Fairness

-----------------------------------------------------------------------------
Labels == {"idle", "clear", "clear_high", "clear_low",
           "increment", "increment_high", "increment_low",
           "read_high", "read_low", "read_again", "read_done",
           "compare_max", "compare_high", "compare_low",
           "enable_timer", "enable_global",
           "elapsed", "elapsed_high", "elapsed_low", "elapsed_done",
           "cycle_low", "cycle_high", "count"}

Double == 0 .. W * W - 1

\* Types: the values of the library's variables and of the registers.
TTypeOK ==
  /\ mtime \in 0 .. EndOfTime /\ mtimecmp \in Double
  /\ mtie \in BOOLEAN /\ mstatus_mie \in BOOLEAN
  /\ time_elapsed \in Double /\ time_increment \in MixedIncrements
  /\ mcycle \in Double /\ inhibit \in BOOLEAN /\ resetAt \in 0 .. Never
  /\ pc \in [Threads -> Labels]
  /\ loc \in [Threads -> [base : MixedIncrements, high : 0 .. W - 1,
                          low : 0 .. W - 1, new : Double, began : Double]]
  /\ calls \in 0 .. MaxCalls /\ deadline \in Double /\ mixed \in BOOLEAN

\* timecmp_update never makes the timer ask early.  A request is due to the
\* deadline last written or to the one that is being written, unless the
\* handler has itself written one in the middle of main's update.
NoSpuriousInterrupt ==
  (Pending /\ ~mixed) =>
    \/ mtime >= deadline
    \/ \E t \in Threads : /\ pc[t] \in {"compare_high", "compare_low"}
                          /\ mtime >= loc[t].new

\* timer_read: the time it returns was on the clock during the call, though
\* the clock goes on and the handler runs between any two of its accesses.
TimeReadWithinCall ==
  pc["main"] = "read_done" => loc["main"].new \in loc["main"].began .. mtime

\* What main reads as two words is a value that held during the call, though
\* an interrupt or a carry may come between any two accesses: timer_read reads
\* the high word again; get_elapsed_time does not, and is right only as long as
\* no interrupt of the call carries into the high word.
ReadsWithinCall ==
  /\ TimeReadWithinCall
  /\ pc["main"] = "elapsed_done" =>
       \/ loc["main"].new \in loc["main"].began .. time_elapsed
       \/ Hi(time_elapsed) # Hi(loc["main"].began)

\* pcount_reset while the counter runs: with the low words first no carry from
\* before the reset survives in the high word.
PcountResetClean ==
  (resetAt # Never /\ pc["main"] # "cycle_high") => mcycle <= mtime - resetAt

Served(d) == deadline # d \/ ~mtie

\* A deadline that is set with interrupts enabled is served: the handler sets
\* the next one, unless the program sets another itself or disables the timer.
\* It may be lost only where the handler ran inside main's timecmp_update.  (At
\* the bound of the model's clock a handler with an increment of 0, the words of
\* two increments, would set the same deadline for ever.)
DeadlineServed ==
  \A d \in 0 .. EndOfTime - 1 :
    (mtie /\ mstatus_mie /\ deadline = d) ~> (Served(d) \/ mixed)

\* Of every deadline: once it has passed the timer asks for its interrupt, as
\* simple_system_common.h:62 promises the "Number of time ticks to count before
\* interrupt" (with the two words of a deadline from different updates it asks
\* up to W ticks later).
AsksAtDeadline ==
  (mtime >= deadline /\ \A t \in Threads : pc[t] \notin {"compare_high", "compare_low"})
    => Pending

=============================================================================
