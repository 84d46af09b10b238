----------------------------- MODULE FirControl -----------------------------
(***************************************************************************)
(* The firmware of testbench/counter_la_fir (fir_control.c, and the calls  *)
(* of main in counter_la_fir.c) on the user project: one step per rising   *)
(* edge of the clock, in which the program waits, fetches its instructions *)
(* from the program memory, or starts or completes its next access to the  *)
(* accelerator.  How many cycles pass between two accesses is left open.   *)
(***************************************************************************)
EXTENDS UserProject

CONSTANTS
  N,            \* the samples of a run: 64 in the code
  InputSignal,  \* inputsignal[0..N-1]: all ones in the code
  TapValues,    \* taps_0, taps_1, ...
  Calls,        \* how often main calls fir: three times in the code
  MaxResets     \* bound: the resets while the program runs

ASSUME FirControlAssumption ==
  /\ N \in Nat \ {0}
  /\ InputSignal \in [0 .. N - 1 -> Samples]
  /\ TapValues \in [Index -> Taps]
  /\ Calls \in Nat \ {0}
  /\ MaxResets \in Nat
  /\ N \in Lengths
  /\ PollsForOutput

VARIABLES
  pc,            \* the access fir() makes next, or that main is done
  i,             \* the loop variable of fir()
  outputsignal,  \* the outputs stored in this call
  calls,         \* the calls of fir() that returned
  resets         \* the resets so far

local == <<pc, i, outputsignal, calls>>
cvars == <<uvars, local, resets>>

ReadyToSend(w) == (w \div 16) % 2 = 1     \* config[4]
ReadyToFetch(w) == (w \div 32) % 2 = 1    \* config[5]

\* The access at each place of fir().
Request ==
  CASE pc = "taps" -> WriteOf(TapAddr(i), TapValues[i])
    [] pc = "datalength" -> WriteOf(LenAddr, N)
    [] pc = "start" -> WriteOf(CtrlAddr, 1)
    [] pc = "d_in" -> WriteOf(DinAddr, InputSignal[i])
    [] pc = "d_out" -> ReadOf(DoutAddr)
    [] OTHER -> ReadOf(CtrlAddr)

\* Fault: a sample is sent whatever the status says.
LoopSendsAtOnce(k) == IF k = N THEN "last_config" ELSE "d_in"

\* Fault: one sample too few.
LoopEndsEarly(k) ==
  IF k = N - 1 THEN "last_config"
  ELSE IF ReadyToSend(program_config') THEN "d_in" ELSE "poll_send"

\* Where fir() goes when the access is over; program_config' is the status
\* word it tests, read now or earlier.
Loop(k) == IF k = N THEN "last_config"
           ELSE IF ReadyToSend(program_config') THEN "d_in" ELSE "poll_send"

Return ==
  /\ calls' = calls + 1
  /\ pc' = IF calls' = Calls THEN "returned" ELSE "taps"
  /\ i' = 0 /\ UNCHANGED outputsignal

Proceed ==
  \/ /\ pc = "taps"
     /\ IF i = LastIndex THEN pc' = "datalength" /\ i' = 0
        ELSE pc' = "taps" /\ i' = i + 1
     /\ UNCHANGED <<outputsignal, calls>>
  \/ /\ pc = "datalength"
     /\ pc' = "start" /\ outputsignal' = <<>>      \* initfir()
     /\ UNCHANGED <<i, calls>>
  \/ /\ pc = "start"
     /\ pc' = "first_config"
     /\ UNCHANGED <<i, outputsignal, calls>>
  \/ /\ pc \in {"first_config", "poll_send"}
     /\ pc' = Loop(i)
     /\ UNCHANGED <<i, outputsignal, calls>>
  \/ /\ pc \in {"d_in", "poll_fetch"}
     /\ pc' = IF ReadyToFetch(program_config') THEN "d_out" ELSE "poll_fetch"
     /\ UNCHANGED <<i, outputsignal, calls>>
  \/ /\ pc = "d_out"
     /\ outputsignal' = Append(outputsignal, read_data)
     /\ i' = i + 1
     /\ pc' = Loop(i')
     /\ UNCHANGED calls
  \/ pc = "last_config" /\ Return

-----------------------------------------------------------------------------

CInit ==
  /\ UInit
  /\ pc = "taps" /\ i = 0 /\ outputsignal = <<>> /\ calls = 0 /\ resets = 0

\* Between two accesses the program computes, or fetches instructions.
Computes ==
  /\ MasterIdles \/ Fetch \/ MasterWaits
  /\ Edge
  /\ UNCHANGED <<local, resets>>

EndsBurst ==
  /\ FetchEnds
  /\ Edge
  /\ UNCHANGED <<local, resets>>

StartsAccess ==
  /\ pc # "returned"
  /\ Access(Request)
  /\ Edge
  /\ UNCHANGED <<local, resets>>

CompletesAccess ==
  /\ AccessEnds /\ Proceed
  /\ Edge
  /\ UNCHANGED resets

\* A reset restarts the program from the beginning.
Restart ==
  /\ resets < MaxResets /\ resets' = resets + 1
  /\ UReset
  /\ pc' = "taps" /\ i' = 0 /\ outputsignal' = <<>> /\ calls' = 0

CNext == Computes \/ EndsBurst \/ StartsAccess \/ CompletesAccess \/ Restart

(***************************************************************************)
(* The clock runs; a burst of fetches ends (it fills one cache line); and  *)
(* the instructions between two accesses are finitely many.                *)
(***************************************************************************)
Fairness ==
  /\ WF_cvars(Computes \/ EndsBurst \/ StartsAccess \/ CompletesAccess)
  /\ SF_cvars(EndsBurst)
  /\ SF_cvars(StartsAccess)

CSpec == CInit /\ [][CNext]_cvars /\ Fairness

-----------------------------------------------------------------------------
(* What the firmware gets.                                                 *)

\* The program keeps the rule of UserProject: it sends, fetches, configures
\* and starts only when the status it has seen allows it.
KeepsTheRule == USpec

\* Every output fir() has stored is the convolution of the program's samples
\* and taps, in every call, after resets, and however the polls fall.
Expected(j) ==
  ProductsOf(TapValues, [k \in 1 .. j |-> InputSignal[k - 1]], Tape_Num)
StoresConvolution ==
  \A j \in 1 .. Len(outputsignal) : outputsignal[j] = Expected(j)

\* A call returns only when it has stored N outputs and has left the engine
\* idle, or about to be, for the taps of the next call.
ReturnsComplete ==
  [][calls' > calls => /\ Len(outputsignal) = N
                       /\ current_state = "S_IDLE" /\ ~ap_start]_cvars

\* No poll waits for ever: all calls return.
Terminates == <>(pc = "returned")
=============================================================================
