----------------------------- MODULE CounterLaFir -----------------------------
(***************************************************************************)
(* The end-to-end test testbench/counter_la_fir: what the firmware writes  *)
(* to the upper half of reg_mprj_datal (main in counter_la_fir.c and the   *)
(* marks of fir() in fir_control.c), and the two processes of              *)
(* counter_la_fir_tb.v that watch it on the pins as checkbits.             *)
(*                                                                         *)
(* A process of the testbench goes on as soon as its condition holds, in   *)
(* zero time, so it runs before the next clock edge.  The firmware writes  *)
(* at most one value per edge, as the pins change only with the last byte  *)
(* of a word.  The outputs of fir() are those FirControl proves it stores, *)
(* here with the values of the code.                                       *)
(***************************************************************************)
EXTENDS Integers, FiniteSetsExt

VARIABLES
  pc, call, k,      \* main: where it is, the calls of fir() done, its loop
  checkbits,        \* mprj_io[31:16]
  tb, pat_cnt, i,   \* the process that checks the outputs
  lat, iter         \* the process that counts the latency of fir()

main == <<pc, call, k>>
checker == <<tb, pat_cnt, i>>
latency == <<lat, iter>>
vars == <<main, checkbits, checker, latency>>

Undriven == -1            \* before the pins are configured
N == 64
Patterns == 3
Low(w) == w % 256         \* checkbits[7:0]

-----------------------------------------------------------------------------
(* The values.                                                             *)

\* What fir() writes as taps and samples.
fir_taps == [j \in 0 .. 10 |->
  CASE j \in {1, 9} -> -10 [] j \in {2, 8} -> -9 [] j \in {3, 7} -> 23
    [] j \in {4, 6} -> 56  [] j = 5 -> 63        [] OTHER -> 0]
inputsignal == [n \in 0 .. N - 1 |-> 1]

\* What the testbench computes on its own.
taps == [j \in 0 .. 10 |->
  CASE j \in {0, 10} -> 0 [] j \in {1, 9} -> -10 [] j \in {2, 8} -> -9
    [] j \in {3, 7} -> 23 [] j \in {4, 6} -> 56  [] j = 5 -> 63]
data_in == [n \in 0 .. N - 1 |-> 1]

Convolve(h, x, n) ==
  MapThenSumSet(LAMBDA j : x[n - j] * h[j], {j \in 0 .. 10 : n - j >= 0})

outputsignal == [n \in 0 .. N - 1 |-> Convolve(fir_taps, inputsignal, n)]
golden_ans == [n \in 0 .. N - 1 |-> Convolve(taps, data_in, n)]

\* A word shifted left by 16 shows its lower half on the pins.
Shown(w) == w % 65536

-----------------------------------------------------------------------------
(* The firmware: one action per write of reg_mprj_datal.                   *)

FlagStart ==
  /\ pc = "boot" /\ pc' = "call"
  /\ checkbits' = 43840                                     \* 16'hAB40
  /\ UNCHANGED <<call, k>>

\* Fault: the pins are cleared at the start.
StartMarkCleared ==
  /\ pc = "call" /\ pc' = "fir"
  /\ checkbits' = 0
  /\ UNCHANGED <<call, k>>

StartMark ==
  /\ pc = "call" /\ pc' = "fir"
  /\ checkbits' = 165                                       \* 8'hA5
  /\ UNCHANGED <<call, k>>

\* Fault: the mark is written to the upper byte.
EndMarkInUpperByte ==
  /\ pc = "fir" /\ pc' = "print"
  /\ checkbits' = 256 * 90 + (outputsignal[N - 1] % 256)
  /\ UNCHANGED <<call, k>>

\* The upper byte is that of the logical "and" of the mask and the output.
EndMark ==
  /\ pc = "fir" /\ pc' = "print"
  /\ checkbits' = 256 * (IF outputsignal[N - 1] # 0 THEN 1 ELSE 0)
                  + 90                                      \* 8'h5A
  /\ UNCHANGED <<call, k>>

\* Fault: the loop is one output ahead.
PrintNext ==
  /\ pc = "print"
  /\ checkbits' = Shown(outputsignal[(k + 1) % N])
  /\ IF k < N - 1
     THEN k' = k + 1 /\ UNCHANGED <<pc, call>>
     ELSE /\ k' = 0 /\ call' = call + 1
          /\ pc' = IF call' = Patterns THEN "flag_end" ELSE "call"

PrintOutput ==
  /\ pc = "print"
  /\ checkbits' = Shown(outputsignal[k])
  /\ IF k < N - 1
     THEN k' = k + 1 /\ UNCHANGED <<pc, call>>
     ELSE /\ k' = 0 /\ call' = call + 1
          /\ pc' = IF call' = Patterns THEN "flag_end" ELSE "call"

FlagEnd ==
  /\ pc = "flag_end" /\ pc' = "done"
  /\ checkbits' = 43857                                     \* 16'hAB51
  /\ UNCHANGED <<call, k>>

Writes ==
  FlagStart \/ StartMark \/ EndMark \/ PrintOutput \/ FlagEnd

-----------------------------------------------------------------------------
(* The testbench.                                                          *)

TestStarts ==
  /\ tb = "start" /\ checkbits = 43840
  /\ tb' = "output"
  /\ UNCHANGED <<pat_cnt, i>>

\* wait(checkbits == golden_ans[i][15:0]): the level is looked at, so that an
\* output equal to the one before it is found at once.
OutputPasses ==
  /\ tb = "output" /\ checkbits = Shown(golden_ans[i])
  /\ IF i < N - 1
     THEN i' = i + 1 /\ UNCHANGED <<tb, pat_cnt>>
     ELSE /\ i' = 0 /\ pat_cnt' = pat_cnt + 1
          /\ tb' = IF pat_cnt' = Patterns THEN "end" ELSE "output"

TestPasses ==
  /\ tb = "end" /\ checkbits = 43857
  /\ tb' = "passed"
  /\ UNCHANGED <<pat_cnt, i>>

LatencyStarts ==
  /\ lat = "waits" /\ Low(checkbits) = 165
  /\ lat' = "counts"
  /\ UNCHANGED iter

\* Sampled at each rising edge of the clock, before the pins change.
LatencyCounts ==
  IF lat = "counts" /\ Low(checkbits) = 90
  THEN /\ iter' = iter + 1
       /\ lat' = IF iter' = Patterns THEN "stopped" ELSE "waits"
  ELSE UNCHANGED latency

Testbench ==
  \/ (TestStarts \/ OutputPasses \/ TestPasses) /\ UNCHANGED latency
  \/ LatencyStarts /\ UNCHANGED checker

\* The guards of the processes that wait.
TestbenchReady ==
  \/ tb = "start" /\ checkbits = 43840
  \/ tb = "output" /\ checkbits = Shown(golden_ans[i])
  \/ tb = "end" /\ checkbits = 43857
  \/ lat = "waits" /\ Low(checkbits) = 165

Edge(firmware) ==
  /\ ~TestbenchReady
  /\ firmware
  /\ LatencyCounts
  /\ UNCHANGED checker

-----------------------------------------------------------------------------

Init ==
  /\ pc = "boot" /\ call = 0 /\ k = 0
  /\ checkbits = Undriven
  /\ tb = "start" /\ pat_cnt = 0 /\ i = 0
  /\ lat = "waits" /\ iter = 0

Next ==
  \/ Testbench /\ UNCHANGED <<main, checkbits>>
  \/ Edge(Writes)
  \/ Edge(UNCHANGED <<main, checkbits>>)

\* The testbench runs in zero time, and main goes on: every call of fir()
\* returns (FirControl!Terminates).
Spec ==
  /\ Init /\ [][Next]_vars
  /\ WF_vars(Testbench /\ UNCHANGED <<main, checkbits>>)
  /\ WF_vars(Edge(Writes))

-----------------------------------------------------------------------------

Reported == N * pat_cnt + i        \* outputs reported as passed
Printed == N * call + k            \* outputs written to the pins

\* The checker never misses an output, although the pins hold it only until
\* the next write: when the testbench has run, all outputs printed so far are
\* reported, and no output of a call is reported before the call returned.
ChecksInStep ==
  /\ ~TestbenchReady => Reported >= Printed
  /\ pat_cnt > call => pc = "print" /\ k > 0
  /\ pat_cnt = call /\ i > 0 => pc = "print" /\ k > 0

\* The latency that is counted is that of fir(): neither an output nor a flag
\* has the byte of a mark, and the end mark is up for a clock edge.
LatencyIsOfFir ==
  ~TestbenchReady =>
    /\ lat = "counts" <=> \/ pc = "fir"
                          \/ pc = "print" /\ k = 0 /\ iter = call
    /\ pc \in {"boot", "call", "flag_end", "done"} => iter = call

\* The test passes, and only when main is done.
TestPassesInTheEnd == <>[](tb = "passed" /\ pc = "done" /\ lat = "stopped")
=============================================================================
