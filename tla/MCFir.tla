-------------------------------- MODULE MCFir --------------------------------
(* The FIR engine with a small tape for TLC: three taps and runs of up to   *)
(* four samples, so that the circular data memory wraps within a run.       *)
EXTENDS Fir

MCSamples == {1, 2}
MCTaps == {3}
MCLengths == {1, 4}
MCGarbage == {9}
=============================================================================
