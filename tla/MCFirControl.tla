---------------------------- MODULE MCFirControl ----------------------------
(* The firmware for TLC: two calls of fir() with distinct taps and changing *)
(* samples, more samples than taps, and a computation that outlasts the     *)
(* delay, so that the engine is not ready when the status is read first,    *)
(* after the start and after a sample.                                      *)
EXTENDS FirControl

MCSamples == {1, 2, 3}
MCTaps == 4 .. 10
MCLengths == {N}
MCGarbage == {9}
MCInputSignal == [k \in 0 .. N - 1 |-> 1 + (k % 3)]
MCTapValues == [k \in Index |-> 4 + k]
=============================================================================
