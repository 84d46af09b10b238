---------------------------- MODULE Convolution ----------------------------
(***************************************************************************)
(* The sum an FIR filter computes, kept as the sequence of its products:   *)
(* y[n] = sum over i of tap[i] * x[n-i], where x[m] = 0 before the run.    *)
(***************************************************************************)
EXTENDS Integers, Sequences

\* The sample k places before the newest one of a; zero before the run.
Newest(a, k) == IF k < Len(a) THEN a[Len(a) - k] ELSE 0

\* The operands of the first n products of the output for the samples a.
ProductsOf(taps, a, n) == [i \in 1 .. n |-> <<Newest(a, i - 1), taps[i - 1]>>]
=============================================================================
