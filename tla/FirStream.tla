------------------------------ MODULE FirStream ------------------------------
(***************************************************************************)
(* What an FIR accelerator promises to its software, without a clock, a    *)
(* memory or a state machine: after a start it takes "length" samples, one *)
(* at a time, gives for each one the convolution of the samples so far     *)
(* with the taps, and is then done until that is acknowledged.             *)
(***************************************************************************)
EXTENDS Integers, Sequences, Convolution

CONSTANTS Tape_Num, Samples

VARIABLES phase, taps, length, accepted, emitted

svars == <<phase, taps, length, accepted, emitted>>

SInit == phase = "idle" /\ accepted = <<>> /\ emitted = <<>>

\* Software sets taps and length only while the accelerator is idle.
Configure ==
  /\ phase = "idle" /\ phase' = "idle"
  /\ accepted' = <<>> /\ emitted' = <<>>

Start ==
  /\ phase = "idle" /\ phase' = "running"
  /\ accepted' = <<>> /\ emitted' = <<>>
  /\ UNCHANGED <<taps, length>>

Accept ==
  /\ phase = "running"
  /\ Len(accepted) = Len(emitted) /\ Len(accepted) < length
  /\ \E d \in Samples : accepted' = Append(accepted, d)
  /\ UNCHANGED <<phase, taps, length, emitted>>

\* The last output of the run completes it.
Emit ==
  /\ phase = "running"
  /\ Len(accepted) = Len(emitted) + 1
  /\ emitted' = Append(emitted, ProductsOf(taps, accepted, Tape_Num))
  /\ phase' = IF Len(accepted) = length THEN "done" ELSE "running"
  /\ UNCHANGED <<taps, length, accepted>>

Acknowledge ==
  /\ phase = "done" /\ phase' = "idle"
  /\ UNCHANGED <<taps, length, accepted, emitted>>

\* A reset abandons the run, whatever its phase.
Abandon == phase' = "idle" /\ accepted' = <<>> /\ emitted' = <<>>

SNext == Configure \/ Start \/ Accept \/ Emit \/ Acknowledge \/ Abandon

SSpec == SInit /\ [][SNext]_svars
=============================================================================
