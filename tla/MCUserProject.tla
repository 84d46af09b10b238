---------------------------- MODULE MCUserProject ----------------------------
(* The user project for TLC: a computation of five taps outlasts an access   *)
(* with a delay of three cycles, so that software has to poll.              *)
EXTENDS UserProject

MCSamples == {1}
MCTaps == {3}
MCLengths == {2}
MCGarbage == {9}
=============================================================================
