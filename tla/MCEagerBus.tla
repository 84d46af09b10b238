------------------------------ MODULE MCEagerBus ------------------------------
(* The user project under software that reads d_out without polling: the    *)
(* computation of twelve taps, the most for which AnswersInTime is true,     *)
(* outlasts the shortest delay, so that the bus waits for the engine.        *)
EXTENDS UserProject

MCSamples == {1, 2}
MCTaps == {}
MCLengths == {2}
MCGarbage == {9}
=============================================================================
