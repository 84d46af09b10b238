---------------------------- MODULE MCSimpleTimer ----------------------------
(* Words of three values; the timer and the cycle counter both carry.  The *)
(* increments 1 and 3 have different high words and different low words,   *)
(* so that between the two stores of one over the other the handler finds  *)
(* 0 or 4.                                                                 *)
EXTENDS SimpleTimer

MCIncrements == {1, 3}
MCFirstCycles == {2}
=============================================================================
