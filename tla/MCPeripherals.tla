---------------------------- MODULE MCPeripherals ----------------------------
(* A queue of one word behind its output register; a string   *)
(* that does not fit; words of four bytes, of two values each.             *)
EXTENDS Peripherals

MCTexts == {<<97, 10>>}
MCLengths == {0, 2, 8}

Arrays(size, cnt) == {<<size, b>> : b \in [0 .. cnt - 1 -> 0 .. 2 ^ size - 1]}

MCBuffers ==
  UNION {Arrays(1, cnt) : cnt \in 1 .. 5} \cup Arrays(1, 8)
    \cup Arrays(2, 1) \cup Arrays(2, 2) \cup Arrays(2, 3)
    \cup Arrays(4, 1) \cup Arrays(4, 2) \cup Arrays(8, 1)
=============================================================================
