------------------------------- MODULE Wrapper -------------------------------
(***************************************************************************)
(* The Wishbone slave of rtl/user/user_project_interface.v: it decodes the *)
(* two windows of the user area, the program memory and the accelerator,   *)
(* delays every transaction, and chooses the acknowledge.  The request is  *)
(* cyc, the window that wbs_adr_i decodes to while the master drives       *)
(* wbs_cyc_i and wbs_stb_i; axi_ack is the acknowledge of the bridge.      *)
(***************************************************************************)
EXTENDS Integers

CONSTANT DELAYS       \* the cycles a transaction waits: 10 in the code

\* count has 4 bits.
ASSUME WrapperAssumption == DELAYS \in 0 .. 15

VARIABLES cyc, count, ready, axi_ack

wrapper == <<count, ready>>

axi_enable == cyc = "axi"
user_project_bram_enable == cyc = "bram"
valid == axi_enable \/ user_project_bram_enable
user_project_bram_ack == ready
wbs_ack_o == IF user_project_bram_enable THEN user_project_bram_ack
             ELSE axi_enable /\ axi_ack

WrapperInit == count = 0 /\ ready = FALSE
WrapperReset == count' = 0 /\ ready' = FALSE

\* Fault: the count goes on when it has reached the delay.
WrapperCountsOn ==
  /\ ready' = \/ valid /\ ~ready /\ count = DELAYS
              \/ ready /\ ~(user_project_bram_ack \/ axi_ack)
  /\ count' = IF valid /\ ~ready THEN (count + 1) % 16 ELSE count

\* Fault: ready is held until the acknowledge of the bridge.
WrapperHoldsReady ==
  /\ ready' = ((valid /\ ~ready /\ count = DELAYS) \/ (ready /\ ~axi_ack))
  /\ count' = IF valid /\ ~ready
              THEN IF count = DELAYS THEN 0 ELSE (count + 1) % 16
              ELSE count

\* ready is a pulse of one cycle: as the acknowledge of the program memory is
\* ready itself, whatever is accessed, nothing ever holds it.  A handshake
\* made after the pulse waits for the next one.
WrapperStep ==
  /\ ready' = \/ valid /\ ~ready /\ count = DELAYS
              \/ ready /\ ~(user_project_bram_ack \/ axi_ack)
  /\ count' = IF valid /\ ~ready
              THEN IF count = DELAYS THEN 0 ELSE (count + 1) % 16
              ELSE count
=============================================================================
