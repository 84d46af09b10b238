------------------------------- MODULE UserBram -------------------------------
(***************************************************************************)
(* The program memory of the user area: rtl/user/user_project_bram.v and   *)
(* rtl/user/bram.v behind the delay of the wrapper.  A step is one rising  *)
(* edge of the clock.  The accelerator, in the other window, is reduced to *)
(* an acknowledge that comes on some edge at which ready is high, as the   *)
(* bridge gives it; it leaves count where the program memory finds it.     *)
(***************************************************************************)
EXTENDS Wrapper

CONSTANTS
  N,           \* the memory has 2^N words: 10 in the code
  Addresses,   \* the byte addresses used, all of words
  Lanes,       \* the bytes of a word
  Bytes,       \* the values of a byte
  Garbage      \* the byte the memory holds at power-up

ASSUME UserBramAssumption ==
  /\ N \in Nat
  /\ \A a \in Addresses : a \in Nat /\ a % 4 = 0
  /\ 0 \in Bytes /\ Garbage \in Bytes

VARIABLES
  RAM, Do0,
  we, sel, adr, dat,   \* the request, with cyc
  memory,              \* history: what a memory without aliases would hold
  waited               \* history: the cycles this fetch has taken

request == <<cyc, we, sel, adr, dat>>
vars == <<wrapper, axi_ack, request, RAM, Do0, memory, waited>>

Word == [Lanes -> Bytes]
Fill(b) == [l \in Lanes |-> b]

\* The byte address is used as an index: A0[N-1:0] with its two low bits.
SlotOf(a) == a % 2 ^ N

WE0 == IF we THEN sel ELSE {}            \* wbs_sel_i & {4{wbs_we_i}}
Written(w) == [l \in Lanes |-> IF l \in WE0 THEN dat[l] ELSE w[l]]

\* The memory reads what it holds before the write, and writes again on each
\* edge that the request lasts.
Memory ==
  IF user_project_bram_enable
  THEN /\ Do0' = RAM[SlotOf(adr)]
       /\ RAM' = [RAM EXCEPT ![SlotOf(adr)] = Written(@)]
  ELSE Do0' = Fill(0) /\ UNCHANGED RAM

History ==
  /\ memory' = IF user_project_bram_enable
               THEN [memory EXCEPT ![adr] =
                       [l \in Lanes |-> IF we /\ l \in sel THEN dat[l] ELSE @[l]]]
               ELSE memory
  /\ waited' = IF ~user_project_bram_enable \/ wbs_ack_o THEN 0 ELSE waited + 1

\* The bridge acknowledges for one cycle, after ready and a handshake.
BridgeAck == axi_ack' \in {FALSE, axi_enable /\ ready /\ ~axi_ack}

Edge == WrapperStep /\ BridgeAck /\ Memory /\ History

-----------------------------------------------------------------------------
(* The bus master: fetches and accesses to the program memory may follow   *)
(* each other, an access to the accelerator leaves a cycle after itself.   *)

NoRequest ==
  /\ cyc' = "none" /\ we' = FALSE /\ sel' = {} /\ adr' = 0 /\ dat' = Fill(0)

Idles == cyc = "none" /\ NoRequest

Accelerator ==
  /\ cyc = "none"
  /\ cyc' = "axi" /\ UNCHANGED <<we, sel, adr, dat>>

Read ==
  /\ cyc = "none" \/ (cyc = "bram" /\ wbs_ack_o)
  /\ cyc' = "bram" /\ we' = FALSE /\ sel' = Lanes /\ dat' = Fill(0)
  /\ adr' \in Addresses

\* A word, or one byte of it.
Write ==
  /\ cyc = "none" \/ (cyc = "bram" /\ wbs_ack_o)
  /\ cyc' = "bram" /\ we' = TRUE
  /\ sel' \in {Lanes} \cup {{l} : l \in Lanes}
  /\ dat' \in {Fill(b) : b \in Bytes}
  /\ adr' \in Addresses

Waits == cyc # "none" /\ ~wbs_ack_o /\ UNCHANGED request

Ends == cyc # "none" /\ wbs_ack_o /\ NoRequest

Master == Idles \/ Accelerator \/ Read \/ Write \/ Waits \/ Ends

Init ==
  /\ WrapperInit /\ axi_ack = FALSE
  /\ cyc = "none" /\ we = FALSE /\ sel = {} /\ adr = 0 /\ dat = Fill(0)
  /\ RAM = [s \in {SlotOf(a) : a \in Addresses} |-> Fill(Garbage)]
  /\ Do0 = Fill(0)
  /\ memory = [a \in Addresses |-> Fill(Garbage)]
  /\ waited = 0

\* The bus is idle while the reset lasts; the memory has no reset.
Reset ==
  /\ WrapperReset /\ axi_ack' = FALSE
  /\ NoRequest
  /\ Memory
  /\ memory' = IF user_project_bram_enable
               THEN [memory EXCEPT ![adr] = Written(@)] ELSE memory
  /\ waited' = 0

Next == (Edge /\ Master) \/ Reset

Spec == Init /\ [][Next]_vars

-----------------------------------------------------------------------------

\* A read is answered with what was last written to its address, byte by byte,
\* whatever was accessed before it and however long the delay of that access
\* still counts: no acknowledge is left over from another request, and the
\* word on the port is that of this address.
ReadsLastWrite ==
  cyc = "bram" /\ wbs_ack_o /\ ~we => Do0 = memory[adr]

\* Every access to the program memory takes the delay and one more cycle, or
\* one less than that after an access to the accelerator, whose long request
\* has already counted one.
AnswersOnTime ==
  /\ waited <= DELAYS + 1
  /\ cyc = "bram" /\ wbs_ack_o => waited >= DELAYS
=============================================================================
