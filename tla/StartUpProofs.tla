---------------------------- MODULE StartUpProofs ----------------------------
(***************************************************************************)
(* The start-up for any words that main writes to the pads, and whatever   *)
(* the SPI master outside reads meanwhile.                                 *)
(***************************************************************************)
EXTENDS StartUp, TLAPS

-----------------------------------------------------------------------------
(* main, access by access.                                                 *)

Accesses == [we : BOOLEAN, addr : Nat, word : SUBSET (0 .. 31)]

\* Two parts of main, one after the other.
Then(s, t) == s \o t

\* u is s, of length m, and then t, of length n.
Joins(u, s, m, t, n) ==
  /\ u \in Seq(Accesses) /\ Len(u) = m + n
  /\ \A i \in 1 .. m : u[i] = s[i]
  /\ \A i \in m + 1 .. m + n : u[i] = t[i - m]

LEMMA ThenJoins ==
  ASSUME NEW s \in Seq(Accesses), NEW t \in Seq(Accesses), NEW m \in Nat, NEW n \in Nat,
         Len(s) = m, Len(t) = n
  PROVE  Joins(Then(s, t), s, m, t, n)
<1>1. /\ s \o t \in Seq(Accesses) /\ Len(s \o t) = m + n
      /\ \A i \in 1 .. m : (s \o t)[i] = s[i]
  OBVIOUS
<1>2. \A j \in 1 .. n : (s \o t)[m + j] = t[j]
  OBVIOUS
<1>3. ASSUME NEW i \in m + 1 .. m + n
      PROVE  (s \o t)[i] = t[i - m]
  <2>1. i - m \in 1 .. n /\ m + (i - m) = i
    OBVIOUS
  <2>2. (s \o t)[m + (i - m)] = t[i - m]
    BY <1>2, <2>1
  <2> QED
    BY <2>1, <2>2
<1> QED
  BY <1>1, <1>3, Zenon DEF Then, Joins

LEMMA ConfigureFacts ==
  ASSUME NEW first \in 0 .. 31, NEW last \in 0 .. 31, last <= first,
         NEW mode \in SUBSET (0 .. 31)
  PROVE  /\ Configure(first, last, mode) \in Seq(Accesses)
         /\ Len(Configure(first, last, mode)) = first - last + 1
  BY DEF Configure, Store, reg_mprj_io, Accesses

\* The parts of main.
Part1 == Configure(31, 16, GPIO_MODE_MGMT_STD_OUTPUT)
Part2 == Then(Part1, Configure(15, 7, GPIO_MODE_USER_STD_OUTPUT))
Part3 == Then(Part2, Configure(5, 0, GPIO_MODE_USER_STD_OUTPUT))
Part4 == Then(Part3, Configure(6, 6, GPIO_MODE_MGMT_STD_OUTPUT))
Transfer == <<Store(reg_mprj_xfer, {0}), WaitWhile(reg_mprj_xfer),
              Store(reg_mprj_datal, StartMark)>>
Part5 == Then(Part4, Transfer)
Part6 == Then(Part5, OutputStores)
LastStore == <<Store(reg_mprj_datal, EndMark)>>

LEMMA MainParts == main = Then(Part6, LastStore)
  BY DEF main, Then, Part1, Part2, Part3, Part4, Part5, Part6, Transfer, LastStore

LEMMA Modes ==
  /\ GPIO_MODE_MGMT_STD_OUTPUT \in SUBSET (0 .. 31)
  /\ GPIO_MODE_USER_STD_OUTPUT \in SUBSET (0 .. 31)
  BY DEF GPIO_MODE_MGMT_STD_OUTPUT, GPIO_MODE_USER_STD_OUTPUT

\* The parts that give the pads their modes.
LEMMA ConfigureParts ==
  /\ Part1 \in Seq(Accesses) /\ Len(Part1) = 16
  /\ Configure(15, 7, GPIO_MODE_USER_STD_OUTPUT) \in Seq(Accesses)
  /\ Len(Configure(15, 7, GPIO_MODE_USER_STD_OUTPUT)) = 9
  /\ Configure(5, 0, GPIO_MODE_USER_STD_OUTPUT) \in Seq(Accesses)
  /\ Len(Configure(5, 0, GPIO_MODE_USER_STD_OUTPUT)) = 6
  /\ Configure(6, 6, GPIO_MODE_MGMT_STD_OUTPUT) \in Seq(Accesses)
  /\ Len(Configure(6, 6, GPIO_MODE_MGMT_STD_OUTPUT)) = 1
<1>1. /\ 31 \in 0 .. 31 /\ 16 \in 0 .. 31 /\ 16 <= 31 /\ 31 - 16 + 1 = 16
      /\ 15 \in 0 .. 31 /\ 7 \in 0 .. 31 /\ 7 <= 15 /\ 15 - 7 + 1 = 9
      /\ 5 \in 0 .. 31 /\ 0 \in 0 .. 31 /\ 0 <= 5 /\ 5 - 0 + 1 = 6
      /\ 6 \in 0 .. 31 /\ 6 <= 6 /\ 6 - 6 + 1 = 1
  OBVIOUS
<1>2. Part1 \in Seq(Accesses) /\ Len(Part1) = 31 - 16 + 1
  BY <1>1, Modes, ConfigureFacts, Zenon DEF Part1
<1>3. /\ Configure(15, 7, GPIO_MODE_USER_STD_OUTPUT) \in Seq(Accesses)
      /\ Len(Configure(15, 7, GPIO_MODE_USER_STD_OUTPUT)) = 15 - 7 + 1
  BY <1>1, Modes, ConfigureFacts, Zenon
<1>4. /\ Configure(5, 0, GPIO_MODE_USER_STD_OUTPUT) \in Seq(Accesses)
      /\ Len(Configure(5, 0, GPIO_MODE_USER_STD_OUTPUT)) = 5 - 0 + 1
  BY <1>1, Modes, ConfigureFacts, Zenon
<1>5. /\ Configure(6, 6, GPIO_MODE_MGMT_STD_OUTPUT) \in Seq(Accesses)
      /\ Len(Configure(6, 6, GPIO_MODE_MGMT_STD_OUTPUT)) = 6 - 6 + 1
  BY <1>1, Modes, ConfigureFacts, Zenon
<1> QED
  BY <1>1, <1>2, <1>3, <1>4, <1>5, Zenon

LEMMA ConfigureStores ==
  /\ \A i \in 1 .. 16 : Part1[i] = Store(reg_mprj_io(32 - i), GPIO_MODE_MGMT_STD_OUTPUT)
  /\ \A i \in 1 .. 9 : Configure(15, 7, GPIO_MODE_USER_STD_OUTPUT)[i]
                         = Store(reg_mprj_io(16 - i), GPIO_MODE_USER_STD_OUTPUT)
  /\ \A i \in 1 .. 6 : Configure(5, 0, GPIO_MODE_USER_STD_OUTPUT)[i]
                         = Store(reg_mprj_io(6 - i), GPIO_MODE_USER_STD_OUTPUT)
  /\ Configure(6, 6, GPIO_MODE_MGMT_STD_OUTPUT)[1]
       = Store(reg_mprj_io(6), GPIO_MODE_MGMT_STD_OUTPUT)
<1>1. ASSUME NEW i \in 1 .. 16
      PROVE  Part1[i] = Store(reg_mprj_io(32 - i), GPIO_MODE_MGMT_STD_OUTPUT)
  BY DEF Part1, Configure
<1>2. ASSUME NEW i \in 1 .. 9
      PROVE  Configure(15, 7, GPIO_MODE_USER_STD_OUTPUT)[i]
               = Store(reg_mprj_io(16 - i), GPIO_MODE_USER_STD_OUTPUT)
  BY DEF Configure
<1>3. ASSUME NEW i \in 1 .. 6
      PROVE  Configure(5, 0, GPIO_MODE_USER_STD_OUTPUT)[i]
               = Store(reg_mprj_io(6 - i), GPIO_MODE_USER_STD_OUTPUT)
  BY DEF Configure
<1>4. Configure(6, 6, GPIO_MODE_MGMT_STD_OUTPUT)[1]
        = Store(reg_mprj_io(6), GPIO_MODE_MGMT_STD_OUTPUT)
  BY DEF Configure
<1> QED
  BY <1>1, <1>2, <1>3, <1>4, Zenon

\* The rest of main.
LEMMA OtherParts ==
  /\ Transfer \in Seq(Accesses) /\ Len(Transfer) = 3
  /\ Transfer[1] = Store(reg_mprj_xfer, {0})
  /\ Transfer[2] = WaitWhile(reg_mprj_xfer)
  /\ Transfer[3].we /\ Transfer[3].addr = reg_mprj_datal
  /\ OutputStores \in Seq(Accesses) /\ Len(OutputStores) = Len(Outputs)
  /\ Len(Outputs) \in Nat
  /\ \A i \in 1 .. Len(Outputs) :
       OutputStores[i].we /\ OutputStores[i].addr = reg_mprj_datal
  /\ LastStore \in Seq(Accesses) /\ Len(LastStore) = 1
  /\ LastStore[1].we /\ LastStore[1].addr = reg_mprj_datal
<1>1. /\ Transfer \in Seq(Accesses) /\ Len(Transfer) = 3
      /\ Transfer[1] = Store(reg_mprj_xfer, {0})
      /\ Transfer[2] = WaitWhile(reg_mprj_xfer)
      /\ Transfer[3].we /\ Transfer[3].addr = reg_mprj_datal
  BY DEF Transfer, Store, WaitWhile, reg_mprj_xfer, reg_mprj_datal, StartMark, Accesses
<1>2. /\ LastStore \in Seq(Accesses) /\ Len(LastStore) = 1
      /\ LastStore[1].we /\ LastStore[1].addr = reg_mprj_datal
  BY DEF LastStore, Store, reg_mprj_datal, EndMark, Accesses
<1>3. Outputs \in Seq(SUBSET (16 .. 31)) /\ DOMAIN Outputs = 1 .. Len(Outputs)
      /\ Len(Outputs) \in Nat
  BY OutputsAssumption
<1>4. ASSUME NEW i \in 1 .. Len(Outputs) PROVE Outputs[i] \in SUBSET (0 .. 31)
  <2>1. Outputs[i] \in SUBSET (16 .. 31)
    BY <1>3
  <2> QED
    BY <2>1
<1>5. OutputStores = [i \in 1 .. Len(Outputs) |-> Store(reg_mprj_datal, Outputs[i])]
  BY <1>3 DEF OutputStores
<1>6. \A i \in 1 .. Len(Outputs) : Store(reg_mprj_datal, Outputs[i]) \in Accesses
  BY <1>4 DEF Store, Accesses, reg_mprj_datal
<1>7. \A i \in 1 .. Len(Outputs) :
        OutputStores[i].we /\ OutputStores[i].addr = reg_mprj_datal
  BY <1>5 DEF Store
<1>8. OutputStores \in Seq(Accesses) /\ Len(OutputStores) = Len(Outputs)
  BY <1>3, <1>5, <1>6
<1> QED
  BY <1>1, <1>2, <1>3, <1>7, <1>8, Zenon

LEMMA Joints ==
  /\ Joins(Part2, Part1, 16, Configure(15, 7, GPIO_MODE_USER_STD_OUTPUT), 9)
  /\ Joins(Part3, Part2, 25, Configure(5, 0, GPIO_MODE_USER_STD_OUTPUT), 6)
  /\ Joins(Part4, Part3, 31, Configure(6, 6, GPIO_MODE_MGMT_STD_OUTPUT), 1)
  /\ Joins(Part5, Part4, 32, Transfer, 3)
  /\ Joins(Part6, Part5, 35, OutputStores, Len(Outputs))
  /\ Joins(main, Part6, 35 + Len(Outputs), LastStore, 1)
<1>1. /\ 16 \in Nat /\ 9 \in Nat /\ 25 \in Nat /\ 6 \in Nat /\ 31 \in Nat /\ 1 \in Nat
      /\ 32 \in Nat /\ 3 \in Nat /\ 35 \in Nat /\ 35 + Len(Outputs) \in Nat
      /\ 16 + 9 = 25 /\ 25 + 6 = 31 /\ 31 + 1 = 32 /\ 32 + 3 = 35
  BY OtherParts
<1>2. Joins(Part2, Part1, 16, Configure(15, 7, GPIO_MODE_USER_STD_OUTPUT), 9)
  BY <1>1, ConfigureParts, ThenJoins, Zenon DEF Part2
<1>3. Part2 \in Seq(Accesses) /\ Len(Part2) = 25
  BY <1>1, <1>2, Zenon DEF Joins
<1>4. Joins(Part3, Part2, 25, Configure(5, 0, GPIO_MODE_USER_STD_OUTPUT), 6)
  BY <1>1, <1>3, ConfigureParts, ThenJoins, Zenon DEF Part3
<1>5. Part3 \in Seq(Accesses) /\ Len(Part3) = 31
  BY <1>1, <1>4, Zenon DEF Joins
<1>6. Joins(Part4, Part3, 31, Configure(6, 6, GPIO_MODE_MGMT_STD_OUTPUT), 1)
  BY <1>1, <1>5, ConfigureParts, ThenJoins, Zenon DEF Part4
<1>7. Part4 \in Seq(Accesses) /\ Len(Part4) = 32
  BY <1>1, <1>6, Zenon DEF Joins
<1>8. Joins(Part5, Part4, 32, Transfer, 3)
  BY <1>1, <1>7, OtherParts, ThenJoins, Zenon DEF Part5
<1>9. Part5 \in Seq(Accesses) /\ Len(Part5) = 35
  BY <1>1, <1>8, Zenon DEF Joins
<1>10. Joins(Part6, Part5, 35, OutputStores, Len(Outputs))
  BY <1>1, <1>9, OtherParts, ThenJoins, Zenon DEF Part6
<1>11. Part6 \in Seq(Accesses) /\ Len(Part6) = 35 + Len(Outputs)
  BY <1>10, Zenon DEF Joins
<1>12. Joins(main, Part6, 35 + Len(Outputs), LastStore, 1)
  BY <1>1, <1>11, MainParts, OtherParts, ThenJoins, Zenon
<1> QED
  BY <1>2, <1>4, <1>6, <1>8, <1>10, <1>12, Zenon

\* The pad that main gives its mode with access i, and the mode.
PadAt(i) == IF i <= 25 THEN 32 - i ELSE IF i <= 31 THEN 31 - i ELSE 6
ModeOf(p) == IF p >= 16 \/ p = 6 THEN GPIO_MODE_MGMT_STD_OUTPUT
                                 ELSE GPIO_MODE_USER_STD_OUTPUT

LEMMA MainFacts ==
  /\ main \in Seq(Accesses) /\ Len(main) = 36 + Len(Outputs) /\ Len(Outputs) \in Nat
  /\ \A i \in 1 .. 32 : main[i] = Store(reg_mprj_io(PadAt(i)), ModeOf(PadAt(i)))
  /\ main[33] = Store(reg_mprj_xfer, {0})
  /\ main[34] = WaitWhile(reg_mprj_xfer)
  /\ \A i \in 35 .. Len(main) : main[i].we /\ main[i].addr = reg_mprj_datal
<1>1. /\ \A i \in 1 .. 16 : Part2[i] = Part1[i]
      /\ \A i \in 17 .. 25 : Part2[i] = Configure(15, 7, GPIO_MODE_USER_STD_OUTPUT)[i - 16]
  BY Joints DEF Joins
<1>2. /\ \A i \in 1 .. 25 : Part3[i] = Part2[i]
      /\ \A i \in 26 .. 31 : Part3[i] = Configure(5, 0, GPIO_MODE_USER_STD_OUTPUT)[i - 25]
  BY Joints DEF Joins
<1>3. /\ \A i \in 1 .. 31 : Part4[i] = Part3[i]
      /\ Part4[32] = Configure(6, 6, GPIO_MODE_MGMT_STD_OUTPUT)[1]
  BY Joints DEF Joins
<1>4. /\ \A i \in 1 .. 32 : Part5[i] = Part4[i]
      /\ \A i \in 33 .. 35 : Part5[i] = Transfer[i - 32]
  BY Joints DEF Joins
<1>5. /\ \A i \in 1 .. 35 : Part6[i] = Part5[i]
      /\ \A i \in 36 .. 35 + Len(Outputs) : Part6[i] = OutputStores[i - 35]
  BY Joints DEF Joins
<1>6. /\ \A i \in 1 .. 35 + Len(Outputs) : main[i] = Part6[i]
      /\ main[36 + Len(Outputs)] = LastStore[1]
      /\ main \in Seq(Accesses) /\ Len(main) = 36 + Len(Outputs) /\ Len(Outputs) \in Nat
  <2>1. Len(Outputs) \in Nat
    BY OtherParts
  <2>2. /\ main \in Seq(Accesses) /\ Len(main) = 35 + Len(Outputs) + 1
        /\ \A i \in 1 .. 35 + Len(Outputs) : main[i] = Part6[i]
        /\ \A i \in 35 + Len(Outputs) + 1 .. 35 + Len(Outputs) + 1 :
             main[i] = LastStore[i - (35 + Len(Outputs))]
    BY Joints, Zenon DEF Joins
  <2>3. /\ 36 + Len(Outputs) \in 35 + Len(Outputs) + 1 .. 35 + Len(Outputs) + 1
        /\ 36 + Len(Outputs) - (35 + Len(Outputs)) = 1
        /\ 35 + Len(Outputs) + 1 = 36 + Len(Outputs)
    BY <2>1
  <2>4. main[36 + Len(Outputs)] = LastStore[36 + Len(Outputs) - (35 + Len(Outputs))]
    BY <2>2, <2>3
  <2>5. main[36 + Len(Outputs)] = LastStore[1]
    BY <2>3, <2>4
  <2>6. Len(main) = 36 + Len(Outputs)
    BY <2>2, <2>3
  <2> QED
    BY <2>1, <2>2, <2>5, <2>6
<1>7. ASSUME NEW i \in 1 .. 35 PROVE main[i] = Part5[i]
  <2>1. Len(Outputs) \in Nat
    BY OtherParts
  <2>2. i \in 1 .. 35 + Len(Outputs)
    BY <2>1
  <2> QED
    BY <1>5, <1>6, <2>2, Zenon
<1>8. \A i \in 1 .. 32 : main[i] = Part4[i]
  BY <1>4, <1>7
<1>9. ASSUME NEW i \in 1 .. 16
      PROVE  main[i] = Store(reg_mprj_io(PadAt(i)), ModeOf(PadAt(i)))
  BY <1>1, <1>2, <1>3, <1>8, ConfigureStores DEF PadAt, ModeOf
<1>10. ASSUME NEW i \in 17 .. 25
       PROVE  main[i] = Store(reg_mprj_io(PadAt(i)), ModeOf(PadAt(i)))
  <2>1. i - 16 \in 1 .. 9 /\ 16 - (i - 16) = 32 - i
    OBVIOUS
  <2>2. main[i] = Store(reg_mprj_io(32 - i), GPIO_MODE_USER_STD_OUTPUT)
    BY <1>1, <1>2, <1>3, <1>8, <2>1, ConfigureStores
  <2> QED
    BY <2>2 DEF PadAt, ModeOf
<1>11. ASSUME NEW i \in 26 .. 31
       PROVE  main[i] = Store(reg_mprj_io(PadAt(i)), ModeOf(PadAt(i)))
  <2>1. i - 25 \in 1 .. 6 /\ 6 - (i - 25) = 31 - i
    OBVIOUS
  <2>2. main[i] = Store(reg_mprj_io(31 - i), GPIO_MODE_USER_STD_OUTPUT)
    BY <1>2, <1>3, <1>8, <2>1, ConfigureStores
  <2> QED
    BY <2>2 DEF PadAt, ModeOf
<1>12. main[32] = Store(reg_mprj_io(6), GPIO_MODE_MGMT_STD_OUTPUT)
  BY <1>3, <1>8, ConfigureStores
<1>13. main[32] = Store(reg_mprj_io(PadAt(32)), ModeOf(PadAt(32)))
  BY <1>12 DEF PadAt, ModeOf
<1>14. /\ main[33] = Store(reg_mprj_xfer, {0})
       /\ main[34] = WaitWhile(reg_mprj_xfer)
       /\ main[35].we /\ main[35].addr = reg_mprj_datal
  <2>1. main[33] = Transfer[1] /\ main[34] = Transfer[2] /\ main[35] = Transfer[3]
    BY <1>4, <1>7
  <2> QED
    BY <2>1, OtherParts, Zenon
<1>15. ASSUME NEW i \in 35 .. Len(main)
       PROVE  main[i].we /\ main[i].addr = reg_mprj_datal
  <2>1. CASE i = 35
    BY <1>14, <2>1
  <2>2. CASE i = 36 + Len(Outputs)
    BY <1>6, <2>2, OtherParts
  <2>3. CASE i \in 36 .. 35 + Len(Outputs)
    <3>1. main[i] = OutputStores[i - 35] /\ i - 35 \in 1 .. Len(Outputs)
      BY <1>5, <1>6, <2>3
    <3> QED
      BY <3>1, OtherParts
  <2> QED
    BY <1>6, <2>1, <2>2, <2>3
<1>16. ASSUME NEW i \in 1 .. 32
       PROVE  main[i] = Store(reg_mprj_io(PadAt(i)), ModeOf(PadAt(i)))
  <2>1. i \in 1 .. 16 \/ i \in 17 .. 25 \/ i \in 26 .. 31 \/ i = 32
    OBVIOUS
  <2> QED
    BY <1>9, <1>10, <1>11, <1>13, <2>1
<1> QED
  BY <1>6, <1>14, <1>15, <1>16, Zenon

LEMMA MainLength == main \in Seq(Accesses) /\ Len(main) \in Nat /\ Len(main) >= 36
<1>1. Len(Outputs) \in Nat /\ Len(main) = 36 + Len(Outputs) /\ main \in Seq(Accesses)
  BY MainFacts, Zenon
<1> QED
  BY <1>1

\* The accesses of main, field by field.
LEMMA MainAt ==
  /\ \A i \in 1 .. 32 : /\ main[i].we /\ main[i].addr = reg_mprj_io(PadAt(i))
                        /\ main[i].word = ModeOf(PadAt(i))
  /\ main[33].we /\ main[33].addr = 0
  /\ ~main[34].we
  /\ main[34].addr = 0
  /\ \A i \in 35 .. Len(main) : main[i].we /\ main[i].addr = 12
  /\ \A i \in 1 .. Len(main) : main[i].word \in SUBSET (0 .. 31)
<1>1. ASSUME NEW i \in 1 .. 32
      PROVE  /\ main[i].we /\ main[i].addr = reg_mprj_io(PadAt(i))
             /\ main[i].word = ModeOf(PadAt(i))
  <2>1. main[i] = Store(reg_mprj_io(PadAt(i)), ModeOf(PadAt(i)))
    BY MainFacts, Zenon
  <2> QED
    BY <2>1 DEF Store
<1>2. main[33].we /\ main[33].addr = 0
  <2>1. main[33] = Store(reg_mprj_xfer, {0})
    BY MainFacts, Zenon
  <2> QED
    BY <2>1 DEF Store, reg_mprj_xfer
<1>3. ~main[34].we /\ main[34].addr = 0
  <2>1. main[34] = WaitWhile(reg_mprj_xfer)
    BY MainFacts, Zenon
  <2> QED
    BY <2>1 DEF WaitWhile, reg_mprj_xfer
<1>4. \A i \in 35 .. Len(main) : main[i].we /\ main[i].addr = 12
  BY MainFacts, Zenon DEF reg_mprj_datal
<1>5. ASSUME NEW i \in 1 .. Len(main) PROVE main[i].word \in SUBSET (0 .. 31)
  <2>1. main[i] \in Accesses
    BY MainLength
  <2> QED
    BY <2>1 DEF Accesses
<1> QED
  BY <1>1, <1>2, <1>3, <1>4, <1>5, Zenon

LEMMA IoAddresses ==
  ASSUME NEW m \in Nat, NEW n \in Nat
  PROVE  /\ reg_mprj_io(m) = reg_mprj_io(n) <=> m = n
         /\ reg_mprj_io(m) # 0 /\ reg_mprj_io(m) # 12
  BY DEF reg_mprj_io

\* The access that gives pad p its mode.
PlaceOf(p) == IF p >= 7 THEN 32 - p ELSE IF p = 6 THEN 32 ELSE 31 - p

LEMMA Places ==
  /\ \A i \in 1 .. 32 : PadAt(i) \in 0 .. 31 /\ PlaceOf(PadAt(i)) = i
  /\ \A p \in 0 .. 31 : PlaceOf(p) \in 1 .. 32 /\ PadAt(PlaceOf(p)) = p
  BY DEF PadAt, PlaceOf

\* The configuration of pad p when main has made n accesses.
Mode(p, n) == IF p <= 31 /\ PlaceOf(p) <= n THEN ModeOf(p) ELSE gpio_configure_default[p]

LEMMA GivenIs ==
  ASSUME NEW p \in Pads, NEW n \in 0 .. Len(main)
  PROVE  Given(p, n) = Mode(p, n)
<1>1. p \in 0 .. 37 /\ n \in Nat /\ n <= Len(main) /\ Len(main) \in Nat
  BY MainLength DEF Pads, LastPad
<1>. DEFINE stores == {i \in 1 .. n : main[i].addr = reg_mprj_io(p)}
<1>4. ASSUME NEW i \in 1 .. n
      PROVE  main[i].addr = reg_mprj_io(p) <=> p <= 31 /\ i = PlaceOf(p)
  <2>1. CASE i <= 32
    <3>1. i \in 1 .. 32 /\ PadAt(i) \in Nat /\ p \in Nat
      BY <1>1, <2>1 DEF PadAt
    <3>2. main[i].addr = reg_mprj_io(PadAt(i))
      BY <3>1, MainAt, Zenon
    <3>4. main[i].addr = reg_mprj_io(p) <=> PadAt(i) = p
      BY <3>1, <3>2, IoAddresses, Zenon
    <3>3. PadAt(i) = p <=> p <= 31 /\ i = PlaceOf(p)
      BY <1>1, <2>1 DEF PadAt, PlaceOf
    <3> QED
      BY <3>3, <3>4
  <2>2. CASE i > 32
    <3>1. main[i].addr = 0 \/ main[i].addr = 12
      <4>1. i = 33 \/ i = 34 \/ i \in 35 .. Len(main)
        BY <1>1, <2>2
      <4> QED
        BY <4>1, MainAt
    <3>2. main[i].addr # reg_mprj_io(p)
      BY <1>1, <3>1, IoAddresses
    <3>3. ~(p <= 31 /\ i = PlaceOf(p))
      BY <1>1, <2>2 DEF PlaceOf
    <3> QED
      BY <3>2, <3>3
  <2>3. i <= 32 \/ i > 32
    OBVIOUS
  <2> QED
    BY <2>1, <2>2, <2>3
<1>5. CASE p <= 31 /\ PlaceOf(p) <= n
  <2>1. PlaceOf(p) \in 1 .. n /\ PlaceOf(p) \in 1 .. 32 /\ PadAt(PlaceOf(p)) = p
    BY <1>1, <1>5 DEF PlaceOf, PadAt
  <2>2. stores = {PlaceOf(p)}
    BY <1>4, <1>5, <2>1
  <2>3. (CHOOSE i \in stores : \A j \in stores : j <= i) = PlaceOf(p)
    <3>1. \A j \in {PlaceOf(p)} : j <= PlaceOf(p)
      BY <2>1
    <3> QED
      BY <2>2, <3>1
  <2>4. Given(p, n) = main[PlaceOf(p)].word
    BY <2>2, <2>3 DEF Given
  <2>5. main[PlaceOf(p)].word = ModeOf(p)
    BY <2>1, MainAt
  <2> QED
    BY <1>5, <2>4, <2>5 DEF Mode
<1>6. CASE ~(p <= 31 /\ PlaceOf(p) <= n)
  <2>1. stores = {}
    BY <1>4, <1>6, <1>1 DEF PlaceOf
  <2> QED
    BY <1>6, <2>1 DEF Given, Mode
<1> QED
  BY <1>5, <1>6

\* The register of each byte of an access.
LEMMA Addresses ==
  /\ \A n \in Pads, k \in 0 .. 1 : spiaddr(reg_mprj_io(n) + k) = Register("config", 2 * n + k)
  /\ \A n \in Pads, k \in 2 .. 3 : spiaddr(reg_mprj_io(n) + k) = Register("none", 0)
  /\ spiaddr(0) = Register("xfer", 0)
  /\ \A k \in 1 .. 3 : spiaddr(k) = Register("none", 0)
  /\ \A k \in 0 .. 3 : spiaddr(12 + k) = Register("data", k)
<1>1. ASSUME NEW n \in Pads
      PROVE  /\ reg_mprj_io(n) # 0 /\ reg_mprj_io(n) + 1 # 0
             /\ reg_mprj_io(n) \notin 12 .. 15 /\ reg_mprj_io(n) + 1 \notin 12 .. 15
             /\ reg_mprj_io(n) \in {reg_mprj_io(m) : m \in Pads}
             /\ reg_mprj_io(n) + 1 \notin {reg_mprj_io(m) : m \in Pads}
             /\ reg_mprj_io(n) + 1 \in {reg_mprj_io(m) + 1 : m \in Pads}
             /\ PadOf(reg_mprj_io(n)) = n /\ PadOf(reg_mprj_io(n) + 1) = n
             /\ n \in Int
  BY DEF reg_mprj_io, Pads, LastPad, PadOf
<1>2. ASSUME NEW n \in Pads, NEW k \in 2 .. 3
      PROVE  /\ reg_mprj_io(n) + k # 0 /\ reg_mprj_io(n) + k \notin 12 .. 15
             /\ reg_mprj_io(n) + k \notin {reg_mprj_io(m) : m \in Pads}
             /\ reg_mprj_io(n) + k \notin {reg_mprj_io(m) + 1 : m \in Pads}
  BY DEF reg_mprj_io, Pads, LastPad
<1>3. ASSUME NEW n \in Pads, NEW k \in 0 .. 1
      PROVE  spiaddr(reg_mprj_io(n) + k) = Register("config", 2 * n + k)
  <2>1. CASE k = 0
    <3>1. reg_mprj_io(n) + 0 = reg_mprj_io(n) /\ 2 * n + 0 = 2 * n
      BY DEF reg_mprj_io, Pads, LastPad
    <3> QED
      BY <1>1, <2>1, <3>1 DEF spiaddr
  <2>2. CASE k = 1
    BY <1>1, <2>2 DEF spiaddr
  <2> QED
    BY <2>1, <2>2
<1>4. ASSUME NEW n \in Pads, NEW k \in 2 .. 3
      PROVE  spiaddr(reg_mprj_io(n) + k) = Register("none", 0)
  <2> DEFINE a == reg_mprj_io(n) + k
  <2>2. /\ a # 0 /\ a \notin 12 .. 15 /\ a \notin {reg_mprj_io(m) : m \in Pads}
        /\ a \notin {reg_mprj_io(m) + 1 : m \in Pads}
    BY <1>2
  <2> HIDE DEF a
  <2>3. spiaddr(a) = Register("none", 0)
    BY <2>2 DEF spiaddr
  <2> QED
    BY <2>3, Zenon DEF a
<1>5. spiaddr(0) = Register("xfer", 0)
  <2>1. /\ 0 \notin 12 .. 15 /\ 0 \notin {reg_mprj_io(m) : m \in Pads}
        /\ 0 \notin {reg_mprj_io(m) + 1 : m \in Pads}
    BY DEF reg_mprj_io, Pads, LastPad
  <2> QED
    BY <2>1 DEF spiaddr
<1>6. ASSUME NEW k \in 1 .. 3
      PROVE  spiaddr(k) = Register("none", 0)
  <2>1. /\ k # 0 /\ k \notin 12 .. 15 /\ k \notin {reg_mprj_io(m) : m \in Pads}
        /\ k \notin {reg_mprj_io(m) + 1 : m \in Pads}
    BY DEF reg_mprj_io, Pads, LastPad
  <2> QED
    BY <2>1 DEF spiaddr
<1>7. ASSUME NEW k \in 0 .. 3
      PROVE  spiaddr(12 + k) = Register("data", k)
  <2>1. 12 + k # 0 /\ 12 + k \in 12 .. 15 /\ (12 + k) - 12 = k
        /\ \A m \in Pads : 12 + k # reg_mprj_io(m) /\ 12 + k # reg_mprj_io(m) + 1
    BY DEF reg_mprj_io, Pads, LastPad
  <2> DEFINE a == 12 + k
  <2>2. /\ a # 0 /\ a \in 12 .. 15 /\ a - 12 = k /\ a \notin {reg_mprj_io(m) : m \in Pads}
        /\ a \notin {reg_mprj_io(m) + 1 : m \in Pads}
    BY <2>1
  <2> HIDE DEF a
  <2>3. spiaddr(a) = Register("data", k)
    BY <2>2 DEF spiaddr
  <2> QED
    BY <2>3 DEF a
<1> QED
  BY <1>3, <1>4, <1>5, <1>6, <1>7

\* A byte of a word goes back to where it was.
LEMMA PlaceByte ==
  ASSUME NEW w \in SUBSET (0 .. 31), NEW k \in 0 .. 3
  PROVE  Place(Byte(w, k), k) = w \cap Bits(k)
<1>1. \A b \in w : b - 8 * k + 8 * k = b /\ b \in Int
  OBVIOUS
<1>2. ASSUME NEW b \in w \cap Bits(k)
      PROVE  b \in Place(Byte(w, k), k)
  <2>1. b - 8 * k \in Byte(w, k)
    BY DEF Byte, Bits
  <2> QED
    BY <1>1, <2>1 DEF Place
<1>3. ASSUME NEW c \in Place(Byte(w, k), k)
      PROVE  c \in w \cap Bits(k)
  BY <1>1 DEF Place, Byte, Bits
<1> QED
  BY <1>2, <1>3

-----------------------------------------------------------------------------
(* The inductive invariant.                                                *)

Bit == 0 .. CtrlBits - 1

Names == [name : {"none", "xfer", "data", "config"}, n : Nat]
WbTypes == [phase : {"idle", "setup", "rw", "done"}, k : 0 .. 3, busy : BOOLEAN,
            addr : Names, byte : SUBSET Int]

StartTypeOK ==
  /\ pc \in 1 .. Len(main) + 1 /\ req \in BOOLEAN
  /\ wb \in WbTypes
  /\ gpio_configure \in [Pads -> SUBSET Bit]
  /\ serial_xfer \in BOOLEAN
  /\ gpio_buf \in SUBSET (0 .. 23)

\* A request lasts until it is acknowledged, and what the back door has set up
\* is a byte of it.
LatchInv ==
  /\ req => ~Done
  /\ ~At("idle") => req
  /\ At("rw") => /\ wb.addr = spiaddr(Access.addr + wb.k)
                 /\ wb.byte = Byte(Access.word, wb.k)

\* The bytes of the present access that are written.
Written == IF At("idle") THEN 0 ELSE IF At("done") THEN 4 ELSE wb.k

\* The bits of the first n bytes.
Low(n) == {b \in 0 .. 31 : b < 8 * n}

\* Each pad has the mode that main has given it so far; the one that is being
\* written has its first bytes.
ConfigInv ==
  \A p \in Pads :
    gpio_configure[p] =
      IF p <= 31 /\ PlaceOf(p) = pc
      THEN (gpio_configure_default[p] \ Low(Written)) \cup (ModeOf(p) \cap Low(Written))
      ELSE Mode(p, pc - 1)

\* The words that main writes to the pads.
Words == {main[i].word : i \in {j \in 1 .. Len(main) : main[j].addr = reg_mprj_datal}}

\* When main writes to the pads, the buffer has the first bytes of its word.
PinsInv ==
  /\ gpio_data \in {{}} \cup Words
  /\ pc >= 35 /\ ~Done => gpio_buf \cap Low(Written) = Access.word \cap Low(Written) \cap (0 .. 23)

\* Nothing is transferred before main has given all the modes.
TransferInv == serial_xfer \/ ld.state # "IDLE" => pc >= 33

-----------------------------------------------------------------------------
(* The chains.  Pad q of a chain is the q-th that a bit passes.            *)

Final(p) == Mode(p, 32)
Chain == 0 .. Pads1 - 1
First == [q \in Chain |-> q]             \* the pads in the order of a chain
Second == [q \in Chain |-> LastPad - q]

\* In the shift registers sr, the configurations of the pads behind pad n of a
\* chain are in it, and c bits of pad n's: each bit is as far from its place as
\* there are bits to come.
Carries(sr, chain, n, c) ==
  \A q \in Chain, b \in Bit :
    /\ b < c /\ n + q \in Chain =>
         (b \in sr[chain[q]] <=> CtrlBits - c + b \in Final(chain[n + q]))
    /\ b >= c /\ n + q + 1 \in Chain =>
         (b \in sr[chain[q]] <=> b - c \in Final(chain[n + q + 1]))

Moved(sr, n, c) == Carries(sr, First, n, c) /\ Carries(sr, Second, n, c)

\* The staging register has the configuration of pad p, less its c first bits.
Staged(staging, p, c) ==
  staging \in SUBSET Bit /\ \A b \in Bit : b \in staging <=> b >= c /\ b - c \in Final(p)

LoaderTypes ==
  [state : {"IDLE", "START", "XBYTE", "LOAD"}, count : 0 .. CtrlBits, pad1 : 0 .. 31,
   pad2 : Pads1 .. LastPad + 1, clock : BOOLEAN, busy : BOOLEAN,
   staging1 : SUBSET Bit, staging2 : SUBSET Bit]

\* The loader is l and the shift registers are sr.  The next pads are n and
\* 37 - n; those behind them are on their way.
AtStart(l, sr) ==
  LET n == LastPad - l.pad2
  IN n \in Chain /\ l.pad1 = n /\ Moved(sr, n, 0)

\* Some bits of the pads n and 37 - n are in the chains, the others are staged.
AtByte(l, sr) ==
  LET n == LastPad + 1 - l.pad2
      c == IF l.clock THEN l.count - 1 ELSE l.count
  IN /\ n \in Chain /\ l.count \in Bit /\ (l.clock => l.count > 0)
     /\ l.pad2 <= LastPad => l.pad1 = LastPad - l.pad2
     /\ Moved(sr, n, l.count)
     /\ Staged(l.staging1, First[n], c) /\ Staged(l.staging2, Second[n], c)

\* Every configuration is at its pad.
AtLoad(l, sr) == l.count <= 2 /\ Moved(sr, -1, 0)

Loads(l, sr) ==
  /\ l \in LoaderTypes /\ sr \in [Pads -> SUBSET Bit]
  /\ l.state = "START" => AtStart(l, sr)
  /\ l.state = "XBYTE" => AtByte(l, sr)
  /\ l.state = "LOAD" => AtLoad(l, sr)

LoaderInv == Loads(ld, shift_register)

PadsInv == \A p \in Pads : pads[p] \in {gpio_defaults[p], Final(p)}

SInv == /\ StartTypeOK /\ LatchInv /\ ConfigInv /\ PinsInv
        /\ TransferInv /\ LoaderInv /\ PadsInv

-----------------------------------------------------------------------------
(* The accesses.                                                           *)

LEMMA SetTypes ==
  /\ Pads = 0 .. 37 /\ Bit = 0 .. 12
  /\ \A p \in Pads : gpio_configure_default[p] \in SUBSET Bit
  /\ \A p \in Pads : ModeOf(p) \in SUBSET Bit
  /\ \A p \in Pads : \A n : Mode(p, n) \in SUBSET Bit
<1>1. Pads = 0 .. 37 /\ Bit = 0 .. 12
  BY DEF Pads, LastPad, Bit, CtrlBits
<1>2. ASSUME NEW p \in Pads PROVE gpio_configure_default[p] \in SUBSET Bit
  BY <1>1 DEF gpio_configure_default
<1>3. ASSUME NEW p \in Pads PROVE ModeOf(p) \in SUBSET Bit
  BY <1>1 DEF ModeOf, GPIO_MODE_MGMT_STD_OUTPUT, GPIO_MODE_USER_STD_OUTPUT
<1>4. ASSUME NEW p \in Pads, NEW n PROVE Mode(p, n) \in SUBSET Bit
  BY <1>2, <1>3 DEF Mode
<1> QED
  BY <1>1, <1>2, <1>3, <1>4

\* The access under way, by its place in main.
LEMMA AccessFacts ==
  ASSUME pc \in 1 .. Len(main)
  PROVE  /\ Access.word \in SUBSET (0 .. 31)
         /\ pc <= 32 => /\ Access.we /\ Access.addr = reg_mprj_io(PadAt(pc))
                        /\ Access.word = ModeOf(PadAt(pc)) /\ PadAt(pc) \in 0 .. 31
         /\ pc = 33 => Access.we /\ Access.addr = 0
         /\ pc = 34 => ~Access.we /\ Access.addr = 0
         /\ pc >= 35 => Access.we /\ Access.addr = 12 /\ Access.word \in Words
<1>1. pc \in Int /\ Len(main) \in Nat
  BY MainLength
<1>2. Access.word \in SUBSET (0 .. 31)
  BY MainAt, Zenon DEF Access
<1>3. pc <= 32 => /\ Access.we /\ Access.addr = reg_mprj_io(PadAt(pc))
                  /\ Access.word = ModeOf(PadAt(pc)) /\ PadAt(pc) \in 0 .. 31
  <2>1. SUFFICES ASSUME pc <= 32
        PROVE  /\ Access.we /\ Access.addr = reg_mprj_io(PadAt(pc))
               /\ Access.word = ModeOf(PadAt(pc)) /\ PadAt(pc) \in 0 .. 31
    OBVIOUS
  <2>2. pc \in 1 .. 32
    BY <1>1, <2>1
  <2> QED
    BY <2>2, MainAt, Places, Zenon DEF Access
<1>4. pc = 33 => Access.we /\ Access.addr = 0
  BY MainAt DEF Access
<1>5. pc = 34 => ~Access.we /\ Access.addr = 0
  BY MainAt DEF Access
<1>6. pc >= 35 => Access.we /\ Access.addr = 12 /\ Access.word \in Words
  <2>1. SUFFICES ASSUME pc >= 35
        PROVE  Access.we /\ Access.addr = 12 /\ Access.word \in Words
    OBVIOUS
  <2>2. pc \in 35 .. Len(main)
    BY <1>1, <2>1
  <2>3. main[pc].we /\ main[pc].addr = 12
    BY <2>2, MainAt, Zenon
  <2>4. pc \in {j \in 1 .. Len(main) : main[j].addr = reg_mprj_datal}
    BY <2>3 DEF reg_mprj_datal
  <2> QED
    BY <2>3, <2>4 DEF Access, Words
<1> QED
  BY <1>2, <1>3, <1>4, <1>5, <1>6

\* The byte that the back door has set up, and its register.
LEMMA LatchFacts ==
  ASSUME StartTypeOK, LatchInv, At("rw")
  PROVE  /\ pc \in 1 .. Len(main) /\ wb.k \in 0 .. 3
         /\ Place(wb.byte, wb.k) = Access.word \cap Bits(wb.k)
         /\ pc <= 32 => wb.addr = IF wb.k <= 1 THEN Register("config", 2 * PadAt(pc) + wb.k)
                                               ELSE Register("none", 0)
         /\ pc \in 33 .. 34 => wb.addr \in {Register("xfer", 0), Register("none", 0)}
         /\ pc >= 35 => wb.addr = Register("data", wb.k)
<1>1. /\ pc \in 1 .. Len(main) + 1 /\ wb.k \in 0 .. 3 /\ Len(main) \in Nat
      /\ ~(pc > Len(main))
  BY MainLength DEF StartTypeOK, WbTypes, LatchInv, At, Done
<1>2. pc \in 1 .. Len(main) /\ pc \in Int
  BY <1>1
<1>3. wb.addr = spiaddr(Access.addr + wb.k) /\ wb.byte = Byte(Access.word, wb.k)
  BY DEF LatchInv
<1>4. Place(wb.byte, wb.k) = Access.word \cap Bits(wb.k)
  BY <1>1, <1>2, <1>3, AccessFacts, PlaceByte
<1>5. ASSUME pc <= 32
      PROVE  wb.addr = IF wb.k <= 1 THEN Register("config", 2 * PadAt(pc) + wb.k)
                                    ELSE Register("none", 0)
  <2>1. PadAt(pc) \in Pads /\ wb.addr = spiaddr(reg_mprj_io(PadAt(pc)) + wb.k)
    BY <1>2, <1>3, <1>5, AccessFacts DEF Pads, LastPad
  <2>2. CASE wb.k \in 0 .. 1
    <3>1. wb.addr = Register("config", 2 * PadAt(pc) + wb.k)
      BY <2>1, <2>2, Addresses, Zenon
    <3> QED
      BY <2>2, <3>1
  <2>3. CASE wb.k \in 2 .. 3
    BY <2>1, <2>3, Addresses
  <2> QED
    BY <1>1, <2>2, <2>3
<1>6. ASSUME pc \in 33 .. 34
      PROVE  wb.addr \in {Register("xfer", 0), Register("none", 0)}
  <2>1. Access.addr = 0
    BY <1>2, <1>6, AccessFacts
  <2>2. wb.addr = spiaddr(wb.k)
    BY <1>1, <1>3, <2>1
  <2>3. wb.k = 0 \/ wb.k \in 1 .. 3
    BY <1>1
  <2> QED
    BY <2>2, <2>3, Addresses
<1>7. ASSUME pc >= 35
      PROVE  wb.addr = Register("data", wb.k)
  BY <1>1, <1>2, <1>3, <1>7, AccessFacts, Addresses
<1> QED
  BY <1>1, <1>2, <1>4, <1>5, <1>6, <1>7

-----------------------------------------------------------------------------
(* What the write of a byte does, by the place of its access in main.      *)

LEMMA Halves ==
  ASSUME NEW n \in Nat, NEW k \in 0 .. 1
  PROVE  (2 * n + k) \div 2 = n /\ (2 * n + k) % 2 = k
<1>1. k = 0 \/ k = 1
  OBVIOUS
<1> QED
  BY <1>1

LEMMA ConfigByte ==
  ASSUME StartTypeOK, LatchInv, ReadWrite, pc <= 32
  PROVE  /\ UNCHANGED <<serial_xfer, gpio_data, gpio_buf>>
         /\ gpio_configure' =
              IF wb.k <= 1
              THEN [gpio_configure EXCEPT ![PadAt(pc)] =
                      (@ \ Bits(wb.k)) \cup (ModeOf(PadAt(pc)) \cap Bits(wb.k) \cap Bit)]
              ELSE gpio_configure
<1>1. /\ At("rw") /\ pc \in 1 .. Len(main) /\ wb.k \in 0 .. 3
      /\ wb.addr = IF wb.k <= 1 THEN Register("config", 2 * PadAt(pc) + wb.k)
                                ELSE Register("none", 0)
  BY LatchFacts DEF ReadWrite
<1>2. Access.we /\ Access.word = ModeOf(PadAt(pc)) /\ PadAt(pc) \in 0 .. 31
  BY <1>1, AccessFacts
<1>3. WritesByte(wb.addr, wb.byte)
  BY <1>2 DEF ReadWrite
<1>4. CASE wb.k <= 1
  <2>1. /\ wb.addr.name = "config" /\ wb.addr.n = 2 * PadAt(pc) + wb.k
    BY <1>1, <1>4 DEF Register
  <2>5. wb.addr.n \div 2 = PadAt(pc) /\ wb.addr.n % 2 = wb.k
    <3>1. wb.k \in 0 .. 1
      BY <1>1, <1>4
    <3>2. PadAt(pc) \in Nat
      BY <1>2
    <3> QED
      BY <2>1, <3>1, <3>2, Halves
  <2>2. Place(wb.byte, wb.k) = ModeOf(PadAt(pc)) \cap Bits(wb.k)
    BY <1>1, <1>2, LatchFacts
  <2>3. gpio_configure' =
          [gpio_configure EXCEPT ![PadAt(pc)] =
             (@ \ Bits(wb.k)) \cup (ModeOf(PadAt(pc)) \cap Bits(wb.k) \cap Bit)]
    BY <1>3, <2>1, <2>2, <2>5 DEF WritesByte, Bit
  <2>4. UNCHANGED <<serial_xfer, gpio_data, gpio_buf>>
    BY <1>3, <2>1 DEF WritesByte
  <2> QED
    BY <1>4, <2>3, <2>4
<1>5. CASE ~(wb.k <= 1)
  <2>1. wb.addr.name = "none"
    BY <1>1, <1>5 DEF Register
  <2> QED
    BY <1>3, <1>5, <2>1 DEF WritesByte
<1> QED
  BY <1>4, <1>5

LEMMA TransferByte ==
  ASSUME StartTypeOK, LatchInv, ReadWrite, pc \in 33 .. 34
  PROVE  UNCHANGED <<gpio_configure, gpio_data, gpio_buf>> /\ serial_xfer' \in BOOLEAN
<1>1. /\ At("rw") /\ serial_xfer \in BOOLEAN
      /\ wb.addr \in {Register("xfer", 0), Register("none", 0)}
  BY LatchFacts DEF ReadWrite, StartTypeOK, WbTypes
<1>2. wb.addr.name \in {"xfer", "none"}
  BY <1>1 DEF Register
<1>3. CASE Access.we
  <2>1. WritesByte(wb.addr, wb.byte)
    BY <1>3 DEF ReadWrite
  <2>2. UNCHANGED <<gpio_configure, gpio_data, gpio_buf>>
    BY <1>2, <2>1 DEF WritesByte
  <2>3. (0 \in wb.byte) \in BOOLEAN
    OBVIOUS
  <2>4. serial_xfer' \in {serial_xfer, 0 \in wb.byte}
    BY <2>1, Zenon DEF WritesByte
  <2>5. serial_xfer' \in BOOLEAN
    BY <1>1, <2>3, <2>4, Zenon
  <2> QED
    BY <2>2, <2>5
<1>4. CASE ~Access.we
  BY <1>1, <1>4 DEF ReadWrite, ReadEdge
<1> QED
  BY <1>3, <1>4

\* The pads of the SPI have their modes: the block does not see it any more.
LEMMA SpiIsOff ==
  ASSUME StartTypeOK, ConfigInv, pc >= 33
  PROVE  INP_DIS \in gpio_configure[3] /\ ~SpiActive
<1>1. pc \in Int /\ 3 \in Pads /\ PlaceOf(3) = 28
  BY DEF StartTypeOK, WbTypes, Pads, LastPad, PlaceOf
<1>2. gpio_configure[3] = Mode(3, pc - 1)
  <2>1. ~(3 <= 31 /\ PlaceOf(3) = pc)
    BY <1>1
  <2> QED
    BY <1>1, <2>1, Zenon DEF ConfigInv
<1>3. Mode(3, pc - 1) = GPIO_MODE_USER_STD_OUTPUT
  BY <1>1 DEF Mode, ModeOf
<1> QED
  BY <1>2, <1>3 DEF SpiActive, INP_DIS, GPIO_MODE_USER_STD_OUTPUT

LEMMA DataByte ==
  ASSUME StartTypeOK, LatchInv, ConfigInv, ReadWrite, pc >= 35
  PROVE  /\ UNCHANGED <<gpio_configure, serial_xfer>>
         /\ wb.k < 3 => /\ gpio_data' = gpio_data
                        /\ gpio_buf' = (gpio_buf \ Bits(wb.k)) \cup (Access.word \cap Bits(wb.k))
         /\ wb.k = 3 => /\ gpio_data' = gpio_buf \cup (Access.word \cap Bits(3))
                        /\ gpio_buf' = gpio_buf
<1>1. /\ At("rw") /\ pc \in 1 .. Len(main) /\ wb.k \in 0 .. 3
      /\ wb.addr = Register("data", wb.k)
      /\ Place(wb.byte, wb.k) = Access.word \cap Bits(wb.k)
  BY LatchFacts DEF ReadWrite
<1>2. Access.we
  BY <1>1, AccessFacts
<1>3. WritesByte(wb.addr, wb.byte) /\ wb.addr.name = "data" /\ wb.addr.n = wb.k
  BY <1>1, <1>2 DEF ReadWrite, Register
<1>4. ~SpiActive
  <2>1. pc >= 33
    BY <1>1
  <2> QED
    BY <2>1, SpiIsOff
<1>5. CASE wb.k < 3
  BY <1>1, <1>3, <1>4, <1>5 DEF WritesByte
<1>6. CASE wb.k = 3
  BY <1>1, <1>3, <1>4, <1>6 DEF WritesByte
<1> QED
  BY <1>1, <1>3, <1>5, <1>6 DEF WritesByte

-----------------------------------------------------------------------------
(* The processor and the back door.                                        *)

LEMMA SpiaddrType ==
  ASSUME NEW a \in Nat
  PROVE  spiaddr(a) \in Names
<1>1. CASE a = 0
  BY <1>1, Addresses DEF Register, Names
<1>2. CASE a \in 12 .. 15
  <2>1. a - 12 \in 0 .. 3 /\ 12 + (a - 12) = a
    BY <1>2
  <2> QED
    BY <2>1, Addresses DEF Register, Names
<1>3. CASE \E m \in Pads : a = reg_mprj_io(m)
  <2>1. PICK m \in Pads : a = reg_mprj_io(m) + 0
    BY <1>3 DEF reg_mprj_io, Pads, LastPad
  <2>2. spiaddr(a) = Register("config", 2 * m + 0) /\ 2 * m + 0 \in Nat
    BY <2>1, Addresses DEF Pads, LastPad
  <2> QED
    BY <2>2 DEF Register, Names
<1>4. CASE \E m \in Pads : a = reg_mprj_io(m) + 1
  <2>1. PICK m \in Pads : a = reg_mprj_io(m) + 1
    BY <1>4
  <2>2. spiaddr(a) = Register("config", 2 * m + 1) /\ 2 * m + 1 \in Nat
    BY <2>1, Addresses DEF Pads, LastPad
  <2> QED
    BY <2>2 DEF Register, Names
<1>5. CASE /\ a # 0 /\ a \notin 12 .. 15
           /\ \A m \in Pads : a # reg_mprj_io(m) /\ a # reg_mprj_io(m) + 1
  BY <1>5 DEF spiaddr, Register, Names
<1> QED
  BY <1>1, <1>2, <1>3, <1>4, <1>5

\* Every step of the system is one of these.
LEMMA Moves ==
  ASSUME Next
  PROVE  \/ BackDoorIdle /\ Loader
         \/ Setup /\ Loader
         \/ ReadWrite /\ Loader
         \/ Acknowledge /\ Loader
         \/ Issue
         \/ SpiEdge
  BY DEF Next, Clock, BackDoor

\* Where the processor and the back door go.
LEMMA ControlStep ==
  ASSUME StartTypeOK, LatchInv, Next
  PROVE  /\ pc' \in 1 .. Len(main) + 1 /\ req' \in BOOLEAN
         /\ wb' \in WbTypes
         /\ LatchInv'
         /\ \/ pc' = pc
            \/ pc' = pc + 1 /\ At("done") /\ wb'.phase = "idle"
<1>1. /\ pc \in 1 .. Len(main) + 1 /\ req \in BOOLEAN /\ Len(main) \in Nat
      /\ wb \in WbTypes
  BY MainLength DEF StartTypeOK
<1>2. ASSUME req PROVE pc \in 1 .. Len(main)
  BY <1>1, <1>2 DEF LatchInv, Done, WbTypes
<1>3. CASE BackDoorIdle
  <2>1. /\ wb' = [wb EXCEPT !.busy = FALSE, !.phase = IF req THEN "setup" ELSE "idle", !.k = 0]
        /\ pc' = pc /\ req' = req
    BY <1>3 DEF BackDoorIdle, processor
  <2>2. /\ wb' \in WbTypes
        /\ wb'.phase = IF req THEN "setup" ELSE "idle"
    <3>1. CASE req
      <4>1. wb' = [wb EXCEPT !.busy = FALSE, !.phase = "setup", !.k = 0]
        BY <2>1, <3>1
      <4>5. 0 \in 0 .. 3 /\ FALSE \in BOOLEAN
        OBVIOUS
      <4>2. wb' \in WbTypes
        BY <1>1, <4>1, <4>5 DEF WbTypes
      <4>3. wb'.phase = "setup"
        BY <1>1, <4>1 DEF WbTypes
      <4> QED
        BY <3>1, <4>2, <4>3
    <3>2. CASE ~req
      <4>1. wb' = [wb EXCEPT !.busy = FALSE, !.phase = "idle", !.k = 0]
        BY <2>1, <3>2
      <4>5. 0 \in 0 .. 3 /\ FALSE \in BOOLEAN
        OBVIOUS
      <4>2. wb' \in WbTypes
        BY <1>1, <4>1, <4>5 DEF WbTypes
      <4>3. wb'.phase = "idle"
        BY <1>1, <4>1 DEF WbTypes
      <4> QED
        BY <3>2, <4>2, <4>3
    <3> QED
      BY <3>1, <3>2
  <2>3. LatchInv'
    BY <1>1, <2>1, <2>2 DEF LatchInv, At, Done, WbTypes
  <2> QED
    BY <1>1, <2>1, <2>2, <2>3 DEF WbTypes
<1>4. CASE Setup
  <2>1. /\ wb' = [wb EXCEPT !.busy = TRUE, !.addr = spiaddr(Access.addr + wb.k),
                            !.byte = Byte(Access.word, wb.k),
                            !.phase = IF SpiBusy THEN "setup" ELSE "rw"]
        /\ pc' = pc /\ req' = req /\ At("setup")
    BY <1>4 DEF Setup, processor
  <2>2. req /\ pc \in 1 .. Len(main)
    BY <1>2, <2>1 DEF LatchInv, At
  <2>3. spiaddr(Access.addr + wb.k) \in Names
    <3>1. Access.addr \in Nat
      <4>1. Access \in Accesses
        BY <2>2, MainLength DEF Access
      <4> QED
        BY <4>1 DEF Accesses
    <3>2. Access.addr + wb.k \in Nat
      BY <1>1, <3>1 DEF WbTypes
    <3> QED
      BY <3>2, SpiaddrType
  <2>4. Byte(Access.word, wb.k) \in SUBSET Int
    BY <1>1, <2>2, AccessFacts DEF Byte, WbTypes
  <2>5. wb' \in WbTypes
    BY <1>1, <2>1, <2>3, <2>4 DEF WbTypes
  <2>6. /\ wb'.phase \in {"setup", "rw"} /\ wb'.k = wb.k
        /\ wb'.addr = spiaddr(Access.addr + wb.k) /\ wb'.byte = Byte(Access.word, wb.k)
    BY <1>1, <2>1 DEF WbTypes
  <2>7. LatchInv'
    <3>1. Access' = Access /\ (Done' <=> Done)
      BY <2>1 DEF Access, Done
    <3> QED
      BY <1>1, <2>1, <2>2, <2>6, <3>1 DEF LatchInv, At, Done, WbTypes
  <2> QED
    BY <1>1, <2>1, <2>5, <2>7 DEF WbTypes
<1>5. CASE ReadWrite
  <2>1. /\ wb' = IF wb.k = 3 THEN [wb EXCEPT !.phase = "done"]
                             ELSE [wb EXCEPT !.phase = "setup", !.k = @ + 1]
        /\ pc' = pc /\ req' = req /\ At("rw")
    BY <1>5 DEF ReadWrite, processor
  <2>2. /\ wb' \in WbTypes
        /\ wb'.phase \in {"setup", "done"}
    <3>1. CASE wb.k = 3
      BY <1>1, <2>1, <3>1 DEF WbTypes
    <3>2. CASE wb.k # 3
      <4>1. wb.k + 1 \in 0 .. 3
        BY <1>1, <3>2 DEF WbTypes
      <4> QED
        BY <1>1, <2>1, <3>2, <4>1 DEF WbTypes
    <3> QED
      BY <3>1, <3>2
  <2>3. LatchInv'
    BY <1>1, <2>1, <2>2 DEF LatchInv, At, Done, WbTypes
  <2> QED
    BY <1>1, <2>1, <2>2, <2>3 DEF WbTypes
<1>6. CASE Acknowledge
  <2>1. /\ wb' = [wb EXCEPT !.phase = "idle"] /\ At("done") /\ req' = FALSE
        /\ pc' \in {pc, pc + 1}
    BY <1>6 DEF Acknowledge
  <2>2. /\ wb' \in WbTypes
        /\ wb'.phase = "idle"
    BY <1>1, <2>1 DEF WbTypes
  <2>3. req /\ pc \in 1 .. Len(main)
    BY <1>2, <2>1 DEF LatchInv, At
  <2>4. LatchInv'
    BY <2>1, <2>2 DEF LatchInv, At
  <2>5. pc' \in 1 .. Len(main) + 1
    BY <1>1, <2>1, <2>3 DEF WbTypes
  <2> QED
    BY <1>1, <2>1, <2>2, <2>4, <2>5 DEF WbTypes
<1>7. CASE Issue
  <2>1. pc' = pc /\ req' = TRUE /\ wb' = wb /\ ~Done /\ At("idle")
    BY <1>7 DEF Issue
  <2>2. LatchInv'
    BY <1>1, <2>1 DEF LatchInv, At, Done, WbTypes
  <2> QED
    BY <1>1, <2>1, <2>2 DEF WbTypes
<1>8. CASE SpiEdge
  <2>1. pc' = pc /\ req' = req /\ wb' = wb
    BY <1>8 DEF SpiEdge, processor
  <2>2. LatchInv'
    BY <1>1, <2>1 DEF LatchInv, At, Done, Access, WbTypes
  <2> QED
    BY <1>1, <2>1, <2>2 DEF WbTypes
<1> QED
  BY <1>3, <1>4, <1>5, <1>6, <1>7, <1>8, Moves

LEMMA LowFacts ==
  /\ Low(0) = {} /\ Low(3) = 0 .. 23 /\ Low(4) = 0 .. 31
  /\ \A k \in 0 .. 3 : Low(k + 1) = Low(k) \cup Bits(k) /\ Low(k) \cap Bits(k) = {}
  /\ \A k \in 2 .. 4 : Bit \subseteq Low(k)
<1>1. Low(0) = {} /\ Low(3) = 0 .. 23 /\ Low(4) = 0 .. 31
  BY DEF Low
<1>2. ASSUME NEW k \in 0 .. 3
      PROVE  Low(k + 1) = Low(k) \cup Bits(k) /\ Low(k) \cap Bits(k) = {}
  BY DEF Low, Bits
<1>3. ASSUME NEW k \in 2 .. 4 PROVE Bit \subseteq Low(k)
  BY DEF Low, Bit, CtrlBits
<1> QED
  BY <1>1, <1>2, <1>3

\* The steps that write no byte.
LEMMA QuietStep ==
  ASSUME StartTypeOK, BackDoorIdle \/ Setup \/ Acknowledge \/ Issue \/ SpiEdge
  PROVE  /\ UNCHANGED <<gpio_configure, gpio_data, gpio_buf>>
         /\ serial_xfer' \in BOOLEAN /\ (serial_xfer' => serial_xfer)
<1>1. serial_xfer \in BOOLEAN
  BY DEF StartTypeOK, WbTypes
<1>2. ASSUME NEW edge, ReadEdge(edge)
      PROVE  /\ UNCHANGED <<gpio_configure, gpio_data, gpio_buf>>
             /\ serial_xfer' \in BOOLEAN /\ (serial_xfer' => serial_xfer)
  BY <1>1, <1>2 DEF ReadEdge
<1>3. CASE BackDoorIdle
  BY <1>2, <1>3 DEF BackDoorIdle
<1>4. CASE Setup \/ Acknowledge \/ Issue
  BY <1>1, <1>4 DEF Setup, Acknowledge, Issue, registers
<1>5. CASE SpiEdge
  BY <1>2, <1>5 DEF SpiEdge
<1> QED
  BY <1>3, <1>4, <1>5

\* What the registers hold after a byte is written.
LEMMA RegisterTypes ==
  ASSUME StartTypeOK, LatchInv, ConfigInv, ReadWrite
  PROVE  /\ gpio_configure' \in [Pads -> SUBSET Bit]
         /\ gpio_buf' \in SUBSET (0 .. 23)
         /\ serial_xfer' \in BOOLEAN /\ (serial_xfer' => serial_xfer \/ pc >= 33)
<1>1. /\ gpio_configure \in [Pads -> SUBSET Bit] /\ gpio_buf \in SUBSET (0 .. 23)
      /\ serial_xfer \in BOOLEAN /\ pc \in 1 .. Len(main) /\ wb.k \in 0 .. 3
      /\ Len(main) \in Nat
  BY LatchFacts, MainLength DEF StartTypeOK, WbTypes, ReadWrite
<1>2. CASE pc <= 32
  <2>1. PadAt(pc) \in Pads
    BY <1>1, <1>2, AccessFacts, SetTypes
  <2>2. UNCHANGED serial_xfer /\ UNCHANGED gpio_buf
    BY <1>2, ConfigByte
  <2>3. gpio_configure' \in [Pads -> SUBSET Bit]
    <3>1. (gpio_configure[PadAt(pc)] \ Bits(wb.k)) \cup (ModeOf(PadAt(pc)) \cap Bits(wb.k) \cap Bit)
            \in SUBSET Bit
      BY <1>1, <2>1
    <3> QED
      BY <1>1, <1>2, <2>1, <3>1, ConfigByte
  <2> QED
    BY <1>1, <2>2, <2>3, Zenon
<1>3. CASE pc \in 33 .. 34
  <2>1. UNCHANGED <<gpio_configure, gpio_buf>> /\ serial_xfer' \in BOOLEAN
    BY <1>3, TransferByte
  <2>2. pc >= 33
    BY <1>3
  <2> QED
    BY <1>1, <2>1, <2>2
<1>4. CASE pc >= 35
  <2>1. UNCHANGED gpio_configure /\ UNCHANGED serial_xfer
    BY <1>4, DataByte
  <2>2. gpio_buf' \in SUBSET (0 .. 23)
    <3>1. CASE wb.k < 3
      <4>1. gpio_buf' = (gpio_buf \ Bits(wb.k)) \cup (Access.word \cap Bits(wb.k))
        BY <1>4, <3>1, DataByte
      <4>2. wb.k \in 0 .. 2
        BY <1>1, <3>1
      <4>3. Bits(wb.k) \subseteq 0 .. 23
        BY <4>2 DEF Bits
      <4> QED
        BY <1>1, <4>1, <4>3
    <3>2. CASE wb.k = 3
      BY <1>1, <1>4, <3>2, DataByte
    <3> QED
      BY <1>1, <3>1, <3>2
  <2> QED
    BY <1>1, <2>1, <2>2, Zenon
<1> QED
  BY <1>1, <1>2, <1>3, <1>4

LEMMA TypeStep ==
  ASSUME StartTypeOK, LatchInv, ConfigInv, Next
  PROVE  StartTypeOK'
<1>1. CASE ReadWrite
  BY <1>1, ControlStep, RegisterTypes DEF StartTypeOK, WbTypes
<1>2. CASE BackDoorIdle \/ Setup \/ Acknowledge \/ Issue \/ SpiEdge
  <2>1. /\ UNCHANGED <<gpio_configure, gpio_data, gpio_buf>> /\ serial_xfer' \in BOOLEAN
    BY <1>2, QuietStep
  <2> QED
    BY <2>1, ControlStep DEF StartTypeOK, WbTypes
<1> QED
  BY <1>1, <1>2, Moves

LEMMA TransferStep ==
  ASSUME StartTypeOK, LatchInv, ConfigInv, LoaderInv, TransferInv, Next
  PROVE  TransferInv'
<1>1. pc \in Int /\ pc' \in {pc, pc + 1}
  BY ControlStep DEF StartTypeOK, WbTypes
<1>2. serial_xfer' => serial_xfer \/ pc >= 33
  BY Moves, QuietStep, RegisterTypes
<1>3. ld'.state # "IDLE" => serial_xfer \/ ld.state # "IDLE"
  <2>1. CASE LoaderIdle
    <3>1. SUFFICES ASSUME ~serial_xfer PROVE ld'.state = "IDLE"
      BY <2>1 DEF LoaderIdle
    <3> QED
      BY <2>1, <3>1 DEF LoaderIdle, LoaderInv, Loads, LoaderTypes
  <2>2. CASE LoaderStart \/ LoaderShift \/ LoaderLoad
    BY <2>2 DEF LoaderStart, LoaderShift, LoaderLoad
  <2>3. CASE Issue \/ SpiEdge
    BY <2>3 DEF Issue, SpiEdge, chains
  <2> QED
    BY <2>1, <2>2, <2>3, Moves DEF Loader
<1> QED
  BY <1>1, <1>2, <1>3 DEF TransferInv

\* The other steps leave the count of the bytes.
LEMMA WrittenStays ==
  ASSUME StartTypeOK, BackDoorIdle \/ Setup \/ Issue \/ SpiEdge
  PROVE  Written' = Written
<1>1. wb \in WbTypes
  BY DEF StartTypeOK
<1>2. CASE BackDoorIdle
  <2>1. /\ At("idle") /\ wb' = [wb EXCEPT !.busy = FALSE, !.phase = IF req THEN "setup" ELSE "idle",
                                          !.k = 0]
    BY <1>2 DEF BackDoorIdle
  <2>2. /\ Written = 0 /\ wb'.k = 0 /\ wb'.phase = IF req THEN "setup" ELSE "idle"
    BY <1>1, <2>1 DEF Written, At, WbTypes
  <2> QED
    BY <2>2 DEF Written, At
<1>3. CASE Setup
  <2>1. /\ At("setup") /\ wb'.k = wb.k /\ wb'.phase \in {"setup", "rw"}
    BY <1>1, <1>3 DEF Setup, WbTypes
  <2> QED
    BY <2>1 DEF Written, At
<1>4. CASE Issue \/ SpiEdge
  BY <1>4 DEF Issue, SpiEdge, Written, At
<1> QED
  BY <1>2, <1>3, <1>4

\* Each pad keeps the mode it has been given.
LEMMA ConfigStep ==
  ASSUME StartTypeOK, LatchInv, ConfigInv, Next
  PROVE  ConfigInv'
<1>1. /\ pc \in 1 .. Len(main) + 1 /\ Len(main) \in Nat /\ wb \in WbTypes
      /\ wb.k \in 0 .. 3 /\ gpio_configure \in [Pads -> SUBSET Bit]
  BY MainLength DEF StartTypeOK, WbTypes
<1>. DEFINE Mixed(p, n) == (gpio_configure_default[p] \ Low(n)) \cup (ModeOf(p) \cap Low(n))
<1>2. ASSUME NEW p \in Pads
      PROVE  /\ gpio_configure_default[p] \in SUBSET Bit /\ ModeOf(p) \in SUBSET Bit
             /\ p <= 31 => PlaceOf(p) \in 1 .. 32
             /\ p \in 0 .. 37
             /\ Mixed(p, 0) = gpio_configure_default[p]
             /\ \A n \in 2 .. 4 : Mixed(p, n) = ModeOf(p)
  <2>1. p \in 0 .. 37 /\ (p <= 31 => p \in 0 .. 31)
    BY SetTypes
  <2>2. p <= 31 => PlaceOf(p) \in 1 .. 32
    BY <2>1, Places
  <2>3. gpio_configure_default[p] \in SUBSET Bit /\ ModeOf(p) \in SUBSET Bit
    BY SetTypes
  <2>4. Mixed(p, 0) = gpio_configure_default[p]
    BY LowFacts
  <2>5. ASSUME NEW n \in 2 .. 4 PROVE Mixed(p, n) = ModeOf(p)
    <3>1. Bit \subseteq Low(n)
      BY LowFacts
    <3> QED
      BY <2>3, <3>1
  <2> QED
    BY <2>1, <2>2, <2>3, <2>4, <2>5
<1>3. ASSUME NEW p \in Pads
      PROVE  gpio_configure[p] = IF p <= 31 /\ PlaceOf(p) = pc THEN Mixed(p, Written)
                                                             ELSE Mode(p, pc - 1)
  BY DEF ConfigInv
<1>. HIDE DEF Mixed
<1>4. ASSUME NEW p \in Pads,
             gpio_configure'[p] = IF p <= 31 /\ PlaceOf(p) = pc' THEN Mixed(p, Written')
                                                               ELSE Mode(p, pc' - 1)
      PROVE  gpio_configure'[p] =
               IF p <= 31 /\ PlaceOf(p) = pc'
               THEN (gpio_configure_default[p] \ Low(Written')) \cup (ModeOf(p) \cap Low(Written'))
               ELSE Mode(p, pc' - 1)
  BY <1>4 DEF Mixed
<1>5. SUFFICES ASSUME NEW p \in Pads
      PROVE  gpio_configure'[p] = IF p <= 31 /\ PlaceOf(p) = pc' THEN Mixed(p, Written')
                                                               ELSE Mode(p, pc' - 1)
  BY <1>4, Zenon DEF ConfigInv, ModeOf, Mode
<1>6. CASE ReadWrite
  <2>1. /\ pc' = pc /\ At("rw") /\ wb.phase = "rw" /\ Written = wb.k
    BY <1>6 DEF ReadWrite, processor, At, Written
  <2>2. Written' = wb.k + 1
    <3>1. wb' = IF wb.k = 3 THEN [wb EXCEPT !.phase = "done"]
                            ELSE [wb EXCEPT !.phase = "setup", !.k = @ + 1]
      BY <1>6 DEF ReadWrite
    <3>2. CASE wb.k = 3
      BY <1>1, <3>1, <3>2 DEF Written, At, WbTypes
    <3>3. CASE wb.k # 3
      BY <1>1, <3>1, <3>3 DEF Written, At, WbTypes
    <3> QED
      BY <3>2, <3>3
  <2>3. CASE pc <= 32
    <3>1. pc \in 1 .. 32
      BY <1>1, <2>3
    <3>2. PadAt(pc) \in 0 .. 31 /\ PadAt(pc) \in Pads /\ PlaceOf(PadAt(pc)) = pc
      BY <3>1, Places, SetTypes
    <3>3. CASE p = PadAt(pc)
      <4>1. p <= 31 /\ PlaceOf(p) = pc'
        BY <2>1, <3>2, <3>3
      <4>2. gpio_configure[p] = Mixed(p, wb.k)
        BY <1>3, <2>1, <4>1
      <4>3. CASE wb.k <= 1
        <5>1. gpio_configure'[p] = (gpio_configure[p] \ Bits(wb.k))
                                     \cup (ModeOf(p) \cap Bits(wb.k) \cap Bit)
          BY <1>1, <1>6, <2>3, <3>2, <3>3, <4>3, ConfigByte
        <5>2. Low(wb.k + 1) = Low(wb.k) \cup Bits(wb.k) /\ Low(wb.k) \cap Bits(wb.k) = {}
          BY <1>1, LowFacts
        <5>3. gpio_configure'[p] = Mixed(p, wb.k + 1)
          BY <1>2, <4>2, <5>1, <5>2 DEF Mixed
        <5> QED
          BY <2>2, <4>1, <5>3
      <4>4. CASE ~(wb.k <= 1)
        <5>1. gpio_configure'[p] = gpio_configure[p]
          BY <1>6, <2>3, <4>4, ConfigByte
        <5>2. wb.k \in 2 .. 4 /\ wb.k + 1 \in 2 .. 4
          BY <1>1, <4>4
        <5>3. Mixed(p, wb.k) = Mixed(p, wb.k + 1)
          BY <1>2, <5>2
        <5> QED
          BY <2>2, <4>1, <4>2, <5>1, <5>3
      <4> QED
        BY <4>3, <4>4
    <3>4. CASE p # PadAt(pc)
      <4>1. gpio_configure'[p] = gpio_configure[p]
        BY <1>1, <1>6, <2>3, <3>2, <3>4, ConfigByte
      <4>2. ~(p <= 31 /\ PlaceOf(p) = pc)
        <5>1. SUFFICES ASSUME p <= 31, PlaceOf(p) = pc PROVE FALSE
          OBVIOUS
        <5>2. p \in 0 .. 31
          BY <1>2, <5>1
        <5> QED
          BY <3>4, <5>1, <5>2, Places
      <4> QED
        BY <1>3, <2>1, <4>1, <4>2
    <3> QED
      BY <3>3, <3>4
  <2>4. CASE pc >= 33
    <3>1. gpio_configure'[p] = gpio_configure[p]
      <4>1. CASE pc \in 33 .. 34
        BY <1>6, <4>1, TransferByte
      <4>2. CASE pc >= 35
        BY <1>6, <4>2, DataByte
      <4> QED
        BY <1>1, <2>4, <4>1, <4>2
    <3>2. ~(p <= 31 /\ PlaceOf(p) = pc)
      <4>1. SUFFICES ASSUME p <= 31, PlaceOf(p) = pc PROVE FALSE
        OBVIOUS
      <4>2. PlaceOf(p) \in 1 .. 32
        BY <1>2, <4>1
      <4> QED
        BY <1>1, <2>4, <4>1, <4>2
    <3> QED
      BY <1>3, <2>1, <3>1, <3>2
  <2> QED
    BY <1>1, <2>3, <2>4
<1>7. CASE Acknowledge
  <2>1. /\ At("done") /\ Written = 4 /\ gpio_configure' = gpio_configure
        /\ wb' = [wb EXCEPT !.phase = "idle"]
        /\ pc' = IF Answers THEN pc + 1 ELSE pc
    BY <1>7 DEF Acknowledge, registers, At, Written
  <2>2. Written' = 0
    BY <1>1, <2>1 DEF Written, At, WbTypes
  <2>3. CASE pc' = pc + 1
    <3>1. CASE p <= 31 /\ PlaceOf(p) = pc
      <4>1. gpio_configure[p] = ModeOf(p)
        BY <1>2, <1>3, <2>1, <3>1
      <4>2. Mode(p, pc' - 1) = ModeOf(p)
        BY <1>1, <1>2, <2>3, <3>1 DEF Mode
      <4>3. PlaceOf(p) # pc'
        BY <1>1, <2>3, <3>1
      <4> QED
        BY <2>1, <4>1, <4>2, <4>3
    <3>2. CASE p <= 31 /\ PlaceOf(p) = pc + 1
      <4>1. gpio_configure[p] = Mode(p, pc - 1)
        BY <1>1, <1>3, <3>2
      <4>2. Mode(p, pc - 1) = gpio_configure_default[p]
        BY <1>1, <3>2 DEF Mode
      <4> QED
        BY <1>2, <2>1, <2>2, <2>3, <3>2, <4>1, <4>2
    <3>3. CASE ~(p <= 31 /\ PlaceOf(p) \in {pc, pc + 1})
      <4>1. gpio_configure[p] = Mode(p, pc - 1)
        BY <1>3, <3>3
      <4>2. Mode(p, pc - 1) = Mode(p, pc)
        <5>1. CASE p <= 31
          <6>1. PlaceOf(p) \in 1 .. 32 /\ PlaceOf(p) # pc
            BY <1>2, <3>3, <5>1
          <6>3. PlaceOf(p) \in Int
            BY <6>1
          <6>4. pc \in Int
            BY <1>1
          <6>2. PlaceOf(p) <= pc - 1 <=> PlaceOf(p) <= pc
            <7>. DEFINE place == PlaceOf(p)
            <7>1. place \in Int /\ pc \in Int /\ place # pc
              BY <6>1, <6>3, <6>4
            <7>. HIDE DEF place
            <7>2. place <= pc - 1 <=> place <= pc
              BY ONLY <7>1
            <7>. QED
              BY <7>2 DEF place
          <6> QED
            BY <5>1, <6>2 DEF Mode
        <5>2. CASE ~(p <= 31)
          BY <5>2 DEF Mode
        <5> QED
          BY <5>1, <5>2
      <4>3. pc' - 1 = pc
        BY <1>1, <2>3
      <4> QED
        BY <2>1, <2>3, <3>3, <4>1, <4>2, <4>3
    <3> QED
      BY <3>1, <3>2, <3>3
  <2>4. CASE pc' = pc
    <3>1. ~Answers
      BY <1>1, <2>1, <2>4
    <3>2. pc = 34
      <4>1. ~Access.we
        BY <3>1 DEF Answers
      <4>2. pc \in 1 .. Len(main)
        BY <1>1, <2>1 DEF LatchInv, At, Done
      <4> QED
        BY <4>1, <4>2, AccessFacts
    <3>3. ~(p <= 31 /\ PlaceOf(p) = pc)
      BY <1>2, <3>2
    <3> QED
      BY <1>3, <2>1, <2>4, <3>3
  <2> QED
    BY <2>1, <2>3, <2>4
<1>8. CASE BackDoorIdle \/ Setup \/ Issue \/ SpiEdge
  <2>1. gpio_configure' = gpio_configure /\ pc' = pc
    BY <1>8, QuietStep DEF BackDoorIdle, Setup, Issue, SpiEdge, processor
  <2>2. Written' = Written
    BY <1>8, WrittenStays
  <2> QED
    BY <1>3, <2>1, <2>2
<1> QED
  BY <1>6, <1>7, <1>8, Moves

\* A word goes to the pads with its last byte.
LEMMA PinsStep ==
  ASSUME StartTypeOK, LatchInv, ConfigInv, PinsInv, Next
  PROVE  PinsInv'
<1>1. /\ pc \in 1 .. Len(main) + 1 /\ Len(main) \in Nat /\ wb \in WbTypes
      /\ wb.k \in 0 .. 3 /\ gpio_buf \in SUBSET (0 .. 23) /\ (Words' = Words)
  BY MainLength DEF StartTypeOK, WbTypes, Words
<1>2. CASE ReadWrite
  <2>1. /\ pc' = pc /\ At("rw") /\ wb.phase = "rw" /\ Written = wb.k /\ pc \in 1 .. Len(main)
        /\ Access' = Access /\ ~Done /\ ~Done'
    BY <1>1, <1>2, LatchFacts DEF ReadWrite, processor, At, Written, Access, Done
  <2>2. Written' = wb.k + 1
    <3>1. wb' = IF wb.k = 3 THEN [wb EXCEPT !.phase = "done"]
                            ELSE [wb EXCEPT !.phase = "setup", !.k = @ + 1]
      BY <1>2 DEF ReadWrite
    <3>2. CASE wb.k = 3
      BY <1>1, <3>1, <3>2 DEF Written, At, WbTypes
    <3>3. CASE wb.k # 3
      BY <1>1, <3>1, <3>3 DEF Written, At, WbTypes
    <3> QED
      BY <3>2, <3>3
  <2>3. CASE pc < 35
    <3>1. UNCHANGED gpio_data
      <4>1. CASE pc <= 32
        BY <1>2, <4>1, ConfigByte
      <4>2. CASE pc \in 33 .. 34
        BY <1>2, <4>2, TransferByte
      <4> QED
        BY <2>1, <2>3, <4>1, <4>2, <1>1
    <3>2. ~(pc' >= 35)
      BY <1>1, <2>1, <2>3
    <3> QED
      BY <1>1, <3>1, <3>2 DEF PinsInv
  <2>4. CASE pc >= 35
    <3>1. /\ gpio_buf \cap Low(wb.k) = Access.word \cap Low(wb.k) \cap (0 .. 23)
          /\ Access.word \in SUBSET (0 .. 31) /\ Access.word \in Words
          /\ Low(wb.k + 1) = Low(wb.k) \cup Bits(wb.k) /\ Low(wb.k) \cap Bits(wb.k) = {}
      BY <1>1, <2>1, <2>4, AccessFacts, LowFacts DEF PinsInv
    <3>2. CASE wb.k < 3
      <4>1. /\ gpio_data' = gpio_data
            /\ gpio_buf' = (gpio_buf \ Bits(wb.k)) \cup (Access.word \cap Bits(wb.k))
        BY <1>2, <2>4, <3>2, DataByte
      <4>2. Bits(wb.k) \subseteq 0 .. 23
        <5>1. wb.k \in 0 .. 2
          BY <1>1, <3>2
        <5> QED
          BY <5>1 DEF Bits
      <4>3. gpio_buf' \cap Low(wb.k + 1) = Access.word \cap Low(wb.k + 1) \cap (0 .. 23)
        BY <3>1, <4>1, <4>2
      <4> QED
        BY <1>1, <2>1, <2>2, <4>1, <4>3 DEF PinsInv
    <3>3. CASE wb.k = 3
      <4>1. gpio_data' = gpio_buf \cup (Access.word \cap Bits(3)) /\ gpio_buf' = gpio_buf
        BY <1>2, <2>4, <3>3, DataByte
      <4>2. Low(3) = 0 .. 23 /\ Low(4) = 0 .. 31 /\ Low(4) = Low(3) \cup Bits(3)
        BY <3>1, <3>3, LowFacts
      <4>3. gpio_buf = Access.word \cap (0 .. 23)
        BY <1>1, <3>1, <3>3, <4>2
      <4>4. gpio_data' = Access.word
        BY <3>1, <4>1, <4>2, <4>3
      <4>5. gpio_buf' \cap Low(4) = Access.word \cap Low(4) \cap (0 .. 23)
        BY <4>1, <4>3
      <4>6. Written' = 4
        BY <2>2, <3>3
      <4> QED
        BY <1>1, <2>1, <3>1, <4>4, <4>5, <4>6 DEF PinsInv
    <3> QED
      BY <1>1, <3>2, <3>3
  <2> QED
    BY <1>1, <2>3, <2>4
<1>3. CASE Acknowledge
  <2>1. Written' = 0
    BY <1>1, <1>3 DEF Acknowledge, Written, At, WbTypes
  <2>2. gpio_data' = gpio_data
    BY <1>3, QuietStep
  <2> QED
    BY <1>1, <2>1, <2>2, LowFacts DEF PinsInv
<1>4. CASE BackDoorIdle \/ Setup \/ Issue \/ SpiEdge
  <2>1. gpio_data' = gpio_data /\ gpio_buf' = gpio_buf /\ pc' = pc /\ Access' = Access
    BY <1>4, QuietStep DEF BackDoorIdle, Setup, Issue, SpiEdge, processor, Access
  <2>2. Written' = Written
    BY <1>4, WrittenStays
  <2>3. Done' <=> Done
    BY <2>1 DEF Done
  <2> QED
    BY <1>1, <2>1, <2>2, <2>3 DEF PinsInv
<1> QED
  BY <1>2, <1>3, <1>4, Moves

-----------------------------------------------------------------------------
(* The chains.                                                             *)

LEMMA ChainFacts ==
  /\ Pads = 0 .. 37 /\ Bit = 0 .. 12 /\ Chain = 0 .. 18
  /\ \A q \in Chain : First[q] = q /\ Second[q] = 37 - q
                      /\ First[q] \in Pads /\ Second[q] \in Pads
  /\ \A p \in Pads : Final(p) \in SUBSET Bit
<1>1. Pads = 0 .. 37 /\ Bit = 0 .. 12 /\ Chain = 0 .. 18
  BY DEF Pads, LastPad, Bit, CtrlBits, Chain, Pads1
<1>2. ASSUME NEW q \in Chain
      PROVE  /\ First[q] = q /\ Second[q] = 37 - q
             /\ First[q] \in Pads /\ Second[q] \in Pads
  BY <1>1 DEF First, Second, LastPad
<1>3. \A p \in Pads : Final(p) \in SUBSET Bit
  BY SetTypes, Zenon DEF Final
<1> QED
  BY <1>1, <1>2, <1>3, Zenon

\* A shift moves each bit up and takes one in.
LEMMA ShiftedBits ==
  ASSUME NEW r \in SUBSET Bit, NEW x \in BOOLEAN
  PROVE  /\ Shifted(r) \cup Flag(x, 0) \in SUBSET Bit
         /\ Shifted(r) \in SUBSET Bit
         /\ \A b \in Bit : b \in Shifted(r) <=> b > 0 /\ b - 1 \in r
         /\ \A b \in Bit : b > 0 => (b \in Shifted(r) \cup Flag(x, 0) <=> b - 1 \in r)
         /\ 0 \in Shifted(r) \cup Flag(x, 0) <=> x
<1>1. Bit = 0 .. 12 /\ CtrlBits = 13
  BY ChainFacts DEF CtrlBits
<1>2. Shifted(r) \in SUBSET Bit
  BY <1>1 DEF Shifted
<1>3. ASSUME NEW b \in Bit PROVE b \in Shifted(r) <=> b > 0 /\ b - 1 \in r
  <2>1. ASSUME b \in Shifted(r) PROVE b > 0 /\ b - 1 \in r
    BY <1>1, <2>1 DEF Shifted
  <2>2. ASSUME b > 0, b - 1 \in r PROVE b \in Shifted(r)
    <3>1. b - 1 \in r \ {CtrlBits - 1} /\ b = b - 1 + 1
      BY <1>1, <2>2
    <3> QED
      BY <3>1 DEF Shifted
  <2> QED
    BY <2>1, <2>2
<1>4. /\ 0 \in Bit /\ Flag(x, 0) \subseteq {0} /\ (0 \in Flag(x, 0) <=> x)
  BY <1>1 DEF Flag
<1>5. 0 \notin Shifted(r)
  BY <1>1, <1>3, <1>4
<1>6. ASSUME NEW b \in Bit, b > 0 PROVE b \notin Flag(x, 0)
  BY <1>1, <1>4, <1>6
<1> QED
  BY <1>2, <1>3, <1>4, <1>5, <1>6

\* The falling edge: one more bit has left the staging register.
LEMMA StagedShift ==
  ASSUME NEW s, NEW p \in Pads, NEW c \in Bit, Staged(s, p, c)
  PROVE  Staged(Shifted(s), p, c + 1)
<1>1. s \in SUBSET Bit /\ \A b \in Bit : b \in s <=> b >= c /\ b - c \in Final(p)
  BY DEF Staged
<1>2. Bit = 0 .. 12
  BY ChainFacts
<1>3. Shifted(s) \in SUBSET Bit /\ \A b \in Bit : b \in Shifted(s) <=> b > 0 /\ b - 1 \in s
  BY <1>1, ShiftedBits
<1>4. ASSUME NEW b \in Bit
      PROVE  b \in Shifted(s) <=> b >= c + 1 /\ b - (c + 1) \in Final(p)
  <2>1. CASE b > 0
    <3>1. b - 1 \in Bit /\ b - 1 - c = b - (c + 1) /\ (b - 1 >= c <=> b >= c + 1)
      BY <1>2, <2>1
    <3>2. b - 1 \in s <=> b - 1 >= c /\ b - 1 - c \in Final(p)
      BY <1>1, <3>1, Zenon
    <3> QED
      BY <1>3, <2>1, <3>1, <3>2
  <2>2. CASE ~(b > 0)
    <3>1. ~(b >= c + 1)
      BY <1>2, <2>2
    <3> QED
      BY <1>3, <2>2, <3>1
  <2> QED
    BY <2>1, <2>2
<1> QED
  BY <1>3, <1>4 DEF Staged

\* The rising edge: one more bit of pad n is in the chain.
LEMMA CarriesShift ==
  ASSUME NEW sr, NEW tr, NEW chain, NEW s, NEW n \in Chain, NEW c \in Bit,
         \A q \in Chain : chain[q] \in Pads /\ sr[chain[q]] \in SUBSET Bit,
         Carries(sr, chain, n, c), Staged(s, chain[n], c),
         tr[chain[0]] = Shifted(sr[chain[0]]) \cup Flag(SerialData(s), 0),
         \A q \in 1 .. 18 :
           tr[chain[q]] = Shifted(sr[chain[q]]) \cup Flag(SerialData(sr[chain[q - 1]]), 0)
  PROVE  Carries(tr, chain, n, c + 1)
<1>1. Bit = 0 .. 12 /\ Chain = 0 .. 18 /\ CtrlBits = 13
  BY ChainFacts DEF CtrlBits
<1>2. ASSUME NEW q \in Chain, NEW b \in Bit
      PROVE  /\ b < c /\ n + q \in Chain =>
                  (b \in sr[chain[q]] <=> 13 - c + b \in Final(chain[n + q]))
             /\ b >= c /\ n + q + 1 \in Chain =>
                  (b \in sr[chain[q]] <=> b - c \in Final(chain[n + q + 1]))
  BY <1>1, Zenon DEF Carries
<1>3. ASSUME NEW q \in Chain
      PROVE  \E x \in BOOLEAN : /\ tr[chain[q]] = Shifted(sr[chain[q]]) \cup Flag(x, 0)
                                /\ n + q \in Chain => (x <=> 12 - c \in Final(chain[n + q]))
  <2>1. CASE q = 0
    <3>1. tr[chain[q]] = Shifted(sr[chain[q]]) \cup Flag(SerialData(s), 0)
      BY <2>1
    <3>2. 12 \in Bit /\ 12 >= c /\ n + q = n
      BY <1>1, <2>1
    <3>3. SerialData(s) <=> 12 \in s
      BY <1>1 DEF SerialData
    <3>4. 12 \in s <=> 12 - c \in Final(chain[n])
      BY <3>2 DEF Staged
    <3>5. SerialData(s) \in BOOLEAN
      BY DEF SerialData
    <3>6. n + q \in Chain => (SerialData(s) <=> 12 - c \in Final(chain[n + q]))
      BY <3>2, <3>3, <3>4
    <3> QED
      BY <3>1, <3>5, <3>6, Zenon
  <2>2. CASE q # 0
    <3>1. q \in 1 .. 18 /\ q - 1 \in Chain /\ n + (q - 1) + 1 = n + q /\ 12 \in Bit /\ 12 >= c
      BY <1>1, <2>2
    <3>2. tr[chain[q]] = Shifted(sr[chain[q]]) \cup Flag(SerialData(sr[chain[q - 1]]), 0)
      BY <3>1
    <3>3. SerialData(sr[chain[q - 1]]) <=> 12 \in sr[chain[q - 1]]
      BY <1>1 DEF SerialData
    <3>4. n + q \in Chain => (12 \in sr[chain[q - 1]] <=> 12 - c \in Final(chain[n + q]))
      BY <1>2, <3>1
    <3>5. SerialData(sr[chain[q - 1]]) \in BOOLEAN
      BY DEF SerialData
    <3>6. n + q \in Chain => (SerialData(sr[chain[q - 1]]) <=> 12 - c \in Final(chain[n + q]))
      BY <3>3, <3>4
    <3> QED
      BY <3>2, <3>5, <3>6, Zenon
  <2> QED
    BY <2>1, <2>2
<1>4. ASSUME NEW q \in Chain, NEW b \in Bit
      PROVE  /\ b < c + 1 /\ n + q \in Chain =>
                  (b \in tr[chain[q]] <=> 13 - (c + 1) + b \in Final(chain[n + q]))
             /\ b >= c + 1 /\ n + q + 1 \in Chain =>
                  (b \in tr[chain[q]] <=> b - (c + 1) \in Final(chain[n + q + 1]))
  <2>1. PICK x \in BOOLEAN : /\ tr[chain[q]] = Shifted(sr[chain[q]]) \cup Flag(x, 0)
                             /\ n + q \in Chain => (x <=> 12 - c \in Final(chain[n + q]))
    BY <1>3
  <2>2. sr[chain[q]] \in SUBSET Bit
    OBVIOUS
  <2>3. CASE b = 0
    <3>1. ~(b >= c + 1) /\ 13 - (c + 1) + b = 12 - c
      BY <1>1, <2>3
    <3>2. b \in tr[chain[q]] <=> x
      BY <2>1, <2>2, <2>3, ShiftedBits
    <3> QED
      BY <2>1, <3>1, <3>2
  <2>4. CASE b > 0
    <3>1. /\ b - 1 \in Bit /\ (b - 1 < c <=> b < c + 1) /\ (b - 1 >= c <=> b >= c + 1)
          /\ 13 - c + (b - 1) = 13 - (c + 1) + b /\ b - 1 - c = b - (c + 1)
      BY <1>1, <2>4
    <3>2. b \in tr[chain[q]] <=> b - 1 \in sr[chain[q]]
      BY <2>1, <2>2, <2>4, ShiftedBits
    <3>3. /\ b - 1 < c /\ n + q \in Chain =>
               (b - 1 \in sr[chain[q]] <=> 13 - c + (b - 1) \in Final(chain[n + q]))
          /\ b - 1 >= c /\ n + q + 1 \in Chain =>
               (b - 1 \in sr[chain[q]] <=> b - 1 - c \in Final(chain[n + q + 1]))
      BY <1>2, <3>1, Zenon
    <3> QED
      BY <3>1, <3>2, <3>3
  <2> QED
    BY <1>1, <2>3, <2>4
<1> QED
  BY <1>1, <1>4, Zenon DEF Carries

\* A pad of which every bit is in the chain is one of those behind.
LEMMA CarriesAll ==
  ASSUME NEW sr, NEW chain, NEW n \in Chain, Carries(sr, chain, n, CtrlBits)
  PROVE  Carries(sr, chain, n - 1, 0)
<1>1. Bit = 0 .. 12 /\ Chain = 0 .. 18 /\ CtrlBits = 13
  BY ChainFacts DEF CtrlBits
<1>2. ASSUME NEW q \in Chain, NEW b \in Bit
      PROVE  /\ b < 0 /\ n - 1 + q \in Chain =>
                  (b \in sr[chain[q]] <=> CtrlBits - 0 + b \in Final(chain[n - 1 + q]))
             /\ b >= 0 /\ n - 1 + q + 1 \in Chain =>
                  (b \in sr[chain[q]] <=> b - 0 \in Final(chain[n - 1 + q + 1]))
  <2>1. /\ ~(b < 0) /\ b < CtrlBits /\ n - 1 + q + 1 = n + q /\ CtrlBits - CtrlBits + b = b
        /\ b - 0 = b
    BY <1>1
  <2>2. n + q \in Chain =>
          (b \in sr[chain[q]] <=> CtrlBits - CtrlBits + b \in Final(chain[n + q]))
    BY <2>1, Zenon DEF Carries
  <2> QED
    BY <2>1, <2>2
<1> QED
  BY <1>2, Zenon DEF Carries

\* When all have been shifted in, each register has the configuration of its pad.
LEMMA CarriesEach ==
  ASSUME NEW sr, NEW chain, NEW q \in Chain, chain[q] \in Pads,
         sr[chain[q]] \in SUBSET Bit, Carries(sr, chain, -1, 0)
  PROVE  sr[chain[q]] = Final(chain[q])
<1>1. Bit = 0 .. 12 /\ Chain = 0 .. 18 /\ Final(chain[q]) \in SUBSET Bit
  BY ChainFacts
<1>2. ASSUME NEW b \in Bit PROVE b \in sr[chain[q]] <=> b \in Final(chain[q])
  <2>1. b >= 0 /\ -1 + q + 1 = q /\ b - 0 = b
    BY <1>1
  <2>2. -1 + q + 1 \in Chain =>
          (b \in sr[chain[q]] <=> b - 0 \in Final(chain[-1 + q + 1]))
    BY <2>1, Zenon DEF Carries
  <2> QED
    BY <2>1, <2>2
<1> QED
  BY <1>1, <1>2

\* Once something is transferred, the configurations are final.
LEMMA ConfigFinal ==
  ASSUME StartTypeOK, ConfigInv, pc >= 33
  PROVE  \A p \in Pads : gpio_configure[p] = Final(p)
<1>1. pc \in Int
  BY DEF StartTypeOK
<1>2. ASSUME NEW p \in Pads PROVE gpio_configure[p] = Final(p)
  <2>1. p <= 31 => PlaceOf(p) \in 1 .. 32
    <3>1. p <= 31 => p \in 0 .. 31
      BY SetTypes
    <3> QED
      BY <3>1, Places
  <2>2. ~(p <= 31 /\ PlaceOf(p) = pc)
    BY <1>1, <2>1
  <2>3. gpio_configure[p] = Mode(p, pc - 1)
    BY <2>2, Zenon DEF ConfigInv
  <2>4. p <= 31 => (PlaceOf(p) <= pc - 1 /\ PlaceOf(p) <= 32)
    BY <1>1, <2>1
  <2> QED
    BY <2>3, <2>4 DEF Final, Mode
<1> QED
  BY <1>2

\* The steps of the loader, one state at a time.
LEMMA IdleStep ==
  ASSUME LoaderInv, serial_xfer \in BOOLEAN, LoaderIdle
  PROVE  Loads(ld', shift_register')
<1>1. /\ ld \in LoaderTypes /\ shift_register' = shift_register
      /\ shift_register \in [Pads -> SUBSET Bit]
      /\ ld' = [ld EXCEPT !.pad1 = Pads1 - 1, !.pad2 = Pads1, !.clock = FALSE,
                          !.busy = serial_xfer,
                          !.state = IF serial_xfer THEN "START" ELSE "IDLE"]
  BY DEF LoaderInv, Loads, LoaderIdle
<1>2. ld' \in LoaderTypes
  <2>1. /\ Pads1 - 1 \in 0 .. 31 /\ Pads1 \in Pads1 .. LastPad + 1 /\ FALSE \in BOOLEAN
        /\ (IF serial_xfer THEN "START" ELSE "IDLE") \in {"IDLE", "START", "XBYTE", "LOAD"}
    BY DEF Pads1, LastPad
  <2> QED
    BY <1>1, <2>1 DEF LoaderTypes
<1>3. ld'.state \in {"IDLE", "START"} /\ ld'.pad1 = 18 /\ ld'.pad2 = 19
  BY <1>1 DEF LoaderTypes, Pads1
<1>4. Moved(shift_register, 18, 0)
  <2>1. ASSUME NEW q \in Chain, NEW b \in Bit
        PROVE  ~(b < 0) /\ 18 + q + 1 \notin Chain
    BY ChainFacts
  <2> QED
    BY <2>1, Zenon DEF Carries, Moved
<1>5. AtStart(ld', shift_register')
  <2>1. LastPad - ld'.pad2 = 18 /\ 18 \in Chain
    BY <1>3, ChainFacts DEF LastPad
  <2> QED
    BY <1>1, <1>3, <1>4, <2>1 DEF AtStart
<1> QED
  BY <1>1, <1>2, <1>3, <1>5 DEF Loads

LEMMA StartStep ==
  ASSUME LoaderInv, LoaderStart, \A p \in Pads : gpio_configure[p] = Final(p)
  PROVE  Loads(ld', shift_register')
<1>1. /\ ld \in LoaderTypes /\ shift_register' = shift_register /\ ld.state = "START"
      /\ shift_register \in [Pads -> SUBSET Bit]
      /\ ld' = [ld EXCEPT !.clock = FALSE, !.count = 0, !.state = "XBYTE",
                          !.pad1 = (@ - 1) % 32, !.pad2 = @ + 1,
                          !.staging1 = gpio_configure[ld.pad1],
                          !.staging2 = gpio_configure[ld.pad2]]
      /\ AtStart(ld, shift_register)
  BY DEF LoaderInv, Loads, LoaderStart
<1>2. PICK n \in Chain : n = LastPad - ld.pad2 /\ ld.pad1 = n /\ Moved(shift_register, n, 0)
  BY <1>1 DEF AtStart
<1>3. n \in 0 .. 18 /\ ld.pad2 \in 19 .. 37 /\ ld.pad2 = 37 - n
  BY <1>1, <1>2, ChainFacts DEF LastPad, LoaderTypes, Pads1
<1>4. /\ ld.pad1 \in Pads /\ ld.pad2 \in Pads /\ First[n] = ld.pad1 /\ Second[n] = ld.pad2
      /\ Final(ld.pad1) \in SUBSET Bit /\ Final(ld.pad2) \in SUBSET Bit
  BY <1>2, <1>3, ChainFacts
<1>5. /\ ld'.state = "XBYTE" /\ ld'.count = 0 /\ ld'.clock = FALSE
      /\ ld'.pad1 = (ld.pad1 - 1) % 32 /\ ld'.pad2 = ld.pad2 + 1
      /\ ld'.staging1 = Final(ld.pad1) /\ ld'.staging2 = Final(ld.pad2)
  BY <1>1, <1>4 DEF LoaderTypes
<1>6. ld' \in LoaderTypes
  <2>1. (ld.pad1 - 1) % 32 \in 0 .. 31 /\ ld.pad2 + 1 \in Pads1 .. LastPad + 1
        /\ 0 \in 0 .. CtrlBits /\ FALSE \in BOOLEAN
    BY <1>2, <1>3 DEF Pads1, LastPad, CtrlBits
  <2>2. gpio_configure[ld.pad1] \in SUBSET Bit /\ gpio_configure[ld.pad2] \in SUBSET Bit
    BY <1>4
  <2> QED
    BY <1>1, <2>1, <2>2 DEF LoaderTypes
<1>7. ASSUME NEW p \in Pads, Final(p) \in SUBSET Bit PROVE Staged(Final(p), p, 0)
  <2>1. \A b \in Bit : b >= 0 /\ b - 0 = b
    BY ChainFacts
  <2> QED
    BY <1>7, <2>1 DEF Staged
<1>8. AtByte(ld', shift_register')
  <2>1. LastPad + 1 - ld'.pad2 = n
    BY <1>3, <1>5 DEF LastPad
  <2>2. ASSUME ld'.pad2 <= LastPad PROVE ld'.pad1 = LastPad - ld'.pad2
    <3>1. n \in 1 .. 18
      BY <1>3, <1>5, <2>2 DEF LastPad
    <3>2. (n - 1) % 32 = n - 1
      BY <3>1
    <3>3. LastPad - ld'.pad2 = n - 1
      BY <1>3, <1>5 DEF LastPad
    <3> QED
      BY <1>2, <1>5, <3>2, <3>3
  <2>3. Staged(ld'.staging1, First[n], 0) /\ Staged(ld'.staging2, Second[n], 0)
    BY <1>4, <1>5, <1>7
  <2>4. 0 \in Bit
    BY ChainFacts
  <2> QED
    BY <1>1, <1>2, <1>5, <2>1, <2>2, <2>3, <2>4 DEF AtByte
<1> QED
  BY <1>1, <1>5, <1>6, <1>8 DEF Loads

\* What a rising edge shifts.
LEMMA ChainShift ==
  ASSUME NEW n \in Chain, NEW c \in Bit, shift_register \in [Pads -> SUBSET Bit],
         shift_register' = [p \in Pads |-> Shift(p)],
         Moved(shift_register, n, c),
         Staged(ld.staging1, First[n], c), Staged(ld.staging2, Second[n], c)
  PROVE  shift_register' \in [Pads -> SUBSET Bit] /\ Moved(shift_register', n, c + 1)
<1>2. \A p \in Pads : shift_register[p] \in SUBSET Bit
  OBVIOUS
<1>3. ASSUME NEW p \in Pads
      PROVE  shift_register'[p] = Shifted(shift_register[p]) \cup Flag(DataIn(p), 0)
  BY DEF Shift
<1>4. DataIn(0) = SerialData(ld.staging1) /\ DataIn(37) = SerialData(ld.staging2)
  BY DEF DataIn, LastPad, Pads1
<1>5. \A q \in 1 .. 18 : DataIn(q) = SerialData(shift_register[q - 1])
  BY DEF DataIn, LastPad, Pads1
<1>6. ASSUME NEW q \in 1 .. 18
      PROVE  DataIn(37 - q) = SerialData(shift_register[37 - (q - 1)])
  <2>1. /\ 37 - q # 0 /\ 37 - q # 37 /\ 37 - q \notin 1 .. 18
        /\ 37 - q + 1 = 37 - (q - 1)
    OBVIOUS
  <2>. DEFINE p == 37 - q
  <2>2. p # 0 /\ p # LastPad /\ p \notin 1 .. Pads1 - 1
    BY <2>1 DEF LastPad, Pads1
  <2>. HIDE DEF p
  <2>3. DataIn(p) = SerialData(shift_register[p + 1])
    BY <2>2 DEF DataIn
  <2> QED
    BY <2>1, <2>3 DEF p
<1>7. ASSUME NEW p \in Pads PROVE DataIn(p) \in BOOLEAN
  <2>1. ASSUME NEW s PROVE SerialData(s) \in BOOLEAN
    BY DEF SerialData
  <2>2. CASE p = 0 \/ p = 37 \/ p \in 1 .. 18
    BY <1>4, <1>5, <2>1, <2>2
  <2>3. CASE p \in 19 .. 36
    <3>1. 37 - p \in 1 .. 18 /\ 37 - (37 - p) = p
      BY <2>3
    <3> QED
      BY <1>6, <2>1, <3>1
  <2> QED
    BY <2>2, <2>3, ChainFacts
<1>8. shift_register' \in [Pads -> SUBSET Bit]
  <2>1. \A p \in Pads : Shift(p) \in SUBSET Bit
    BY <1>2, <1>7, ShiftedBits DEF Shift
  <2> QED
    BY <2>1
<1>9. Carries(shift_register', First, n, c + 1)
  <2>1. \A q \in Chain : First[q] \in Pads /\ shift_register[First[q]] \in SUBSET Bit
    BY <1>2, ChainFacts
  <2>2. shift_register'[First[0]] = Shifted(shift_register[First[0]])
                                      \cup Flag(SerialData(ld.staging1), 0)
    <3>1. First[0] = 0 /\ 0 \in Pads
      BY ChainFacts
    <3> QED
      BY <1>3, <1>4, <3>1
  <2>3. ASSUME NEW q \in 1 .. 18
        PROVE  shift_register'[First[q]]
                 = Shifted(shift_register[First[q]])
                     \cup Flag(SerialData(shift_register[First[q - 1]]), 0)
    <3>1. First[q] = q /\ First[q - 1] = q - 1 /\ q \in Pads
      BY ChainFacts
    <3> QED
      BY <1>3, <1>5, <3>1
  <2>4. Carries(shift_register, First, n, c)
    BY DEF Moved
  <2> QED
    BY <2>1, <2>2, <2>3, <2>4, CarriesShift, Zenon
<1>10. Carries(shift_register', Second, n, c + 1)
  <2>1. \A q \in Chain : Second[q] \in Pads /\ shift_register[Second[q]] \in SUBSET Bit
    BY <1>2, ChainFacts
  <2>2. shift_register'[Second[0]] = Shifted(shift_register[Second[0]])
                                       \cup Flag(SerialData(ld.staging2), 0)
    <3>1. Second[0] = 37 /\ 37 \in Pads
      BY ChainFacts
    <3> QED
      BY <1>3, <1>4, <3>1
  <2>3. ASSUME NEW q \in 1 .. 18
        PROVE  shift_register'[Second[q]]
                 = Shifted(shift_register[Second[q]])
                     \cup Flag(SerialData(shift_register[Second[q - 1]]), 0)
    <3>1. Second[q] = 37 - q /\ Second[q - 1] = 37 - (q - 1) /\ 37 - q \in Pads
      BY ChainFacts
    <3> QED
      BY <1>3, <1>6, <3>1
  <2>4. Carries(shift_register, Second, n, c)
    BY DEF Moved
  <2> QED
    BY <2>1, <2>2, <2>3, <2>4, CarriesShift, Zenon
<1> QED
  BY <1>8, <1>9, <1>10 DEF Moved

LEMMA ShiftStep ==
  ASSUME LoaderInv, LoaderShift
  PROVE  Loads(ld', shift_register')
<1>1. /\ ld \in LoaderTypes /\ ld.state = "XBYTE"
      /\ shift_register \in [Pads -> SUBSET Bit] /\ AtByte(ld, shift_register)
  BY DEF LoaderInv, Loads, LoaderShift
<1>2. /\ ld.pad2 \in 19 .. 38 /\ ld.count \in Int
      /\ ld.clock \in BOOLEAN /\ ld.pad1 \in 0 .. 31
  BY <1>1 DEF LoaderTypes, LastPad, Pads1, CtrlBits
<1>3. PICK n, c :
        /\ n = LastPad + 1 - ld.pad2 /\ c = IF ld.clock THEN ld.count - 1 ELSE ld.count
        /\ n \in Chain /\ ld.count \in Bit /\ (ld.clock => ld.count > 0)
        /\ ld.pad2 <= LastPad => ld.pad1 = LastPad - ld.pad2
        /\ Moved(shift_register, n, ld.count)
        /\ Staged(ld.staging1, First[n], c) /\ Staged(ld.staging2, Second[n], c)
  BY <1>1 DEF AtByte
<1>4. First[n] \in Pads /\ Second[n] \in Pads
  BY <1>3, ChainFacts
<1>5. CASE ld.clock
  <2>1. /\ shift_register' = shift_register
        /\ ld' = [ld EXCEPT !.clock = FALSE, !.staging1 = Shifted(@), !.staging2 = Shifted(@)]
    BY <1>5 DEF LoaderShift
  <2>2. c \in Bit /\ c + 1 = ld.count
    BY <1>3, <1>5, ChainFacts
  <2>3. /\ Staged(Shifted(ld.staging1), First[n], ld.count)
        /\ Staged(Shifted(ld.staging2), Second[n], ld.count)
    BY <1>3, <1>4, <2>2, StagedShift
  <2>4. Shifted(ld.staging1) \in SUBSET Bit /\ Shifted(ld.staging2) \in SUBSET Bit
    BY <2>3 DEF Staged
  <2>5. ld' \in LoaderTypes
    BY <1>1, <2>1, <2>4 DEF LoaderTypes
  <2>6. /\ ld'.state = "XBYTE" /\ ld'.count = ld.count /\ ~ld'.clock
        /\ ld'.pad1 = ld.pad1 /\ ld'.pad2 = ld.pad2
        /\ ld'.staging1 = Shifted(ld.staging1) /\ ld'.staging2 = Shifted(ld.staging2)
    BY <1>1, <2>1 DEF LoaderTypes
  <2>7. AtByte(ld', shift_register')
    BY <1>3, <2>1, <2>3, <2>6 DEF AtByte
  <2> QED
    BY <1>1, <2>1, <2>5, <2>6, <2>7 DEF Loads
<1>6. CASE ~ld.clock
  <2>1. /\ shift_register' = [p \in Pads |-> Shift(p)]
        /\ ld' = [ld EXCEPT
             !.clock = TRUE,
             !.count = IF LastBit THEN 0 ELSE @ + 1,
             !.state = CASE ~LastBit -> "XBYTE"
                         [] LastBit /\ ld.pad2 = LastPad + 1 -> "LOAD"
                         [] OTHER -> "START"]
    BY <1>6 DEF LoaderShift
  <2>2. c = ld.count
    BY <1>3, <1>6
  <2>3. shift_register' \in [Pads -> SUBSET Bit] /\ Moved(shift_register', n, c + 1)
    BY <1>1, <1>3, <2>1, <2>2, ChainShift, Zenon
  <2>4. CASE ~LastBit
    <3>1. ld' = [ld EXCEPT !.clock = TRUE, !.count = ld.count + 1, !.state = "XBYTE"]
      BY <2>1, <2>4
    <3>2. ld.count + 1 \in Bit /\ ld.count + 1 \in 0 .. CtrlBits /\ ld.count + 1 > 0
          /\ ld.count + 1 - 1 = ld.count
      BY <1>3, <2>4, ChainFacts DEF LastBit, CtrlBits
    <3>3. ld' \in LoaderTypes
      BY <1>1, <3>1, <3>2 DEF LoaderTypes
    <3>4. /\ ld'.state = "XBYTE" /\ ld'.count = ld.count + 1 /\ ld'.clock
          /\ ld'.pad1 = ld.pad1 /\ ld'.pad2 = ld.pad2
          /\ ld'.staging1 = ld.staging1 /\ ld'.staging2 = ld.staging2
      BY <1>1, <3>1 DEF LoaderTypes
    <3>5. AtByte(ld', shift_register')
      <4>1. (IF ld'.clock THEN ld'.count - 1 ELSE ld'.count) = c
        <5>1. ld'.count - 1 = ld.count
          BY <1>2, <3>4
        <5>2. ld'.clock
          BY <3>4, Zenon
        <5> QED
          BY <2>2, <5>1, <5>2, Zenon
      <4>2. /\ LastPad + 1 - ld'.pad2 = n /\ n \in Chain /\ ld'.count \in Bit /\ ld'.count > 0
            /\ Moved(shift_register', n, ld'.count)
        BY <1>3, <2>2, <2>3, <3>2, <3>4
      <4>3. ld'.pad2 <= LastPad => ld'.pad1 = LastPad - ld'.pad2
        BY <1>3, <3>4
      <4>4. Staged(ld'.staging1, First[n], c) /\ Staged(ld'.staging2, Second[n], c)
        BY <1>3, <3>4
      <4> QED
        BY <4>1, <4>2, <4>3, <4>4, Zenon DEF AtByte
    <3> QED
      BY <2>3, <3>3, <3>4, <3>5 DEF Loads
  <2>5. ASSUME LastBit PROVE Moved(shift_register', n - 1, 0)
    <3>1. c + 1 = CtrlBits
      BY <2>2, <2>5 DEF LastBit, CtrlBits
    <3>2. /\ Carries(shift_register', First, n, CtrlBits)
          /\ Carries(shift_register', Second, n, CtrlBits)
      BY <2>3, <3>1 DEF Moved
    <3> QED
      BY <1>3, <3>2, CarriesAll, Zenon DEF Moved
  <2>6. CASE LastBit /\ ld.pad2 = LastPad + 1
    <3>1. ld' = [ld EXCEPT !.clock = TRUE, !.count = 0, !.state = "LOAD"]
      BY <2>1, <2>6
    <3>2. 0 \in 0 .. CtrlBits /\ TRUE \in BOOLEAN
      BY DEF CtrlBits
    <3>3. ld' \in LoaderTypes
      BY <1>1, <3>1, <3>2 DEF LoaderTypes
    <3>4. ld'.state = "LOAD" /\ ld'.count = 0
      BY <1>1, <3>1 DEF LoaderTypes
    <3>5. n - 1 = -1
      BY <1>3, <2>6 DEF LastPad
    <3>6. AtLoad(ld', shift_register')
      BY <2>5, <2>6, <3>4, <3>5 DEF AtLoad
    <3> QED
      BY <2>3, <3>3, <3>4, <3>6 DEF Loads
  <2>7. CASE LastBit /\ ld.pad2 # LastPad + 1
    <3>1. ld' = [ld EXCEPT !.clock = TRUE, !.count = 0, !.state = "START"]
      BY <2>1, <2>7
    <3>2. 0 \in 0 .. CtrlBits /\ TRUE \in BOOLEAN
      BY DEF CtrlBits
    <3>3. ld' \in LoaderTypes
      BY <1>1, <3>1, <3>2 DEF LoaderTypes
    <3>4. ld'.state = "START" /\ ld'.pad1 = ld.pad1 /\ ld'.pad2 = ld.pad2
      BY <1>1, <3>1 DEF LoaderTypes
    <3>5. LastPad - ld.pad2 = n - 1 /\ n - 1 \in Chain /\ ld.pad2 <= LastPad
      BY <1>2, <1>3, <2>7, ChainFacts DEF LastPad
    <3>6. AtStart(ld', shift_register')
      BY <1>3, <2>5, <2>7, <3>4, <3>5 DEF AtStart
    <3> QED
      BY <2>3, <3>3, <3>4, <3>6 DEF Loads
  <2> QED
    BY <2>4, <2>6, <2>7
<1> QED
  BY <1>5, <1>6

LEMMA LoadStep ==
  ASSUME LoaderInv, LoaderLoad
  PROVE  Loads(ld', shift_register')
<1>1. /\ ld \in LoaderTypes /\ shift_register \in [Pads -> SUBSET Bit]
      /\ ld.count <= 2 /\ Moved(shift_register, -1, 0) /\ shift_register' = shift_register
      /\ ld.state = "LOAD"
  BY DEF LoaderInv, Loads, LoaderLoad, AtLoad
<1>2. ld.count \in 0 .. 2
  BY <1>1 DEF LoaderTypes
<1>3. CASE ld.count < 2
  <2>1. ld' = [ld EXCEPT !.clock = FALSE, !.count = ld.count + 1]
    BY <1>3 DEF LoaderLoad
  <2>2. ld.count + 1 \in 0 .. CtrlBits /\ ld.count + 1 <= 2 /\ FALSE \in BOOLEAN
    BY <1>2, <1>3 DEF CtrlBits
  <2>3. ld' \in LoaderTypes /\ ld'.state = "LOAD" /\ ld'.count = ld.count + 1
    BY <1>1, <2>1, <2>2 DEF LoaderTypes
  <2> QED
    BY <1>1, <2>2, <2>3 DEF Loads, AtLoad
<1>4. CASE ~(ld.count < 2)
  <2>1. ld' = [ld EXCEPT !.count = ld.count + 1, !.busy = FALSE, !.state = "IDLE"]
    BY <1>4 DEF LoaderLoad
  <2>2. ld.count + 1 \in 0 .. CtrlBits /\ FALSE \in BOOLEAN
    BY <1>2 DEF CtrlBits
  <2>3. ld' \in LoaderTypes /\ ld'.state = "IDLE"
    BY <1>1, <2>1, <2>2 DEF LoaderTypes
  <2> QED
    BY <1>1, <2>3 DEF Loads
<1> QED
  BY <1>3, <1>4

LEMMA LoaderStep ==
  ASSUME StartTypeOK, ConfigInv, TransferInv, LoaderInv, Next
  PROVE  LoaderInv'
<1>1. CASE LoaderIdle
  BY <1>1, IdleStep DEF StartTypeOK, LoaderInv
<1>2. CASE LoaderStart
  <2>1. pc >= 33
    BY <1>2 DEF TransferInv, LoaderStart
  <2> QED
    BY <1>2, <2>1, ConfigFinal, StartStep DEF LoaderInv
<1>3. CASE LoaderShift
  BY <1>3, ShiftStep DEF LoaderInv
<1>4. CASE LoaderLoad
  BY <1>4, LoadStep DEF LoaderInv
<1>5. CASE Issue \/ SpiEdge
  BY <1>5 DEF Issue, SpiEdge, chains, LoaderInv
<1> QED
  BY <1>1, <1>2, <1>3, <1>4, <1>5, Moves DEF Loader

\* The pads change when every configuration is at its pad.
LEMMA PadsStep ==
  ASSUME LoaderInv, PadsInv, Next
  PROVE  PadsInv'
<1>1. CASE LoaderLoad /\ ld.count = 1
  <2>1. /\ pads' = shift_register /\ shift_register \in [Pads -> SUBSET Bit]
        /\ Carries(shift_register, First, -1, 0) /\ Carries(shift_register, Second, -1, 0)
    BY <1>1 DEF LoaderLoad, LoaderInv, Loads, AtLoad, Moved
  <2>2. ASSUME NEW p \in Pads PROVE shift_register[p] = Final(p)
    <3>1. shift_register[p] \in SUBSET Bit
      BY <2>1
    <3>2. CASE p <= 18
      <4>1. p \in Chain /\ First[p] = p
        BY <3>2, ChainFacts
      <4> QED
        BY <2>1, <3>1, <4>1, CarriesEach
    <3>3. CASE p > 18
      <4>1. 37 - p \in Chain /\ Second[37 - p] = p
        BY <3>3, ChainFacts
      <4> QED
        BY <2>1, <3>1, <4>1, CarriesEach
    <3> QED
      BY <3>2, <3>3, ChainFacts
  <2> QED
    BY <2>1, <2>2 DEF PadsInv
<1>2. CASE LoaderIdle \/ LoaderStart \/ LoaderShift \/ (LoaderLoad /\ ld.count # 1)
  <2>1. pads' = pads
    BY <1>2 DEF LoaderIdle, LoaderStart, LoaderShift, LoaderLoad
  <2> QED
    BY <2>1 DEF PadsInv
<1>3. CASE Issue \/ SpiEdge
  <2>1. pads' = pads
    BY <1>3 DEF Issue, SpiEdge, chains
  <2> QED
    BY <2>1 DEF PadsInv
<1>4. LoaderIdle \/ LoaderStart \/ LoaderShift \/ LoaderLoad \/ Issue \/ SpiEdge
  BY Moves DEF Loader
<1>5. CASE LoaderLoad
  BY <1>1, <1>2, <1>5
<1>6. CASE LoaderIdle \/ LoaderStart \/ LoaderShift
  BY <1>2, <1>6
<1> QED
  BY <1>3, <1>4, <1>5, <1>6

-----------------------------------------------------------------------------
(* The theorems.                                                           *)

LEMMA StartUpInit ==
  ASSUME Init
  PROVE  SInv
<1>1. Len(main) \in Nat /\ Len(main) >= 36
  BY MainLength
<1>2. pc = 1 /\ req = FALSE /\ At("idle") /\ Written = 0
  BY DEF Init, At, Written
<1>3. StartTypeOK
  <2>1. pc \in 1 .. Len(main) + 1
    BY <1>1, <1>2
  <2>2. wb \in WbTypes
    BY DEF Init, WbTypes, Names, Register
  <2>3. gpio_configure \in [Pads -> SUBSET Bit]
    <3>1. \A p \in Pads : gpio_configure_default[p] \in SUBSET Bit
      BY SetTypes
    <3> QED
      BY <3>1 DEF Init, gpio_configure_default
  <2> QED
    BY <2>1, <2>2, <2>3 DEF Init, StartTypeOK
<1>4. LatchInv
  BY <1>2 DEF LatchInv, At
<1>5. ConfigInv
  <2>1. ASSUME NEW p \in Pads PROVE Mode(p, pc - 1) = gpio_configure_default[p]
    <3>1. p <= 31 => PlaceOf(p) \in 1 .. 32
      <4>1. p <= 31 => p \in 0 .. 31
        BY SetTypes
      <4> QED
        BY <4>1, Places
    <3> QED
      BY <1>2, <3>1 DEF Mode
  <2>2. Low(Written) = {}
    BY <1>2, LowFacts
  <2>3. gpio_configure = gpio_configure_default
    BY DEF Init
  <2> QED
    BY <2>1, <2>2, <2>3 DEF ConfigInv
<1>6. PinsInv
  BY <1>2 DEF PinsInv, Init
<1>7. TransferInv
  BY DEF TransferInv, Init
<1>8. LoaderInv
  <2>1. ld \in LoaderTypes
    BY DEF Init, LoaderTypes, CtrlBits, Pads1, LastPad
  <2> QED
    BY <2>1 DEF LoaderInv, Loads, Init
<1>9. PadsInv
  BY DEF PadsInv, Init
<1> QED
  BY <1>3, <1>4, <1>5, <1>6, <1>7, <1>8, <1>9 DEF SInv

LEMMA StartUpStep ==
  ASSUME SInv, [Next]_vars
  PROVE  SInv'
<1>1. CASE Next
  <2>1. StartTypeOK' /\ LatchInv'
    BY <1>1, TypeStep, ControlStep DEF SInv
  <2>2. ConfigInv' /\ PinsInv'
    BY <1>1, ConfigStep, PinsStep DEF SInv
  <2>3. TransferInv' /\ LoaderInv'
    BY <1>1, TransferStep, LoaderStep DEF SInv
  <2>4. PadsInv'
    BY <1>1, PadsStep DEF SInv
  <2> QED
    BY <2>1, <2>2, <2>3, <2>4 DEF SInv
<1>2. CASE UNCHANGED vars
  <2>. USE <1>2 DEF vars, processor, registers, chains
  <2>1. StartTypeOK'
    BY DEF SInv, StartTypeOK
  <2>2. LatchInv'
    BY DEF SInv, LatchInv, Done, At, Access
  <2>3. ConfigInv' /\ PinsInv'
    BY DEF SInv, ConfigInv, PinsInv, Written, At, Done, Access
  <2>4. TransferInv' /\ LoaderInv' /\ PadsInv'
    BY DEF SInv, TransferInv, LoaderInv, PadsInv
  <2> QED
    BY <2>1, <2>2, <2>3, <2>4 DEF SInv
<1> QED
  BY <1>1, <1>2

\* The invariant of start-up, whatever words main writes to the pads and
\* whatever the SPI master reads meanwhile: the types, what the back door has
\* set up, the configurations byte by byte, the buffer of the pads, and where
\* in the chains each bit of each configuration is.
THEOREM StartUpInvariance == Spec => []SInv
<1>1. Init => SInv
  BY StartUpInit
<1>2. SInv /\ [Next]_vars => SInv'
  BY StartUpStep
<1> QED
  BY <1>1, <1>2, PTL DEF Spec

\* Between two accesses each pad's configuration is what main has given it: the
\* bytes of the back door and those of the SPI share the port and the address,
\* and none goes to a wrong half or pad.
THEOREM ModesAsWritten == Spec => []ConfigAsWritten
<1>1. SInv => ConfigAsWritten
  <2>1. SUFFICES ASSUME SInv, At("idle"), NEW p \in Pads
        PROVE  gpio_configure[p] = Given(p, pc - 1)
    BY DEF ConfigAsWritten
  <2>2. pc - 1 \in 0 .. Len(main) /\ pc \in Int
    <3>1. pc \in 1 .. Len(main) + 1
      BY <2>1 DEF SInv, StartTypeOK
    <3>2. Len(main) \in Nat
      BY MainLength, Zenon
    <3> QED
      BY <3>1, <3>2
  <2>3. Written = 0
    BY <2>1 DEF Written
  <2>4. p <= 31 /\ PlaceOf(p) = pc => Mode(p, pc - 1) = gpio_configure_default[p]
    BY <2>2 DEF Mode
  <2>5. gpio_configure[p] = Mode(p, pc - 1)
    <3>1. (gpio_configure_default[p] \ Low(0)) \cup (ModeOf(p) \cap Low(0))
             = gpio_configure_default[p]
      BY LowFacts
    <3>2. gpio_configure[p] =
            IF p <= 31 /\ PlaceOf(p) = pc
            THEN (gpio_configure_default[p] \ Low(Written)) \cup (ModeOf(p) \cap Low(Written))
            ELSE Mode(p, pc - 1)
      BY <2>1, Zenon DEF SInv, ConfigInv
    <3> QED
      BY <2>3, <2>4, <3>1, <3>2
  <2> QED
    BY <2>2, <2>5, GivenIs
<1> QED
  BY <1>1, StartUpInvariance, PTL

\* The two chains shift one bit a clock through all the pads, and no pad ever
\* takes over anything but the whole mode that main gives it.
THEOREM NoMixture == Spec => []NoMixedMode
<1>1. SInv => NoMixedMode
  <2>1. SUFFICES ASSUME SInv, NEW p \in Pads
        PROVE  pads[p] \in {gpio_defaults[p], Given(p, Len(main))}
    BY DEF NoMixedMode
  <2>2. Len(main) \in 0 .. Len(main) /\ Len(main) >= 36 /\ Len(main) \in Nat
    BY MainLength
  <2>3. Given(p, Len(main)) = Mode(p, Len(main))
    BY <2>2, GivenIs
  <2>4. Mode(p, Len(main)) = Final(p)
    <3>1. p <= 31 => PlaceOf(p) \in 1 .. 32
      <4>1. p <= 31 => p \in 0 .. 31
        BY SetTypes
      <4> QED
        BY <4>1, Places
    <3>2. ASSUME NEW i \in 1 .. 32 PROVE i <= 32 /\ i <= Len(main)
      BY <2>2
    <3>3. p <= 31 => PlaceOf(p) <= 32 /\ PlaceOf(p) <= Len(main)
      BY <3>1, <3>2, Zenon
    <3> QED
      BY <3>3 DEF Final, Mode
  <2>5. pads[p] \in {gpio_defaults[p], Final(p)}
    BY <2>1, Zenon DEF SInv, PadsInv
  <2> QED
    BY <2>3, <2>4, <2>5, Zenon
<1> QED
  BY <1>1, StartUpInvariance, PTL

\* The pads show nothing but whole words of main, however its bytes come through
\* the port: for every list of outputs.
THEOREM WholeWords == Spec => []PinsChangeTogether
<1>1. SInv => PinsChangeTogether
  BY DEF SInv, PinsInv, Words, PinsChangeTogether
<1> QED
  BY <1>1, StartUpInvariance, PTL
=============================================================================
