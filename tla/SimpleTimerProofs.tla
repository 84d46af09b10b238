-------------------------- MODULE SimpleTimerProofs --------------------------
(***************************************************************************)
(* The timer library for words of any width, any deadlines and any number  *)
(* of calls: what timer_read returns, when the timer may ask, and what is  *)
(* left of the cycle counter after pcount_reset.                           *)
(***************************************************************************)
EXTENDS SimpleTimer, TLAPS

-----------------------------------------------------------------------------
(* Numbers of two words.                                                   *)

Word == 0 .. W - 1

\* A number is its high word and its low word.
LEMMA Split ==
  ASSUME NEW x \in Nat
  PROVE  Hi(x) \in Nat /\ Lo(x) \in Word /\ x = Hi(x) * W + Lo(x)
  BY TimerAssumption DEF Hi, Lo, Word

\* The high words decide, whatever the low words are.
LEMMA HighDecides ==
  ASSUME NEW g \in Nat, NEW h \in Nat, NEW k \in Word, NEW l \in Word, g < h
  PROVE  g * W + k < h * W + l
<1>1. g + 1 <= h
  OBVIOUS
<1>2. (g + 1) * W <= h * W
  BY <1>1, TimerAssumption
<1>3. (g + 1) * W = g * W + W
  BY TimerAssumption
<1> QED
  BY <1>2, <1>3, TimerAssumption DEF Word

\* Two words put together are the words of the number they make.
LEMMA Together ==
  ASSUME NEW h \in Nat, NEW l \in Word
  PROVE  h * W + l \in Nat /\ Hi(h * W + l) = h /\ Lo(h * W + l) = l
<1>1. PICK x \in Nat : x = h * W + l
  BY TimerAssumption DEF Word
<1>2. PICK g \in Nat, k \in Word : g = Hi(x) /\ k = Lo(x) /\ x = g * W + k
  BY Split
<1>3. ~(g < h)
  BY <1>1, <1>2, HighDecides DEF Word
<1>4. ~(h < g)
  BY <1>1, <1>2, HighDecides DEF Word
<1>5. g = h
  BY <1>2, <1>3, <1>4
<1>6. k = l
  BY <1>1, <1>2, <1>5, TimerAssumption DEF Word
<1> QED
  BY <1>1, <1>2, <1>5, <1>6

\* Order of two numbers, by their words.
LEMMA Order ==
  ASSUME NEW x \in Nat, NEW y \in Nat
  PROVE  /\ x <= y => Hi(x) <= Hi(y)
         /\ Hi(x) < Hi(y) => x < y
         /\ Hi(x) = Hi(y) => (x <= y <=> Lo(x) <= Lo(y))
<1>1. PICK g \in Nat, k \in Word : g = Hi(x) /\ k = Lo(x) /\ x = g * W + k
  BY Split
<1>2. PICK h \in Nat, l \in Word : h = Hi(y) /\ l = Lo(y) /\ y = h * W + l
  BY Split
<1>3. g < h => x < y
  BY <1>1, <1>2, HighDecides
<1>4. h < g => y < x
  BY <1>1, <1>2, HighDecides
<1>5. g = h => (x <= y <=> k <= l)
  BY <1>1, <1>2, TimerAssumption DEF Word
<1> QED
  BY <1>1, <1>2, <1>3, <1>4, <1>5

\* A number of the registers has two words, and any two words are one.
LEMMA DoubleFacts ==
  /\ Double \subseteq Nat
  /\ \A x \in Double : Hi(x) \in Word
  /\ \A h, l \in Word : h * W + l \in Double
  /\ 0 \in Double /\ Hi(0) = 0 /\ Lo(0) = 0
<1>1. PICK D \in Nat : D = W * W /\ D > 0 /\ Double = 0 .. D - 1
  BY TimerAssumption DEF Double
<1>2. D = W * W + 0 /\ 0 \in Word
  BY <1>1, TimerAssumption DEF Word
<1>3. ASSUME NEW x \in Double
      PROVE  Hi(x) \in Word
  <2>1. x \in Nat /\ x < D
    BY <1>1
  <2>2. PICK g \in Nat, k \in Word : g = Hi(x) /\ x = g * W + k
    BY <2>1, Split
  <2>3. ~(W < g)
    BY <1>2, <2>1, <2>2, HighDecides, TimerAssumption DEF Word
  <2>4. g # W
    BY <1>1, <2>1, <2>2, TimerAssumption DEF Word
  <2> QED
    BY <2>2, <2>3, <2>4, TimerAssumption DEF Word
<1>4. ASSUME NEW h \in Word, NEW l \in Word
      PROVE  h * W + l \in Double
  <2>1. h * W + l < W * W + 0
    BY <1>2, HighDecides, TimerAssumption DEF Word
  <2>2. h * W + l \in Nat
    BY Together DEF Word
  <2> QED
    BY <1>1, <1>2, <2>1, <2>2
<1>5. Hi(0) = 0 /\ Lo(0) = 0
  <2>1. 0 * W + 0 = 0
    BY TimerAssumption
  <2> QED
    BY <1>2, <2>1, Together
<1> QED
  BY <1>1, <1>3, <1>4, <1>5

\* A store to one word leaves the other as it is.
LEMMA StoreFacts ==
  ASSUME NEW x \in Double, NEW w \in Word
  PROVE  /\ SetLo(x, w) \in Double /\ Hi(SetLo(x, w)) = Hi(x) /\ Lo(SetLo(x, w)) = w
         /\ SetHi(x, w) \in Double /\ Hi(SetHi(x, w)) = w /\ Lo(SetHi(x, w)) = Lo(x)
<1>1. Hi(x) \in Word /\ Lo(x) \in Word /\ Word \subseteq Nat
  BY DoubleFacts, Split DEF Word
<1> QED
  BY <1>1, DoubleFacts, Together DEF SetLo, SetHi

\* A count of the cycle counter: its low word grows by one at most.
LEMMA CountFacts ==
  ASSUME NEW x \in Double
  PROVE  LET y == (x + 1) % (W * W)
         IN y \in Double /\ y <= x + 1 /\ Lo(y) <= Lo(x) + 1
<1>1. PICK D \in Nat : D = W * W /\ D > 0 /\ Double = 0 .. D - 1
  BY TimerAssumption DEF Double
<1>2. PICK y : y = (x + 1) % D
  OBVIOUS
<1>3. SUFFICES y \in Double /\ y <= x + 1 /\ Lo(y) <= Lo(x) + 1
  BY <1>1, <1>2
<1>4. PICK h \in Nat, l \in Word : h = Hi(x) /\ l = Lo(x) /\ x = h * W + l
  BY DoubleFacts, Split
<1>5. CASE y = 0
  <2>1. x \in Nat /\ l \in Nat
    BY DoubleFacts, TimerAssumption DEF Word
  <2>2. Lo(y) = 0 /\ y \in Double
    BY <1>5, DoubleFacts
  <2> QED
    BY <1>4, <1>5, <2>1, <2>2
<1>6. CASE y = x + 1 /\ y \in Double
  <2>1. CASE l + 1 \in Word
    <3>1. y = h * W + (l + 1)
      BY <1>4, <1>6, TimerAssumption DEF Word
    <3>2. Lo(y) = l + 1
      BY <2>1, <3>1, Together
    <3> QED
      BY <1>4, <1>6, <3>2 DEF Word
  <2>2. CASE l = W - 1
    <3>1. y = (h + 1) * W + 0 /\ 0 \in Word /\ h + 1 \in Nat
      BY <1>4, <1>6, <2>2, TimerAssumption DEF Word
    <3>2. Lo((h + 1) * W + 0) = 0
      BY <3>1, Together
    <3> QED
      BY <1>4, <1>6, <3>1, <3>2 DEF Word
  <2> QED
    BY <2>1, <2>2, TimerAssumption DEF Word
<1>7. y = 0 \/ (y = x + 1 /\ y \in Double)
  BY <1>1, <1>2
<1> QED
  BY <1>5, <1>6, <1>7

\* Words of two increments are a number of two words that makes no deadline
\* wrap, and so are the words of two such numbers.
LEMMA MixedFacts ==
  /\ Increments \subseteq MixedIncrements /\ 0 \in MixedIncrements
  /\ MixedIncrements \subseteq Double /\ MixedIncrements \subseteq Nat
  /\ \A a, b \in MixedIncrements : /\ SetLo(a, Lo(b)) \in MixedIncrements
                                    /\ SetHi(a, Hi(b)) \in MixedIncrements
<1>1. Increments \cup {0} \subseteq Nat
  BY TimerAssumption
<1>2. ASSUME NEW i \in Increments \cup {0}
      PROVE  i \in MixedIncrements
  <2>1. i = Hi(i) * W + Lo(i)
    BY <1>1, Split
  <2> QED
    BY <2>1 DEF MixedIncrements
<1>3. ASSUME NEW i \in Increments \cup {0}
      PROVE  Hi(i) \in Word /\ Lo(i) \in Word
  <2>1. i \in Nat /\ EndOfTime \in Nat /\ EndOfTime + i < W * W
    BY <1>1, <1>2, TimerAssumption
  <2>2. i \in Double
    BY <2>1, TimerAssumption DEF Double
  <2> QED
    BY <2>1, <2>2, DoubleFacts, Split
<1>4. MixedIncrements \subseteq Double
  BY <1>3, DoubleFacts DEF MixedIncrements
<1>5. ASSUME NEW a \in MixedIncrements
      PROVE  \E i, j \in Increments \cup {0} : Hi(a) = Hi(i) /\ Lo(a) = Lo(j)
  <2>1. PICK i \in Increments \cup {0}, j \in Increments \cup {0} : a = Hi(i) * W + Lo(j)
    BY DEF MixedIncrements
  <2>2. Hi(i) \in Nat /\ Lo(j) \in Word
    BY <1>3 DEF Word
  <2> QED
    BY <2>1, <2>2, Together
<1>6. ASSUME NEW a \in MixedIncrements, NEW b \in MixedIncrements
      PROVE  SetLo(a, Lo(b)) \in MixedIncrements /\ SetHi(a, Hi(b)) \in MixedIncrements
  <2>1. PICK i \in Increments \cup {0}, j \in Increments \cup {0} :
          Hi(a) = Hi(i) /\ Lo(a) = Lo(j)
    BY <1>5
  <2>2. PICK k \in Increments \cup {0}, l \in Increments \cup {0} :
          Hi(b) = Hi(k) /\ Lo(b) = Lo(l)
    BY <1>5
  <2> QED
    BY <2>1, <2>2 DEF MixedIncrements, SetLo, SetHi
<1> QED
  BY <1>2, <1>4, <1>6, DoubleFacts

-----------------------------------------------------------------------------
(* The inductive invariant.                                                *)

Reading == {"read_high", "read_low", "read_again"}
Updating == {"compare_max", "compare_high", "compare_low"}

\* A time a thread may return: for timer_read one of the call; for the handler
\* that has interrupted main's update one that gives no earlier deadline.
Fit(t, s) ==
  /\ (t = "main" /\ loc["main"].base = 0) => loc["main"].began <= s
  /\ (t = "handler" /\ pc["main"] \in Updating) =>
       loc["main"].new <= s + time_increment

\* The clock now is fit while a thread is reading, and once it has the low
\* word there was a fit time with this word, not before the high word it has.
ReadInv ==
  /\ \A t \in Threads :
       /\ pc[t] \in Reading => Fit(t, mtime)
       /\ pc[t] = "read_low" => loc[t].high <= Hi(mtime)
       /\ pc[t] = "read_again" =>
            \E s \in 0 .. mtime : /\ Fit(t, s)
                                  /\ Lo(s) = loc[t].low /\ loc[t].high <= Hi(s)
  /\ TimeReadWithinCall

\* The stores of time_increment: between them it is not yet the new increment.
Storing == {"increment", "increment_high", "increment_low"}

\* Both threads compute deadlines with the same increment.
BaseInv ==
  /\ pc["main"] \in {"clear", "clear_high", "clear_low"} \cup Storing => loc["main"].base # 0
  /\ pc["main"] = "increment_high" => Lo(time_increment) = Lo(loc["main"].base)
  /\ pc["main"] = "increment_low" => Hi(time_increment) = Hi(loc["main"].base)
  /\ (pc["main"] \in Reading /\ loc["main"].base # 0) =>
       loc["main"].base = time_increment
  /\ pc["main"] \in Updating => loc["main"].new <= mtime + time_increment
  /\ pc["handler"] \in Reading => loc["handler"].base = time_increment
  /\ (pc["handler"] \in Updating /\ pc["main"] \in Updating) =>
       loc["main"].new <= loc["handler"].new

Writing == {"compare_high", "compare_low"}

\* What mtimecmp is at each point of timecmp_update: never before the deadline,
\* except in the updates that overlap.
CompareInv ==
  /\ (InMainsUpdate /\ pc["handler"] # "idle") => mixed
  /\ (pc["main"] \notin Writing /\ pc["handler"] \notin Writing) => deadline <= mtimecmp
  /\ (pc["main"] = "compare_high" /\ ~mixed) =>
       deadline <= mtimecmp /\ Lo(mtimecmp) = W - 1
  /\ (pc["main"] = "compare_low" /\ ~mixed) =>
       Hi(mtimecmp) = Hi(loc["main"].new) /\ Lo(mtimecmp) = W - 1
  /\ pc["main"] = "compare_low" => Hi(loc["main"].new) <= Hi(mtimecmp)
  /\ pc["handler"] = "compare_high" =>
       Lo(mtimecmp) = W - 1 /\ (~mixed => deadline <= mtimecmp)
  /\ pc["handler"] = "compare_low" =>
       Hi(mtimecmp) = Hi(loc["handler"].new) /\ Lo(mtimecmp) = W - 1

\* The cycle counter since pcount_reset; between its two stores the low word.
CounterInv ==
  resetAt # Never =>
    /\ resetAt <= mtime
    /\ IF pc["main"] = "cycle_high" THEN Lo(mcycle) <= mtime - resetAt
       ELSE mcycle <= mtime - resetAt

TimerInv == TTypeOK /\ ReadInv /\ BaseInv /\ CompareInv /\ CounterInv

-----------------------------------------------------------------------------
(* Facts about the states the invariant allows.                            *)

\* The registers hold numbers of two words.
LEMMA TypeFacts ==
  ASSUME TTypeOK
  PROVE  /\ mtime \in Double /\ mtime \in Nat
         /\ Hi(mtime) \in Word /\ Lo(mtime) \in Word
         /\ mtimecmp \in Double /\ mtimecmp \in Nat
         /\ time_elapsed \in Double /\ mcycle \in Double
         /\ deadline \in Nat /\ calls \in Nat /\ MaxCalls \in Nat
         /\ \A t \in Threads : /\ loc[t] \in [base : MixedIncrements, high : Word,
                                              low : Word, new : Double, began : Double]
                               /\ loc[t].new \in Nat /\ loc[t].base \in Nat
                               /\ Hi(loc[t].new) \in Word /\ Lo(loc[t].new) \in Word
         /\ W - 1 \in Word /\ 0 \in Word /\ Word \subseteq Nat
<1>1. Double \subseteq Nat
  BY DoubleFacts
<1>2. 0 .. EndOfTime \subseteq Double
  BY TimerAssumption DEF Double
<1>3. \A x \in Double : Hi(x) \in Word /\ Lo(x) \in Word
  BY <1>1, DoubleFacts, Split
<1>4. W - 1 \in Word /\ 0 \in Word /\ Word \subseteq Nat
  BY TimerAssumption DEF Word
<1>5. ASSUME NEW t \in Threads
      PROVE  /\ loc[t] \in [base : MixedIncrements, high : Word,
                            low : Word, new : Double, began : Double]
             /\ loc[t].new \in Double /\ loc[t].base \in Nat
  <2>1. loc[t] \in [base : MixedIncrements, high : Word,
                    low : Word, new : Double, began : Double]
    BY DEF TTypeOK, Word
  <2>2. loc[t].base \in MixedIncrements /\ loc[t].new \in Double
    BY <2>1
  <2>3. MixedIncrements \subseteq Nat
    BY MixedFacts
  <2> QED
    BY <2>1, <2>2, <2>3
<1>6. /\ mtime \in 0 .. EndOfTime /\ mtimecmp \in Double /\ deadline \in Double
      /\ time_elapsed \in Double /\ mcycle \in Double
      /\ calls \in Nat /\ MaxCalls \in Nat
  BY TimerAssumption DEF TTypeOK
<1> QED
  BY <1>1, <1>2, <1>3, <1>4, <1>5, <1>6

\* Time and increment together are a deadline that does not wrap.
LEMMA DeadlineFits ==
  ASSUME NEW s \in 0 .. EndOfTime, NEW b \in MixedIncrements
  PROVE  s + b \in Double
<1>1. b \in Nat /\ EndOfTime + b < W * W
  BY MixedFacts, TimerAssumption
<1> QED
  BY <1>1, TimerAssumption DEF Double

\* When the high word has not changed the two words read are a fit time.
LEMMA FinalTime ==
  ASSUME TimerInv, NEW t \in Threads, pc[t] = "read_again", Hi(mtime) = loc[t].high
  PROVE  \E s \in 0 .. mtime : Fit(t, s) /\ loc[t].high * W + loc[t].low = s
<1>1. mtime \in Nat
  BY TypeFacts DEF TimerInv
<1>2. PICK s \in 0 .. mtime : /\ Fit(t, s)
                              /\ Lo(s) = loc[t].low /\ loc[t].high <= Hi(s)
  BY DEF TimerInv, ReadInv
<1>3. Hi(s) <= Hi(mtime) /\ Hi(s) \in Nat /\ Hi(mtime) \in Nat
  BY <1>1, Order, Split
<1>4. Hi(s) = loc[t].high
  BY <1>2, <1>3
<1>5. s = Hi(s) * W + Lo(s)
  BY <1>1, Split
<1> QED
  BY <1>2, <1>4, <1>5


-----------------------------------------------------------------------------
(* Each part of the invariant is kept by each step.                        *)

\* Types.  What is stored is a word of a number of two words, or a deadline.
LEMMA TypeStep ==
  ASSUME TimerInv, Next
  PROVE  TTypeOK'
<1>. USE DEF At, Runs, Goto, Call, device, elapsed, counters, history, Labels, Threads
<1>1. TTypeOK
  BY DEF TimerInv
<1>2. ASSUME NEW t \in Threads, ReadHigh(t) \/ ReadLow(t)
      PROVE  TTypeOK'
  BY <1>1, <1>2, TypeFacts DEF TTypeOK, ReadHigh, ReadLow, Word
<1>3. ASSUME NEW t \in Threads, ReadAgain(t)
      PROVE  TTypeOK'
  <2>1. CASE Hi(mtime) # loc[t].high
    BY <1>1, <1>3, <2>1 DEF TTypeOK, ReadAgain, OnlyReads
  <2>2. CASE Hi(mtime) = loc[t].high
    <3>1. PICK s \in 0 .. mtime : loc[t].high * W + loc[t].low = s
      BY <1>3, <2>2, FinalTime DEF ReadAgain
    <3>2. s \in 0 .. EndOfTime /\ loc[t].base \in MixedIncrements
      BY <1>1, TimerAssumption DEF TTypeOK
    <3>3. s + loc[t].base \in Double /\ s \in Double
      BY <3>2, DeadlineFits, TimerAssumption DEF Double
    <3>4. PICK n \in Double : loc' = [loc EXCEPT ![t].new = n]
      BY <1>3, <2>2, <3>1, <3>3 DEF ReadAgain
    <3>5. pc' \in [Threads -> Labels]
      BY <1>1, <1>3, <2>2 DEF TTypeOK, ReadAgain
    <3> QED
      BY <1>1, <1>3, <3>4, <3>5 DEF TTypeOK, ReadAgain, Never
  <2> QED
    BY <2>1, <2>2
<1>4. ASSUME NEW t \in Threads, CompareMax(t) \/ CompareHigh(t) \/ CompareLow(t)
      PROVE  TTypeOK'
  <2>1. mtimecmp' \in Double
    <3>1. PICK w \in Word : mtimecmp' = SetLo(mtimecmp, w) \/ mtimecmp' = SetHi(mtimecmp, w)
      <4>1. W - 1 \in Word /\ Hi(loc[t].new) \in Word /\ Lo(loc[t].new) \in Word
        BY <1>1, TypeFacts
      <4> QED
        BY <1>4, <4>1 DEF CompareMax, CompareHigh, CompareLow
    <3>2. mtimecmp \in Double
      BY <1>1, TypeFacts
    <3> QED
      BY <3>1, <3>2, StoreFacts
  <2>2. deadline' \in Double
    BY <1>1, <1>4, TypeFacts DEF TTypeOK, CompareMax, CompareHigh, CompareLow
  <2>3. mixed' \in BOOLEAN
    BY <1>1, <1>4 DEF TTypeOK, CompareMax, CompareHigh, CompareLow
  <2>4. pc' \in [Threads -> Labels]
    BY <1>1, <1>4 DEF TTypeOK, CompareMax, CompareHigh, CompareLow
  <2> QED
    BY <1>1, <1>4, <2>1, <2>2, <2>3, <2>4
       DEF TTypeOK, CompareMax, CompareHigh, CompareLow, Never
<1>5. CASE ClearElapsed
  <2>1. SetLo(time_elapsed, 0) \in Double /\ SetHi(time_elapsed, 0) \in Double
    BY <1>1, TypeFacts, StoreFacts
  <2> QED
    BY <1>1, <1>5, <2>1 DEF TTypeOK, ClearElapsed
<1>6. CASE EnableTimer \/ EnableGlobal \/ Return
  BY <1>1, <1>6 DEF TTypeOK, EnableTimer, EnableGlobal, Return
<1>7. CASE GetElapsed
  <2>1. /\ Hi(time_elapsed) \in Word /\ Lo(time_elapsed) \in Word
        /\ Hi(time_elapsed) * W + loc["main"].low \in Double
        /\ loc["main"].high * W + Lo(time_elapsed) \in Double
    BY <1>1, TypeFacts, DoubleFacts, Split
  <2> QED
    BY <1>1, <1>7, <2>1 DEF TTypeOK, GetElapsed, Word
<1>8. CASE pcount_reset
  <2>1. SetLo(mcycle, 0) \in Double /\ SetHi(mcycle, 0) \in Double
    BY <1>1, TypeFacts, StoreFacts
  <2>2. mtime \in 0 .. Never
    BY <1>1, TimerAssumption DEF TTypeOK, Never
  <2> QED
    BY <1>1, <1>8, <2>1, <2>2 DEF TTypeOK, pcount_reset
<1>9. CASE HandlerReturns
  <2>1. (time_elapsed + 1) % (W * W) \in Double
    BY <1>1, TypeFacts, CountFacts
  <2> QED
    BY <1>1, <1>9, <2>1 DEF TTypeOK, HandlerReturns
<1>10. CASE Interrupt
  BY <1>1, <1>10 DEF TTypeOK, Interrupt, InMainsUpdate
<1>11. CASE Calls
  <2>1. calls' \in 0 .. MaxCalls
    BY <1>1, <1>11, TypeFacts
       DEF TTypeOK, Calls, CallTimerEnable, CallTimerRead, CallGetElapsed,
           CallPcountReset, timer_disable, pcount_enable
  <2>2. mtime \in Double /\ time_elapsed \in Double
    BY <1>1, TypeFacts
  <2>3. CASE CallTimerEnable \/ CallTimerRead \/ CallGetElapsed
    BY <1>1, <2>1, <2>2, <2>3, MixedFacts
       DEF TTypeOK, CallTimerEnable, CallTimerRead, CallGetElapsed
  <2>4. CASE CallPcountReset \/ timer_disable \/ pcount_enable
    BY <1>1, <2>1, <2>4 DEF TTypeOK, CallPcountReset, timer_disable, pcount_enable
  <2> QED
    BY <1>11, <2>3, <2>4 DEF Calls
<1>12. CASE Tick
  <2>1. (mcycle + 1) % (W * W) \in Double
    BY <1>1, TypeFacts, CountFacts
  <2>2. mtime' \in 0 .. EndOfTime
    BY <1>1, <1>12, TimerAssumption DEF TTypeOK, Tick
  <2> QED
    BY <1>1, <1>12, <2>1, <2>2 DEF TTypeOK, Tick
<1>13. CASE SetIncrement
  <2>1. time_increment' \in MixedIncrements
    BY <1>1, <1>13, MixedFacts DEF TTypeOK, SetIncrement
  <2>2. pc' \in [Threads -> Labels]
    BY <1>1, <1>13 DEF TTypeOK, SetIncrement
  <2> QED
    BY <1>1, <1>13, <2>1, <2>2 DEF TTypeOK, SetIncrement, Never
<1> QED
  BY <1>2, <1>3, <1>4, <1>5, <1>6, <1>7, <1>8, <1>9, <1>10, <1>11, <1>12, <1>13
     DEF Next, Main, Handler, Inside

\* Reading.  The clock only goes forward, so that what was read stays fit.
LEMMA ReadStep ==
  ASSUME TimerInv, Next
  PROVE  ReadInv'
<1>. USE DEF At, Runs, Goto, Call, device, elapsed, counters, history, Threads
<1>1. TTypeOK /\ ReadInv /\ BaseInv
  BY DEF TimerInv
<1>2. ASSUME NEW t \in Threads, ReadHigh(t)
      PROVE  ReadInv'
  BY <1>1, <1>2, TypeFacts
     DEF TTypeOK, ReadInv, Fit, TimeReadWithinCall, ReadHigh, Reading, Updating, Labels, Word
<1>3. ASSUME NEW t \in Threads, ReadLow(t)
      PROVE  ReadInv'
  BY <1>1, <1>3, TypeFacts
     DEF TTypeOK, ReadInv, Fit, TimeReadWithinCall, ReadLow, Reading, Updating, Labels
<1>4. ASSUME NEW t \in Threads, ReadAgain(t)
      PROVE  ReadInv'
  <2>1. CASE Hi(mtime) # loc[t].high
    BY <1>1, <1>4, <2>1
       DEF TTypeOK, ReadInv, Fit, TimeReadWithinCall, ReadAgain, OnlyReads,
           Reading, Updating, Labels
  <2>2. CASE Hi(mtime) = loc[t].high
    <3>1. PICK s \in 0 .. mtime : Fit(t, s) /\ loc[t].high * W + loc[t].low = s
      BY <1>4, <2>2, FinalTime DEF ReadAgain
    <3>2. s \in Nat /\ s + 0 = s
      BY <1>1, <3>1, TypeFacts
    <3> QED
      BY <1>1, <1>4, <2>2, <3>1, <3>2
         DEF TTypeOK, ReadInv, Fit, TimeReadWithinCall, ReadAgain, OnlyReads,
           Reading, Updating, Labels
  <2> QED
    BY <2>1, <2>2
<1>5. ASSUME NEW t \in Threads, CompareMax(t) \/ CompareHigh(t) \/ CompareLow(t)
      PROVE  ReadInv'
  BY <1>1, <1>5
     DEF TTypeOK, ReadInv, Fit, TimeReadWithinCall, CompareMax, CompareHigh, CompareLow,
         Reading, Updating, Labels
<1>6. CASE ClearElapsed \/ SetIncrement \/ EnableTimer \/ EnableGlobal
  BY <1>1, <1>6
     DEF TTypeOK, ReadInv, Fit, TimeReadWithinCall, BaseInv, Storing, ClearElapsed,
         SetIncrement, EnableTimer, EnableGlobal, Reading, Updating, Labels
<1>7. CASE GetElapsed \/ Return \/ pcount_reset
  BY <1>1, <1>7
     DEF TTypeOK, ReadInv, Fit, TimeReadWithinCall, GetElapsed, Return, pcount_reset,
         Reading, Updating, Labels
<1>8. CASE HandlerReturns \/ Interrupt
  BY <1>1, <1>8
     DEF TTypeOK, ReadInv, Fit, TimeReadWithinCall, BaseInv, HandlerReturns, Interrupt,
         Reading, Updating, Labels
<1>9. CASE Calls
  BY <1>1, <1>9, TypeFacts
     DEF TTypeOK, ReadInv, Fit, TimeReadWithinCall, Calls, CallTimerEnable, CallTimerRead,
         CallGetElapsed, CallPcountReset, timer_disable, pcount_enable,
         Reading, Updating, Labels
<1>10. CASE Tick
  <2>1. mtime \in Nat /\ mtime' = mtime + 1
    BY <1>1, <1>10, TypeFacts DEF Tick
  <2>2. Hi(mtime) \in Nat /\ Hi(mtime') \in Nat /\ Hi(mtime) <= Hi(mtime')
    BY <2>1, Order, Split
  <2>3. /\ \A t \in Threads : /\ loc[t].high \in Nat /\ loc[t].new \in Nat
                              /\ loc[t].began \in Nat
        /\ time_increment \in Nat
    <3>1. MixedIncrements \subseteq Nat /\ Double \subseteq Nat /\ Word \subseteq Nat
      BY MixedFacts, DoubleFacts DEF Word
    <3> QED
      BY <1>1, <3>1, TypeFacts DEF TTypeOK
  <2>4. ASSUME NEW t \in Threads
        PROVE  /\ pc[t] \in Reading => Fit(t, mtime)'
               /\ pc[t] = "read_low" => loc[t].high <= Hi(mtime')
               /\ pc[t] = "read_again" =>
                    \E s \in 0 .. mtime' : /\ Fit(t, s)'
                                           /\ Lo(s) = loc[t].low /\ loc[t].high <= Hi(s)
    <3>1. pc[t] \in Reading => Fit(t, mtime)'
      BY <1>1, <1>10, <2>1, <2>3 DEF ReadInv, Fit, Tick
    <3>2. pc[t] = "read_low" => loc[t].high <= Hi(mtime')
      BY <1>1, <2>2, <2>3 DEF ReadInv
    <3>3. ASSUME pc[t] = "read_again"
          PROVE  \E s \in 0 .. mtime' : /\ Fit(t, s)'
                                        /\ Lo(s) = loc[t].low /\ loc[t].high <= Hi(s)
      BY <1>1, <1>10, <2>1, <3>3 DEF ReadInv, Fit, Tick
    <3> QED
      BY <3>1, <3>2, <3>3
  <2> QED
    BY <1>1, <1>10, <2>1, <2>3, <2>4 DEF ReadInv, TimeReadWithinCall, Tick
<1> QED
  BY <1>2, <1>3, <1>4, <1>5, <1>6, <1>7, <1>8, <1>9, <1>10
     DEF Next, Main, Handler, Inside

\* Deadlines.  Only the handler can come between the reads of an update of
\* main and its stores, and the handler reads the clock later.
LEMMA BaseStep ==
  ASSUME TimerInv, Next
  PROVE  BaseInv'
<1>. USE DEF At, Runs, Goto, Call, device, elapsed, counters, history, Threads
<1>1. TTypeOK /\ ReadInv /\ BaseInv
  BY DEF TimerInv
<1>2. ASSUME NEW t \in Threads, ReadHigh(t) \/ ReadLow(t)
      PROVE  BaseInv'
  BY <1>1, <1>2 DEF TTypeOK, BaseInv, ReadHigh, ReadLow, Storing, Reading, Updating, Labels
<1>3. ASSUME NEW t \in Threads, ReadAgain(t)
      PROVE  BaseInv'
  <2>1. CASE Hi(mtime) # loc[t].high
    BY <1>1, <1>3, <2>1 DEF TTypeOK, BaseInv, ReadAgain, Storing, Reading, Updating, Labels
  <2>2. CASE Hi(mtime) = loc[t].high
    <3>1. PICK s \in 0 .. mtime : Fit(t, s) /\ loc[t].high * W + loc[t].low = s
      BY <1>3, <2>2, FinalTime DEF ReadAgain
    <3>2. s \in Nat /\ mtime \in Nat /\ s <= mtime
      BY <1>1, <3>1, TypeFacts
    <3>3. time_increment \in Nat
      BY <1>1, MixedFacts DEF TTypeOK
    <3> QED
      BY <1>1, <1>3, <2>2, <3>1, <3>2, <3>3
         DEF TTypeOK, BaseInv, Fit, ReadAgain, Storing, Reading, Updating, Labels
  <2> QED
    BY <2>1, <2>2
<1>4. ASSUME NEW t \in Threads, CompareMax(t) \/ CompareHigh(t) \/ CompareLow(t)
      PROVE  BaseInv'
  BY <1>1, <1>4
     DEF TTypeOK, BaseInv, CompareMax, CompareHigh, CompareLow, Storing, Reading, Updating, Labels
<1>5. CASE ClearElapsed \/ EnableTimer \/ EnableGlobal
  BY <1>1, <1>5
     DEF TTypeOK, BaseInv, ClearElapsed, EnableTimer, EnableGlobal,
         Storing, Reading, Updating, Labels
<1>10. CASE SetIncrement
  <2>1. PICK x \in Double, y \in Double : x = time_increment /\ y = loc["main"].base
    BY <1>1, MixedFacts, TypeFacts DEF TTypeOK, Threads
  <2>3. /\ Hi(y) \in Word /\ Lo(y) \in Word /\ y = Hi(y) * W + Lo(y)
    BY DoubleFacts, Split
  <2>4. /\ Lo(SetLo(x, Lo(y))) = Lo(y) /\ Hi(SetHi(x, Hi(y))) = Hi(y)
        /\ Hi(x) = Hi(y) => SetLo(x, Lo(y)) = y
        /\ Lo(x) = Lo(y) => SetHi(x, Hi(y)) = y
    BY <2>3, StoreFacts DEF SetLo, SetHi
  <2> QED
    BY <1>1, <1>10, <2>1, <2>4
       DEF TTypeOK, BaseInv, Storing, SetIncrement, Reading, Updating, Labels
<1>6. CASE GetElapsed \/ Return \/ pcount_reset
  BY <1>1, <1>6
     DEF TTypeOK, BaseInv, GetElapsed, Return, pcount_reset, Storing, Reading, Updating, Labels
<1>7. CASE HandlerReturns \/ Interrupt
  BY <1>1, <1>7
     DEF TTypeOK, BaseInv, HandlerReturns, Interrupt, Storing, Reading, Updating, Labels
<1>8. CASE Calls
  BY <1>1, <1>8, TimerAssumption
     DEF TTypeOK, BaseInv, Calls, CallTimerEnable, CallTimerRead,
         CallGetElapsed, CallPcountReset, timer_disable, pcount_enable,
         Storing, Reading, Updating, Labels
<1>9. CASE Tick
  <2>1. mtime \in Nat /\ mtime' = mtime + 1 /\ loc["main"].new \in Nat
    BY <1>1, <1>9, TypeFacts DEF Tick
  <2>2. time_increment \in Nat
    BY <1>1, MixedFacts DEF TTypeOK
  <2> QED
    BY <1>1, <1>9, <2>1, <2>2 DEF BaseInv, Tick
<1> QED
  BY <1>2, <1>3, <1>4, <1>5, <1>6, <1>7, <1>8, <1>9, <1>10
     DEF Next, Main, Handler, Inside

\* mtimecmp.  A store to the low word makes it larger or completes a deadline
\* whose high word is there already.
LEMMA CompareStep ==
  ASSUME TimerInv, Next
  PROVE  CompareInv'
<1>. USE DEF At, Runs, Goto, Call, device, elapsed, counters, history, Threads
<1>1. TTypeOK /\ BaseInv /\ CompareInv
  BY DEF TimerInv
<1>2. ASSUME NEW t \in Threads, ReadHigh(t) \/ ReadLow(t) \/ ReadAgain(t)
      PROVE  CompareInv'
  BY <1>1, <1>2
     DEF TTypeOK, CompareInv, ReadHigh, ReadLow, ReadAgain, InMainsUpdate, Writing, Labels
<1>3. ASSUME NEW t \in Threads, CompareMax(t)
      PROVE  CompareInv'
  <2>1. /\ Hi(mtimecmp') = Hi(mtimecmp) /\ Lo(mtimecmp') = W - 1
        /\ mtimecmp' \in Nat /\ mtimecmp <= mtimecmp'
    <3>1. mtimecmp \in Double /\ W - 1 \in Word /\ mtimecmp' = SetLo(mtimecmp, W - 1)
      BY <1>1, <1>3, TypeFacts DEF CompareMax
    <3>2. /\ Hi(mtimecmp') = Hi(mtimecmp) /\ Lo(mtimecmp') = W - 1
          /\ mtimecmp' \in Nat /\ mtimecmp \in Nat
      BY <3>1, StoreFacts, DoubleFacts
    <3>3. Lo(mtimecmp) \in Word
      BY <3>2, Split
    <3> QED
      BY <3>2, <3>3, Order, TimerAssumption DEF Word
  <2>2. deadline \in Nat /\ mtimecmp \in Nat
    BY <1>1, TypeFacts
  <2> QED
    BY <1>1, <1>3, <2>1, <2>2
       DEF TTypeOK, CompareInv, CompareMax, InMainsUpdate, Writing, Labels
<1>4. ASSUME NEW t \in Threads, CompareHigh(t)
      PROVE  CompareInv'
  <2>1. Hi(mtimecmp') = Hi(loc[t].new) /\ Lo(mtimecmp') = Lo(mtimecmp)
    BY <1>1, <1>4, TypeFacts, StoreFacts DEF CompareHigh
  <2>2. Hi(loc[t].new) \in Nat /\ Hi(loc["main"].new) <= Hi(loc["main"].new)
    BY <1>1, TypeFacts
  <2>3. (t = "handler" /\ pc["main"] = "compare_low") =>
          Hi(loc["main"].new) <= Hi(loc["handler"].new)
    BY <1>1, <1>4, TypeFacts, Order DEF BaseInv, CompareHigh, Updating
  <2> QED
    BY <1>1, <1>4, <2>1, <2>2, <2>3
       DEF TTypeOK, CompareInv, CompareHigh, InMainsUpdate, Writing, Labels
<1>5. ASSUME NEW t \in Threads, CompareLow(t)
      PROVE  CompareInv'
  <2>1. /\ Hi(mtimecmp') = Hi(mtimecmp) /\ Lo(mtimecmp') = Lo(loc[t].new)
        /\ mtimecmp' \in Nat /\ loc[t].new \in Nat
    <3>1. mtimecmp \in Double /\ Lo(loc[t].new) \in Word /\ loc[t].new \in Nat
      BY <1>1, TypeFacts
    <3>2. mtimecmp' = SetLo(mtimecmp, Lo(loc[t].new))
      BY <1>5 DEF CompareLow
    <3> QED
      BY <3>1, <3>2, StoreFacts, DoubleFacts
  <2>2. Hi(loc[t].new) <= Hi(mtimecmp')
    BY <1>1, <1>5, <2>1, TypeFacts DEF CompareInv, CompareLow
  <2>3. loc[t].new <= mtimecmp'
    BY <2>1, <2>2, Order, Split
  <2> QED
    BY <1>1, <1>5, <2>1, <2>2, <2>3
       DEF TTypeOK, CompareInv, CompareLow, InMainsUpdate, Writing, Labels
<1>6. CASE Interrupt
  BY <1>1, <1>6 DEF TTypeOK, CompareInv, Interrupt, InMainsUpdate, Writing, Labels
<1>7. CASE ClearElapsed \/ SetIncrement \/ EnableTimer \/ EnableGlobal
  BY <1>1, <1>7
     DEF TTypeOK, CompareInv, ClearElapsed, SetIncrement, EnableTimer, EnableGlobal,
         InMainsUpdate, Writing, Labels
<1>8. CASE GetElapsed \/ Return \/ pcount_reset \/ HandlerReturns
  BY <1>1, <1>8
     DEF TTypeOK, CompareInv, GetElapsed, Return, pcount_reset, HandlerReturns,
         InMainsUpdate, Writing, Labels
<1>9. CASE Calls \/ Tick
  BY <1>1, <1>9
     DEF TTypeOK, CompareInv, Calls, CallTimerEnable, CallTimerRead, CallGetElapsed,
         CallPcountReset, timer_disable, pcount_enable, Tick,
         InMainsUpdate, Writing, Labels
<1> QED
  BY <1>2, <1>3, <1>4, <1>5, <1>6, <1>7, <1>8, <1>9
     DEF Next, Main, Handler, Inside

\* The cycle counter.  With the low word cleared first a carry can only come
\* from cycles counted after the reset.
LEMMA CounterStep ==
  ASSUME TimerInv, Next
  PROVE  CounterInv'
<1>. USE DEF At, Runs, Goto, Call, device, elapsed, counters, history, Threads
<1>1. TTypeOK /\ CounterInv
  BY DEF TimerInv
<1>2. /\ mtime \in Nat /\ mcycle \in Double /\ mcycle \in Nat /\ Lo(mcycle) \in Nat
      /\ mtime # Never /\ Never \in Nat
      /\ resetAt # Never => resetAt \in Nat
  BY <1>1, TypeFacts, DoubleFacts, Split, TimerAssumption DEF TTypeOK, Never, Word
<1>3. CASE pcount_reset
  <2>1. CASE pc["main"] = "cycle_low"
    <3>1. Lo(mcycle') = 0 /\ resetAt' = mtime
      BY <1>1, <1>2, <1>3, <2>1, TypeFacts, StoreFacts DEF pcount_reset
    <3> QED
      BY <1>1, <1>2, <1>3, <2>1, <3>1 DEF TTypeOK, CounterInv, pcount_reset
  <2>2. CASE pc["main"] = "cycle_high"
    <3>1. mcycle' = Lo(mcycle)
      <4>1. mcycle' = 0 * W + Lo(mcycle)
        BY <1>3, <2>2 DEF pcount_reset, SetHi
      <4> QED
        BY <1>2, <4>1, TimerAssumption
    <3> QED
      BY <1>1, <1>2, <1>3, <2>2, <3>1 DEF TTypeOK, CounterInv, pcount_reset
  <2> QED
    BY <1>3, <2>1, <2>2 DEF pcount_reset
<1>4. CASE Tick
  <2>1. PICK y \in Double : /\ y = (mcycle + 1) % (W * W)
                            /\ y <= mcycle + 1 /\ Lo(y) <= Lo(mcycle) + 1
    BY <1>2, CountFacts
  <2>2. y \in Nat /\ Lo(y) \in Nat
    BY DoubleFacts, Split DEF Word
  <2>3. mcycle' = y \/ mcycle' = mcycle
    BY <1>4, <2>1 DEF Tick
  <2> QED
    BY <1>1, <1>2, <1>4, <2>1, <2>2, <2>3 DEF CounterInv, Tick, Never
<1>5. ASSUME NEW t \in Threads, Inside(t)
      PROVE  CounterInv'
  BY <1>1, <1>5
     DEF TTypeOK, CounterInv, Inside, ReadHigh, ReadLow, ReadAgain, CompareMax,
         CompareHigh, CompareLow, Never
<1>6. CASE ClearElapsed \/ SetIncrement \/ EnableTimer \/ EnableGlobal \/ GetElapsed \/ Return
  BY <1>1, <1>6
     DEF TTypeOK, CounterInv, ClearElapsed, SetIncrement, EnableTimer, EnableGlobal,
         GetElapsed, Return, Never
<1>7. CASE HandlerReturns \/ Interrupt \/ Calls
  BY <1>1, <1>7
     DEF TTypeOK, CounterInv, HandlerReturns, Interrupt, Calls, CallTimerEnable,
         CallTimerRead, CallGetElapsed, CallPcountReset, timer_disable, pcount_enable, Never
<1> QED
  BY <1>3, <1>4, <1>5, <1>6, <1>7 DEF Next, Main, Handler

-----------------------------------------------------------------------------
(* The theorems.                                                           *)

LEMMA InitInv ==
  ASSUME Init
  PROVE  TimerInv
<1>1. 0 \in Double /\ W * W - 1 \in Double /\ FirstCycles \subseteq Double
  BY DoubleFacts, TimerAssumption DEF Double
<1>2. TTypeOK
  <2>1. 0 \in 0 .. EndOfTime /\ Never \in 0 .. Never /\ 0 \in 0 .. MaxCalls /\ 0 \in 0 .. W - 1
    BY TimerAssumption DEF Never
  <2>2. mtimecmp \in Double /\ deadline \in Double /\ mcycle \in Double
    BY <1>1 DEF Init
  <2>3. loc \in [Threads -> [base : MixedIncrements, high : 0 .. W - 1,
                             low : 0 .. W - 1, new : Double, began : Double]]
    BY <1>1, <2>1, MixedFacts DEF Init, NoLocals
  <2>4. pc \in [Threads -> Labels]
    BY DEF Init, Labels
  <2> QED
    BY <1>1, <2>1, <2>2, <2>3, <2>4, MixedFacts DEF Init, TTypeOK
<1>3. ReadInv /\ BaseInv
  BY DEF Init, ReadInv, TimeReadWithinCall, BaseInv, Storing, Reading, Updating, Threads
<1>4. CompareInv
  <2>1. mtimecmp \in Nat /\ deadline = mtimecmp
    BY <1>1, DoubleFacts DEF Init
  <2> QED
    BY <2>1 DEF Init, CompareInv, InMainsUpdate, Writing, Threads
<1>5. CounterInv
  BY DEF Init, CounterInv
<1> QED
  BY <1>2, <1>3, <1>4, <1>5 DEF TimerInv

LEMMA StutterInv ==
  ASSUME TimerInv, UNCHANGED vars
  PROVE  TimerInv'
  BY DEF TimerInv, TTypeOK, ReadInv, Fit, TimeReadWithinCall, BaseInv, CompareInv,
         CounterInv, InMainsUpdate, vars, device, counters, elapsed, history

\* The invariant of the library: it joins what a reader has read to the clock,
\* both threads' deadlines to each other, and mtimecmp to the deadline.
THEOREM LibraryInvariance == Spec => []TimerInv
<1>1. TimerInv /\ [Next]_vars => TimerInv'
  BY TypeStep, ReadStep, BaseStep, CompareStep, CounterStep, StutterInv DEF TimerInv
<1> QED
  BY InitInv, <1>1, PTL DEF Spec

\* No variable of the library and no register leaves its range: in particular
\* no deadline that timer_enable or the handler computes wraps.
THEOREM LibraryTypes == Spec => []TTypeOK
<1>1. TimerInv => TTypeOK
  BY DEF TimerInv
<1> QED
  BY <1>1, LibraryInvariance, PTL

\* timer_read returns a time of its call, whatever the handler and the carries
\* of the clock do between its three loads.
THEOREM TimeIsRead == Spec => []TimeReadWithinCall
<1>1. TimerInv => TimeReadWithinCall
  BY DEF TimerInv, ReadInv
<1> QED
  BY <1>1, LibraryInvariance, PTL

\* The three stores of timecmp_update never make the timer ask before the old
\* and the new deadline, unless two updates overlap.
THEOREM NotEarly == Spec => []NoSpuriousInterrupt
<1>1. ASSUME TimerInv
      PROVE  NoSpuriousInterrupt
  <2>1. TTypeOK /\ CompareInv /\ mtime \in Nat /\ mtimecmp \in Nat /\ deadline \in Nat
    BY <1>1, TypeFacts DEF TimerInv
  <2>2. SUFFICES ASSUME mtimecmp <= mtime, ~mixed
                 PROVE  \/ deadline <= mtime
                        \/ \E t \in Threads : /\ pc[t] \in {"compare_high", "compare_low"}
                                              /\ loc[t].new <= mtime
    BY <2>1 DEF NoSpuriousInterrupt, Pending
  <2>3. CASE deadline <= mtimecmp
    BY <2>1, <2>2, <2>3
  <2>4. CASE \E t \in Threads : pc[t] = "compare_low"
    <3>1. PICK t \in Threads : pc[t] = "compare_low"
      BY <2>4
    <3>2. Hi(mtimecmp) = Hi(loc[t].new) /\ Lo(mtimecmp) = W - 1
      BY <2>1, <2>2, <3>1 DEF CompareInv, Threads
    <3>3. loc[t].new \in Nat /\ Lo(loc[t].new) <= W - 1
      BY <2>1, TypeFacts, TimerAssumption DEF Word
    <3>4. loc[t].new <= mtimecmp
      BY <2>1, <3>2, <3>3, Order
    <3> QED
      BY <2>1, <2>2, <3>1, <3>3, <3>4
  <2> QED
    BY <2>1, <2>2, <2>3, <2>4 DEF CompareInv, Writing, Threads
<1> QED
  BY <1>1, LibraryInvariance, PTL

\* pcount_reset clears a running 64-bit counter with two stores: afterwards it
\* is never ahead of the cycles since the first of them.
THEOREM ResetIsClean == Spec => []PcountResetClean
<1>1. TimerInv => PcountResetClean
  BY DEF TimerInv, CounterInv, PcountResetClean
<1> QED
  BY <1>1, LibraryInvariance, PTL

-----------------------------------------------------------------------------
(* get_elapsed_time.  It loads the two words of time_elapsed and has no    *)
(* second look at the high one: what it returns is right because a call    *)
(* sees few interrupts.                                                    *)

InCall == pc["main"] \in {"elapsed", "elapsed_high", "elapsed_low", "elapsed_done"}
Began == loc["main"].began

\* The interrupts that the handler has counted since the call.
Passed == IF Began <= time_elapsed THEN time_elapsed - Began
          ELSE time_elapsed + W * W - Began

\* An enabled timer has an increment, and so a handler that runs, except while
\* main is between the two stores of the next one: then it can be 0.
IncrementInv ==
  pc["main"] \notin {"increment_high", "increment_low"} =>
    /\ mtie \/ pc["main"] \in Updating \cup {"enable_timer"} => time_increment # 0
    /\ pc["handler"] \in Reading => time_increment # 0

\* The clock counts between two interrupts: the deadline that the handler sets
\* is later than as many ticks as there were interrupts in the call.
CountedInv ==
  InCall =>
    /\ IF pc["handler"] = "idle" THEN Passed <= mtimecmp /\ Passed <= mtime + 1
       ELSE Passed <= mtime
    /\ pc["handler"] = "read_again" =>
         \E s \in Passed .. mtime : Lo(s) = loc["handler"].low /\ loc["handler"].high <= Hi(s)
    /\ pc["handler"] \in Updating => Passed < loc["handler"].new
    /\ pc["handler"] = "count" => Passed < mtimecmp

\* The words read so far, unless an interrupt of the call has carried.
WordsInv ==
  InCall /\ Hi(time_elapsed) = Hi(Began) =>
    /\ pc["main"] = "elapsed_high" => loc["main"].low \in Lo(Began) .. Lo(time_elapsed)
    /\ pc["main"] = "elapsed_low" => loc["main"].high = Hi(Began)
    /\ pc["main"] = "elapsed_done" => loc["main"].new \in Began .. time_elapsed

ElapsedInv == IncrementInv /\ CountedInv /\ WordsInv

\* Passed is a number, and nothing when the counter is where it was.
LEMMA PassedFacts ==
  ASSUME TTypeOK
  PROVE  /\ Began \in Double /\ Began \in Nat /\ time_elapsed \in Nat /\ Passed \in Nat
         /\ time_elapsed = Began => Passed = 0
         /\ W * W \in Nat /\ Began < W * W /\ time_elapsed < W * W
<1>1. PICK D \in Nat : D = W * W /\ D > 0 /\ Double = 0 .. D - 1
  BY TimerAssumption DEF Double
<1>2. Began \in 0 .. D - 1 /\ time_elapsed \in 0 .. D - 1
  BY <1>1, TypeFacts DEF Threads, Began
<1>3. PICK b \in 0 .. D - 1 : b = Began
  BY <1>2
<1>4. Passed = IF b <= time_elapsed THEN time_elapsed - b ELSE time_elapsed + D - b
  BY <1>1, <1>3 DEF Passed
<1> QED
  BY <1>1, <1>2, <1>3, <1>4

\* Few enough interrupts to carry no further than the high word once: with the
\* same high word as at the call the counter has grown.
LEMMA SameHigh ==
  ASSUME TTypeOK, Passed <= W * W - W, Hi(time_elapsed) = Hi(Began)
  PROVE  Began <= time_elapsed /\ Lo(Began) <= Lo(time_elapsed)
<1>1. PICK D \in Nat : D = W * W
  BY PassedFacts
<1>2. PICK b \in Nat : b = Began
  BY PassedFacts
<1>3. time_elapsed \in Nat
  BY PassedFacts
<1>4. PICK h \in Nat, k \in Word : h = Hi(time_elapsed) /\ k = Lo(time_elapsed)
                                   /\ time_elapsed = h * W + k
  BY <1>3, Split
<1>5. PICK l \in Word : l = Lo(b) /\ b = h * W + l
  BY <1>2, <1>4, Split
<1>6. PICK n \in Nat : n = h * W
  BY <1>4, TimerAssumption
<1>7. b <= time_elapsed
  <2>1. Passed = IF b <= time_elapsed THEN time_elapsed - b ELSE time_elapsed + D - b
    BY <1>1, <1>2 DEF Passed
  <2>2. Passed <= D - W
    BY <1>1
  <2>3. time_elapsed = n + k /\ b = n + l /\ W \in Nat /\ k \in 0 .. W - 1 /\ l \in 0 .. W - 1
    BY <1>4, <1>5, <1>6, TimerAssumption DEF Word
  <2> QED
    BY <2>1, <2>2, <2>3
<1>8. k \in Nat /\ l \in Nat /\ time_elapsed = n + k /\ b = n + l
  BY <1>4, <1>5, <1>6, TimerAssumption DEF Word
<1> QED
  BY <1>2, <1>4, <1>5, <1>7, <1>8

\* The handler counts one more; if the high word is that of the call after it,
\* it was so before.
LEMMA CountOne ==
  ASSUME TTypeOK, HandlerReturns, Passed < W * W - W
  PROVE  /\ Passed' = Passed + 1
         /\ Hi(time_elapsed') = Hi(Began) =>
              Hi(time_elapsed) = Hi(Began) /\ time_elapsed' = time_elapsed + 1
<1>1. PICK D \in Nat : D = W * W
  BY PassedFacts
<1>2. PICK b \in Nat : b = Began
  BY PassedFacts
<1>3. PICK e \in Nat : e = time_elapsed
  BY PassedFacts
<1>4. W \in Nat /\ W > 1 /\ b < D /\ e < D
  BY <1>1, <1>2, <1>3, PassedFacts, TimerAssumption
<1>5. Began' = b
  BY <1>2 DEF HandlerReturns, Began
<1>6. time_elapsed' = IF e + 1 = D THEN 0 ELSE e + 1
  <2>1. time_elapsed' = (e + 1) % D
    BY <1>1, <1>3 DEF HandlerReturns
  <2> QED
    BY <1>4, <2>1
<1>7. Passed = IF b <= e THEN e - b ELSE e + D - b
  BY <1>1, <1>2, <1>3 DEF Passed
<1>8. Passed' = IF b <= time_elapsed' THEN time_elapsed' - b ELSE time_elapsed' + D - b
  <2>1. Passed' = IF Began' <= time_elapsed' THEN time_elapsed' - Began'
                  ELSE time_elapsed' + W * W - Began'
    BY DEF Passed
  <2> QED
    BY <1>1, <1>5, <2>1
<1>9. Passed < D - W
  BY <1>1
<1>10. Passed' = Passed + 1
  BY <1>4, <1>6, <1>7, <1>8, <1>9
<1>11. ASSUME Hi(time_elapsed') = Hi(Began)
       PROVE  Hi(time_elapsed) = Hi(Began) /\ time_elapsed' = time_elapsed + 1
  <2>1. PICK f \in Nat : f = time_elapsed'
    BY <1>6
  <2>2. PICK g \in Nat, k \in Word : g = Hi(f) /\ f = g * W + k
    BY <2>1, Split
  <2>3. PICK l \in Word : b = g * W + l
    BY <1>2, <1>11, <2>1, <2>2, Split
  <2>4. PICK n \in Nat : n = g * W
    BY <2>2, TimerAssumption
  <2>5. f = n + k /\ b = n + l /\ k \in 0 .. W - 1 /\ l \in 0 .. W - 1
    BY <2>2, <2>3, <2>4 DEF Word
  <2>6. b <= f
    BY <1>4, <1>7, <1>8, <1>9, <1>10, <2>1, <2>5
  <2>7. f = e + 1 /\ b <= e
    BY <1>4, <1>6, <1>7, <1>9, <2>1, <2>6
  <2>8. Hi(b) <= Hi(e) /\ Hi(e) <= Hi(f) /\ Hi(b) \in Nat /\ Hi(e) \in Nat
    BY <2>7, Order, Split
  <2> QED
    BY <1>2, <1>3, <1>11, <2>1, <2>7, <2>8
<1> QED
  BY <1>10, <1>11

\* The timer is enabled with an increment only.
LEMMA IncrementStep ==
  ASSUME TimerInv, ElapsedInv, Next
  PROVE  IncrementInv'
<1>. USE DEF At, Runs, Goto, Call, device, elapsed, counters, history, Threads
<1>1. TTypeOK /\ BaseInv /\ IncrementInv
  BY DEF TimerInv, ElapsedInv
<1>2. ASSUME NEW t \in Threads, Inside(t)
      PROVE  IncrementInv'
  BY <1>1, <1>2
     DEF TTypeOK, BaseInv, IncrementInv, Inside, ReadHigh, ReadLow, ReadAgain, OnlyReads,
         CompareMax, CompareHigh, CompareLow, Reading, Updating, Labels
<1>3. CASE ClearElapsed \/ EnableTimer \/ EnableGlobal
  BY <1>1, <1>3
     DEF TTypeOK, IncrementInv, ClearElapsed, EnableTimer, EnableGlobal,
         Reading, Updating, Labels
<1>7. CASE SetIncrement
  <2>1. BaseInv' /\ loc' = loc /\ loc["main"].base # 0
    BY <1>1, <1>7, BaseStep DEF BaseInv, Storing, Next, Main, SetIncrement
  <2>2. pc'["main"] \in Reading => time_increment' # 0
    BY <2>1 DEF BaseInv
  <2> QED
    BY <1>1, <1>7, <2>2 DEF TTypeOK, IncrementInv, SetIncrement, Reading, Updating, Labels
<1>4. CASE GetElapsed \/ Return \/ pcount_reset
  BY <1>1, <1>4
     DEF TTypeOK, IncrementInv, GetElapsed, Return, pcount_reset, Reading, Updating, Labels
<1>5. CASE HandlerReturns \/ Interrupt
  BY <1>1, <1>5
     DEF TTypeOK, IncrementInv, HandlerReturns, Interrupt, Reading, Updating, Labels
<1>6. CASE Calls \/ Tick
  BY <1>1, <1>6
     DEF TTypeOK, IncrementInv, Calls, CallTimerEnable, CallTimerRead, CallGetElapsed,
         CallPcountReset, timer_disable, pcount_enable, Tick, Reading, Updating, Labels
<1> QED
  BY <1>2, <1>3, <1>4, <1>5, <1>6, <1>7 DEF Next, Main, Handler, Inside

\* The deadline that the handler sets is later than as many ticks as there were
\* interrupts in the call.
LEMMA CountedStep ==
  ASSUME EndOfTime < W * W - W, TimerInv, ElapsedInv, Next
  PROVE  CountedInv'
<1>. USE DEF At, Runs, Goto, Call, device, elapsed, counters, history, Threads
<1>1. TTypeOK /\ ReadInv /\ BaseInv /\ CompareInv /\ IncrementInv /\ CountedInv
  BY DEF TimerInv, ElapsedInv
<1>2. /\ mtime \in Nat /\ mtimecmp \in Nat /\ Passed \in Nat
      /\ loc["handler"].base \in Nat /\ loc["handler"].new \in Nat
  BY <1>1, TypeFacts, PassedFacts
<1>3. ASSUME UNCHANGED time_elapsed, loc'["main"] = loc["main"]
      PROVE  Passed' = Passed
  BY <1>3 DEF Passed, Began
<1>4. CASE Inside("main")
  BY <1>1, <1>4
     DEF TTypeOK, CountedInv, InCall, Inside, ReadHigh, ReadLow, ReadAgain, CompareMax,
         CompareHigh, CompareLow, Labels
<1>5. CASE ReadHigh("handler") \/ ReadLow("handler")
  <2>1. Passed' = Passed
    BY <1>1, <1>3, <1>5 DEF TTypeOK, ReadHigh, ReadLow
  <2>2. InCall' => InCall
    BY <1>1, <1>5 DEF TTypeOK, InCall, ReadHigh, ReadLow
  <2> QED
    BY <1>1, <1>2, <1>5, <2>1, <2>2
       DEF TTypeOK, CountedInv, ReadInv, ReadHigh, ReadLow, Updating, Labels
<1>6. CASE ReadAgain("handler")
  <2>1. Passed' = Passed
    BY <1>1, <1>3, <1>6 DEF TTypeOK, ReadAgain, OnlyReads
  <2>2. InCall' => InCall
    BY <1>1, <1>6 DEF TTypeOK, InCall, ReadAgain
  <2>3. InCall => loc["handler"].base # 0
    BY <1>1, <1>6 DEF InCall, BaseInv, IncrementInv, ReadAgain, Reading
  <2>4. CASE Hi(mtime) # loc["handler"].high
    BY <1>1, <1>6, <2>1, <2>2, <2>4 DEF TTypeOK, CountedInv, ReadAgain, Updating, Labels
  <2>5. CASE Hi(mtime) = loc["handler"].high
    <3>1. SUFFICES ASSUME InCall
                   PROVE  CountedInv'
      BY <2>2 DEF CountedInv
    <3>2. PICK s \in Passed .. mtime :
            Lo(s) = loc["handler"].low /\ loc["handler"].high <= Hi(s)
      BY <1>1, <1>6, <3>1 DEF CountedInv, ReadAgain
    <3>3. s \in Nat /\ s <= mtime /\ Passed <= s
      BY <1>2, <3>2
    <3>4. Hi(s) <= Hi(mtime) /\ Hi(s) \in Nat /\ Hi(mtime) \in Nat
      BY <1>2, <3>3, Order, Split
    <3>5. s = loc["handler"].high * W + loc["handler"].low
      BY <2>5, <3>2, <3>3, <3>4, Split
    <3>6. /\ pc'["handler"] = "compare_max"
          /\ loc'["handler"].new = s + loc["handler"].base
      BY <1>1, <1>6, <2>3, <2>5, <3>5 DEF TTypeOK, ReadAgain, OnlyReads
    <3>7. Passed < s + loc["handler"].base
      BY <1>2, <2>3, <3>1, <3>3
    <3>8. Passed <= mtime'
      BY <1>1, <1>6, <3>1 DEF CountedInv, ReadAgain
    <3> QED
      BY <2>1, <3>6, <3>7, <3>8 DEF CountedInv, Updating
  <2> QED
    BY <2>4, <2>5
<1>7. CASE CompareMax("handler") \/ CompareHigh("handler")
  <2>1. Passed' = Passed
    BY <1>1, <1>3, <1>7 DEF TTypeOK, CompareMax, CompareHigh
  <2>2. InCall' => InCall
    BY <1>1, <1>7 DEF TTypeOK, InCall, CompareMax, CompareHigh
  <2> QED
    BY <1>1, <1>7, <2>1, <2>2
       DEF TTypeOK, CountedInv, CompareMax, CompareHigh, Updating, Labels
<1>8. CASE CompareLow("handler")
  <2>1. Passed' = Passed
    BY <1>1, <1>3, <1>8 DEF TTypeOK, CompareLow
  <2>2. InCall' => InCall
    BY <1>1, <1>8 DEF TTypeOK, InCall, CompareLow
  <2>3. mtimecmp' = loc["handler"].new
    <3>1. mtimecmp' = Hi(loc["handler"].new) * W + Lo(loc["handler"].new)
      BY <1>1, <1>8 DEF CompareInv, CompareLow, SetLo
    <3> QED
      BY <1>2, <3>1, Split
  <2>4. pc'["handler"] = "count" /\ mtime' = mtime
    BY <1>1, <1>8 DEF TTypeOK, CompareLow
  <2>5. InCall => Passed <= mtime /\ Passed < loc["handler"].new
    BY <1>1, <1>8 DEF CountedInv, CompareLow, Updating
  <2> QED
    BY <2>1, <2>2, <2>3, <2>4, <2>5 DEF CountedInv, Updating
<1>9. CASE HandlerReturns
  <2>1. SUFFICES ASSUME InCall
                 PROVE  CountedInv'
    BY <1>1, <1>9 DEF TTypeOK, CountedInv, InCall, HandlerReturns
  <2>2. Passed <= mtime /\ Passed < mtimecmp
    BY <1>1, <1>9, <2>1 DEF CountedInv, HandlerReturns
  <2>3. Passed < W * W - W
    <3>1. mtime <= EndOfTime /\ W * W \in Nat /\ W \in Nat /\ EndOfTime \in Nat
      BY <1>1, PassedFacts, TimerAssumption DEF TTypeOK
    <3> QED
      BY <1>2, <2>2, <3>1
  <2>4. Passed' = Passed + 1
    BY <1>1, <1>9, <2>3, CountOne
  <2>5. pc'["handler"] = "idle" /\ UNCHANGED <<mtime, mtimecmp>>
    BY <1>1, <1>9 DEF TTypeOK, HandlerReturns
  <2> QED
    BY <1>2, <2>2, <2>4, <2>5 DEF CountedInv, Updating
<1>10. CASE Interrupt
  <2>1. Passed' = Passed
    BY <1>1, <1>3, <1>10 DEF TTypeOK, Interrupt
  <2>2. InCall' => InCall
    BY <1>1, <1>10 DEF TTypeOK, InCall, Interrupt
  <2>3. InCall => Passed <= mtime
    BY <1>1, <1>2, <1>10 DEF CountedInv, Interrupt, Pending
  <2>4. pc'["handler"] = "read_high" /\ mtime' = mtime
    BY <1>1, <1>10 DEF TTypeOK, Interrupt
  <2> QED
    BY <2>1, <2>2, <2>3, <2>4 DEF CountedInv, Updating
<1>11. CASE Tick
  <2>1. Passed' = Passed /\ (InCall' <=> InCall)
    BY <1>11 DEF Tick, Passed, Began, InCall
  <2>2. mtime' = mtime + 1 /\ UNCHANGED <<mtimecmp, pc, loc>>
    BY <1>11 DEF Tick
  <2>3. InCall =>
          /\ IF pc["handler"] = "idle" THEN Passed <= mtimecmp /\ Passed <= mtime + 2
             ELSE Passed <= mtime + 1
          /\ pc["handler"] = "read_again" =>
               \E s \in Passed .. mtime + 1 :
                 Lo(s) = loc["handler"].low /\ loc["handler"].high <= Hi(s)
    BY <1>1, <1>2 DEF CountedInv
  <2> QED
    BY <1>1, <1>2, <2>1, <2>2, <2>3 DEF CountedInv
<1>12. CASE ClearElapsed \/ SetIncrement \/ EnableTimer \/ EnableGlobal \/ Return \/ pcount_reset
  BY <1>1, <1>12
     DEF TTypeOK, CountedInv, InCall, ClearElapsed, SetIncrement, EnableTimer,
         EnableGlobal, Return, pcount_reset, Labels
<1>13. CASE GetElapsed
  <2>1. Passed' = Passed
    BY <1>1, <1>13 DEF TTypeOK, GetElapsed, Passed, Began
  <2>2. InCall /\ pc["handler"] = "idle" /\ pc'["handler"] = "idle"
    BY <1>1, <1>13 DEF TTypeOK, InCall, GetElapsed
  <2> QED
    BY <1>1, <1>13, <2>1, <2>2 DEF CountedInv, GetElapsed, Updating
<1>14. CASE CallGetElapsed
  <2>1. Began' = time_elapsed /\ time_elapsed' = time_elapsed
    BY <1>1, <1>14 DEF TTypeOK, CallGetElapsed, Began
  <2>2. Passed' = 0
    <3>1. Passed' = IF Began' <= time_elapsed' THEN time_elapsed' - Began'
                    ELSE time_elapsed' + W * W - Began'
      BY DEF Passed
    <3> QED
      BY <1>1, <2>1, <3>1, PassedFacts
  <2>3. pc'["handler"] = "idle" /\ UNCHANGED <<mtime, mtimecmp>>
    BY <1>1, <1>14 DEF TTypeOK, CallGetElapsed
  <2> QED
    BY <1>2, <2>2, <2>3 DEF CountedInv, Updating
<1>15. CASE CallTimerEnable \/ CallTimerRead \/ CallPcountReset \/ timer_disable \/ pcount_enable
  BY <1>1, <1>15
     DEF TTypeOK, CountedInv, InCall, CallTimerEnable, CallTimerRead, CallPcountReset,
         timer_disable, pcount_enable, Labels
<1>16. CASE Inside("handler")
  BY <1>5, <1>6, <1>7, <1>8, <1>16 DEF Inside
<1> QED
  BY <1>4, <1>9, <1>10, <1>11, <1>12, <1>13, <1>14, <1>15, <1>16
     DEF Next, Main, Handler, Calls

\* The words read in the call are between those at the call and those now.
LEMMA WordsStep ==
  ASSUME EndOfTime < W * W - W, TimerInv, ElapsedInv, Next
  PROVE  WordsInv'
<1>. USE DEF At, Runs, Goto, Call, device, elapsed, counters, history, Threads
<1>1. TTypeOK /\ CountedInv /\ WordsInv
  BY DEF TimerInv, ElapsedInv
<1>2. /\ Began \in Nat /\ time_elapsed \in Nat
      /\ Hi(Began) \in Nat /\ Lo(Began) \in Nat
      /\ Hi(time_elapsed) \in Nat /\ Lo(time_elapsed) \in Nat
      /\ loc["main"].low \in Nat /\ loc["main"].new \in Nat
  BY <1>1, TypeFacts, PassedFacts, Split DEF Word
<1>3. ASSUME InCall
      PROVE  /\ Passed <= W * W - W
             /\ pc["handler"] = "count" => Passed < W * W - W
  <2>1. mtime <= EndOfTime /\ W * W \in Nat /\ W \in Nat /\ EndOfTime \in Nat /\ mtime \in Nat
    BY <1>1, PassedFacts, TimerAssumption DEF TTypeOK
  <2>2. Passed <= mtime + 1 /\ (pc["handler"] = "count" => Passed <= mtime)
    <3>1. Passed \in Nat
      BY <1>1, PassedFacts
    <3> QED
      BY <1>1, <1>3, <2>1, <3>1 DEF CountedInv
  <2>3. Passed \in Nat
    BY <1>1, PassedFacts
  <2> QED
    BY <2>1, <2>2, <2>3
<1>4. CASE Inside("main")
  BY <1>1, <1>4
     DEF TTypeOK, WordsInv, InCall, Inside, ReadHigh, ReadLow, ReadAgain, CompareMax,
         CompareHigh, CompareLow, Labels
<1>5. CASE Inside("handler")
  <2>1. /\ loc'["main"] = loc["main"] /\ pc'["main"] = pc["main"]
        /\ time_elapsed' = time_elapsed
    BY <1>1, <1>5
       DEF TTypeOK, Inside, ReadHigh, ReadLow, ReadAgain, CompareMax, CompareHigh, CompareLow
  <2> QED
    BY <1>1, <2>1 DEF WordsInv, InCall, Began
<1>6. CASE HandlerReturns
  <2>1. SUFFICES ASSUME InCall, Hi(time_elapsed') = Hi(Began)
                 PROVE  WordsInv'
    BY <1>1, <1>6 DEF TTypeOK, WordsInv, InCall, HandlerReturns, Began
  <2>2. Hi(time_elapsed) = Hi(Began) /\ time_elapsed' = time_elapsed + 1
    BY <1>1, <1>3, <1>6, <2>1, CountOne DEF HandlerReturns
  <2>3. Lo(time_elapsed) <= Lo(time_elapsed') /\ Lo(time_elapsed') \in Nat
    <3>1. Hi(time_elapsed) = Hi(time_elapsed') /\ time_elapsed <= time_elapsed'
      BY <1>2, <2>1, <2>2
    <3>2. time_elapsed' \in Nat
      BY <1>2, <2>2
    <3> QED
      BY <1>2, <3>1, <3>2, Order, Split DEF Word
  <2>4. pc'["main"] = pc["main"] /\ loc' = loc
    BY <1>1, <1>6 DEF TTypeOK, HandlerReturns
  <2>5. /\ pc["main"] = "elapsed_high" => loc["main"].low \in Lo(Began) .. Lo(time_elapsed')
        /\ pc["main"] = "elapsed_low" => loc["main"].high = Hi(Began)
        /\ pc["main"] = "elapsed_done" => loc["main"].new \in Began .. time_elapsed'
    BY <1>1, <1>2, <2>1, <2>2, <2>3 DEF WordsInv
  <2> QED
    BY <2>4, <2>5 DEF WordsInv, Began
<1>7. CASE Interrupt \/ Tick
  BY <1>1, <1>7 DEF TTypeOK, WordsInv, InCall, Began, Interrupt, Tick
<1>8. CASE ClearElapsed \/ SetIncrement \/ EnableTimer \/ EnableGlobal \/ Return \/ pcount_reset
  BY <1>1, <1>8
     DEF TTypeOK, WordsInv, InCall, ClearElapsed, SetIncrement, EnableTimer,
         EnableGlobal, Return, pcount_reset, Labels
<1>9. CASE GetElapsed
  <2>1. InCall /\ Began' = Began /\ time_elapsed' = time_elapsed
    BY <1>1, <1>9 DEF TTypeOK, InCall, GetElapsed, Began
  <2>2. SUFFICES ASSUME Hi(time_elapsed) = Hi(Began)
                 PROVE  WordsInv'
    BY <2>1 DEF WordsInv
  <2>3. Began <= time_elapsed /\ Lo(Began) <= Lo(time_elapsed)
    BY <1>1, <1>3, <2>1, <2>2, SameHigh
  <2>4. /\ time_elapsed = Hi(Began) * W + Lo(time_elapsed)
        /\ Began = Hi(Began) * W + Lo(Began)
    BY <1>2, <2>2, Split
  <2>5. PICK n \in Nat : n = Hi(Began) * W
    BY <1>2, TimerAssumption
  <2>6. CASE pc["main"] = "elapsed"
    <3>1. \/ pc'["main"] = "elapsed_high" /\ loc'["main"].low = Lo(time_elapsed)
          \/ pc'["main"] = "elapsed_low" /\ loc'["main"].high = Hi(time_elapsed)
      BY <1>1, <1>9, <2>6 DEF TTypeOK, GetElapsed
    <3> QED
      BY <1>2, <2>1, <2>2, <2>3, <3>1 DEF WordsInv
  <2>7. CASE pc["main"] = "elapsed_high"
    <3>1. pc'["main"] = "elapsed_done" /\ loc'["main"].new = n + loc["main"].low
      BY <1>1, <1>9, <2>2, <2>5, <2>7 DEF TTypeOK, GetElapsed
    <3>2. loc["main"].low \in Lo(Began) .. Lo(time_elapsed)
      BY <1>1, <2>1, <2>2, <2>7 DEF WordsInv
    <3>3. n + loc["main"].low \in Began .. time_elapsed
      BY <1>2, <2>4, <2>5, <3>2
    <3> QED
      BY <2>1, <3>1, <3>3 DEF WordsInv
  <2>8. CASE pc["main"] = "elapsed_low"
    <3>1. loc["main"].high = Hi(Began)
      BY <1>1, <2>1, <2>2, <2>8 DEF WordsInv
    <3>2. pc'["main"] = "elapsed_done" /\ loc'["main"].new = time_elapsed
      BY <1>1, <1>9, <2>4, <2>8, <3>1 DEF TTypeOK, GetElapsed
    <3> QED
      BY <1>2, <2>1, <2>3, <3>2 DEF WordsInv
  <2> QED
    BY <1>9, <2>6, <2>7, <2>8 DEF GetElapsed
<1>10. CASE Calls
  BY <1>1, <1>10
     DEF TTypeOK, WordsInv, InCall, Calls, CallTimerEnable, CallTimerRead, CallGetElapsed,
         CallPcountReset, timer_disable, pcount_enable, Labels
<1> QED
  BY <1>4, <1>5, <1>6, <1>7, <1>8, <1>9, <1>10 DEF Next, Main, Handler

LEMMA InitElapsed ==
  ASSUME Init
  PROVE  ElapsedInv
  BY DEF Init, ElapsedInv, IncrementInv, CountedInv, WordsInv, InCall, Reading, Updating,
         Threads

LEMMA StutterElapsed ==
  ASSUME ElapsedInv, UNCHANGED vars
  PROVE  ElapsedInv'
  BY DEF ElapsedInv, IncrementInv, CountedInv, WordsInv, InCall, Began, Passed,
         vars, device, counters, elapsed, history

\* timer_read and get_elapsed_time return a value that held during the call;
\* get_elapsed_time unless one of the interrupts of the call has carried into
\* the high word.  The clock is not at the last of its high words: otherwise
\* time_elapsed, that follows it, could pass its largest value in a call.
THEOREM ReadsAreOfTheCall ==
  ASSUME EndOfTime < W * W - W
  PROVE  Spec => []ReadsWithinCall
<1>1. Init => TimerInv /\ ElapsedInv
  BY InitInv, InitElapsed
<1>2. TimerInv /\ ElapsedInv /\ [Next]_vars => (TimerInv /\ ElapsedInv)'
  <2>1. ASSUME TimerInv, ElapsedInv, Next
        PROVE  (TimerInv /\ ElapsedInv)'
    BY <2>1, TypeStep, ReadStep, BaseStep, CompareStep, CounterStep,
       IncrementStep, CountedStep, WordsStep DEF TimerInv, ElapsedInv
  <2> QED
    BY <2>1, StutterInv, StutterElapsed
<1>3. TimerInv /\ ElapsedInv => ReadsWithinCall
  BY DEF TimerInv, ReadInv, ElapsedInv, WordsInv, InCall, Began, ReadsWithinCall
<1> QED
  BY <1>1, <1>2, <1>3, PTL DEF Spec

=============================================================================
