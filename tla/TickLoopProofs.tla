--------------------------- MODULE TickLoopProofs ---------------------------
(***************************************************************************)
(* The timer examples keep time whatever the counts of their timers: the   *)
(* runs of the loop that a tick starts are whole periods apart, and the    *)
(* debounced level changes only after DebounceTicks of them.               *)
(*                                                                         *)
(* RunsOnTime is not inductive: a run may be owed already, by a flag that  *)
(* waits for its interrupt or by a tick that waits for the loop.  The      *)
(* invariant counts those as runs (Owed) and adds what the timer has       *)
(* counted towards its next flag (Progress): the stopwatch shows more than *)
(* all that.                                                               *)
(***************************************************************************)
EXTENDS TickLoop, TLAPS

One(p) == IF p THEN 1 ELSE 0

\* Runs since the stopwatch was started, those to come for sure included.
Owed == runs + One(flag) + One(at = "work" \/ (at = "test" /\ tick))

\* Counts of the period under way; "timer0" starts it when it is set forward.
Progress == IF example # "timer0" THEN tmr
            ELSE IF tmr > Reload THEN tmr - Reload ELSE 0

\* Until the first run the stopwatch stands at its bound.
NotStarted == ~Enabled => elapsed = MaxElapsed

\* The run that started the stopwatch saw the pin differ; each one since took a tick.
Counting == isDebouncing => example = "debouncing" /\ runs + ticks = DebounceTicks

OnTime == \/ elapsed = MaxElapsed
          \/ Owed = 0
          \/ elapsed > (Owed - 1) * Period + Progress

Sound == TypeOK /\ Counting
IInv == Sound /\ NotStarted /\ OnTime

-----------------------------------------------------------------------------
(* Arithmetic: the solver multiplies no two variables on its own.          *)

\* A product of counts is a count.
LEMMA PositiveProduct ==
  ASSUME NEW a \in Nat \ {0}, NEW b \in Nat \ {0}
  PROVE  a * b \in Nat \ {0}
<1>1. a * b \in Nat
  OBVIOUS
<1>2. (a - 1) * (b - 1) \in Nat /\ (a - 1) * (b - 1) = a * b - a - b + 1
  OBVIOUS
<1> QED
  BY <1>1, <1>2

\* More times as much, or the same number of times more, is at least as much.
LEMMA ProductGrows ==
  ASSUME NEW a \in Int, NEW b \in Int, a <= b, NEW p \in Nat
  PROVE  /\ a * p \in Int /\ b * p \in Int /\ a * p <= b * p
         /\ p * a <= p * b
<1>1. (b - a) * p \in Nat /\ (b - a) * p = b * p - a * p
  OBVIOUS
<1>2. a * p = p * a /\ b * p = p * b /\ a * p \in Int /\ b * p \in Int
  OBVIOUS
<1> QED
  BY <1>1, <1>2

\* Runs that are no more are no more periods.
LEMMA NoMorePeriods ==
  ASSUME NEW a \in Nat, NEW b \in Nat, NEW p \in Nat
  PROVE  /\ (a - 1) * p \in Int /\ (b - 1) * p \in Int /\ b * p \in Int
         /\ b * p = (b - 1) * p + p
         /\ a <= b => (a - 1) * p <= (b - 1) * p
         /\ a <= b + 1 => (a - 1) * p <= b * p
<1>1. /\ (a - 1) * p \in Int /\ (b - 1) * p \in Int /\ b * p \in Int
      /\ b * p = (b - 1) * p + p
  OBVIOUS
<1>2. a <= b => (a - 1) * p <= (b - 1) * p
  BY ProductGrows
<1>3. a <= b + 1 => (a - 1) * p <= b * p
  BY ProductGrows
<1> QED
  BY <1>1, <1>2, <1>3

\* Beyond a sum is beyond a smaller one.
LEMMA BeyondSum ==
  ASSUME NEW x \in Int, NEW g \in Nat, NEW h \in Nat, NEW e \in Int, h <= g, e > x + g
  PROVE  e > x + h
OBVIOUS

\* One period more.
LEMMA OneMore ==
  ASSUME NEW a \in Int, NEW p \in Nat
  PROVE  a * p \in Int /\ (a + 1) * p = a * p + p
OBVIOUS

\* A flag, a period later the next: the timer is set forward by what is missing.
LEMMA PeriodFacts ==
  ASSUME example \in Examples
  PROVE  /\ Overflow \in Nat \ {0} /\ Period \in Nat \ {0}
         /\ Period = Overflow - (IF example = "timer0" THEN Reload ELSE 0)
         /\ example = "timer0" => Overflow = Top
         /\ example = "free" => Overflow = Top
         /\ DebounceTicks * Period <= MaxElapsed
<1>1. (PR2 + 1) * Postscaler \in Nat \ {0}
  <2>1. PR2 + 1 \in Nat \ {0} /\ Postscaler \in Nat \ {0}
    BY CountAssumption
  <2> QED
    BY <2>1, PositiveProduct
<1>2. /\ Overflow \in Nat \ {0} /\ Period \in Nat \ {0} /\ Period <= Overflow
      /\ Period = Overflow - (IF example = "timer0" THEN Reload ELSE 0)
      /\ example = "timer0" => Overflow = Top
      /\ example = "free" => Overflow = Top
  BY <1>1, CountAssumption DEF Overflow, Period, OnTimer2
<1>3. DebounceTicks * Overflow <= MaxElapsed
  BY StopwatchAssumption DEF Overflow
<1>4. DebounceTicks * Period <= DebounceTicks * Overflow
  BY <1>2, CountAssumption, ProductGrows
<1>5. DebounceTicks * Period \in Int /\ DebounceTicks * Overflow \in Int /\ MaxElapsed \in Nat
  BY <1>2, CountAssumption, StopwatchAssumption, ProductGrows
<1> QED
  BY <1>2, <1>3, <1>4, <1>5

\* The bound of the stopwatch is beyond every run it counts.
LEMMA BoundIsFar ==
  ASSUME example \in Examples, NEW r \in 1..DebounceTicks
  PROVE  MaxElapsed > (r - 1) * Period
<1>1. Period \in Nat \ {0} /\ DebounceTicks * Period <= MaxElapsed
  BY PeriodFacts
<1>2. r * Period <= DebounceTicks * Period
  BY <1>1, CountAssumption, ProductGrows
<1>3. (r - 1) * Period \in Int /\ r * Period = (r - 1) * Period + Period
  BY <1>1, OneMore, r = (r - 1) + 1
<1>4. DebounceTicks * Period \in Int /\ MaxElapsed \in Nat
  BY <1>1, CountAssumption, StopwatchAssumption, ProductGrows
<1> QED
  BY <1>1, <1>2, <1>3, <1>4

-----------------------------------------------------------------------------
(* The variables keep their types, and the counts of a debouncing add up.  *)

\* main starts with no debouncing under way.
LEMMA InitSound == Init => Sound
<1> SUFFICES ASSUME Init PROVE Sound
  OBVIOUS
<1> USE DEF Init, Bit
<1>1. example \in Examples /\ Overflow \in Nat \ {0}
  BY PeriodFacts
<1>2. DebounceTicks \in 0..DebounceTicks /\ MaxElapsed \in 0..MaxElapsed
  BY CountAssumption, StopwatchAssumption
<1>3. flag \in BOOLEAN /\ tick \in BOOLEAN /\ isDebouncing \in BOOLEAN /\ ~isDebouncing
  OBVIOUS
<1>4. /\ tmr \in 0..(Overflow - 1) /\ runs \in 0..DebounceTicks /\ elapsed \in 0..MaxElapsed
      /\ ticks \in {0}
  BY <1>2
<1>5. at = "config" /\ raw \in 0..1 /\ debounced \in 0..1 /\ out \in 0..1
  OBVIOUS
<1> QED
  BY <1>1, <1>3, <1>4, <1>5, Zenon DEF Sound, TypeOK, Counting

\* What no step does not change: which program it is, and so its timer.
LEMMA SameProgram ==
  ASSUME [Next]_vars
  PROVE  /\ example' = example /\ Overflow' = Overflow /\ Period' = Period
         /\ Progress' = IF example # "timer0" THEN tmr'
                        ELSE IF tmr' > Reload THEN tmr' - Reload ELSE 0
<1>1. example' = example
  BY DEF Next, Main, Setup, Loop, vars, Count, MovePin, Interrupt, ConfigTimer0,
         ConfigTimer2, ConfigFree, InitTimer0, InitTimer2, InitFree, Interruptions, Test, Toggle, Debounce,
         Output, Clear
<1> QED
  BY <1>1 DEF Overflow, Period, OnTimer2, Progress

\* The count of ticks goes down by one and does not wrap while there are any.
LEMMA TicksGoDown ==
  ASSUME NEW t \in 1..DebounceTicks
  PROVE  (t + 255) % 256 = t - 1
<1>1. t \in 1..255
  BY CountAssumption
<1> QED
  BY <1>1

\* Every step keeps the types, and every run that counts a tick down is counted.
LEMMA NextSound == Sound /\ [Next]_vars => Sound'
<1> SUFFICES ASSUME Sound, [Next]_vars PROVE Sound'
  OBVIOUS
<1> USE DEF Sound, TypeOK, Counting, Bit
<1>1. example' = example /\ Overflow' = Overflow
  BY SameProgram
<1>2. Overflow \in Nat \ {0}
  BY PeriodFacts
<1>3. DebounceTicks \in 1..255 /\ MaxElapsed \in Nat
  BY CountAssumption, StopwatchAssumption
<1>4. CASE Count
  BY <1>1, <1>2, <1>3, <1>4 DEF Count, debounce
<1>5. CASE MovePin
  BY <1>1, <1>5 DEF MovePin, debounce, stopwatch
<1>6. CASE Interrupt
  <2>1. example = "timer0" => Reload \in 0..(Overflow - 1)
    BY PeriodFacts, CountAssumption
  <2> QED
    BY <1>1, <1>2, <1>6, <2>1 DEF Interrupt, debounce, stopwatch
<1>7. CASE Setup
  <2> USE DEF debounce, stopwatch
  <2>1. CASE ConfigTimer0
    BY <1>1, <1>2, <2>1 DEF ConfigTimer0
  <2>2. CASE ConfigTimer2
    BY <1>1, <2>2 DEF ConfigTimer2
  <2>3. CASE ConfigFree
    <3>1. flag' \in BOOLEAN
      BY <2>3, Zenon DEF ConfigFree
    <3>3. out' \in Bit /\ at' = "init"
      BY <2>3 DEF ConfigFree
    <3>2. UNCHANGED <<tmr, tick, raw, isDebouncing, ticks, debounced, runs, elapsed>>
      BY <2>3 DEF ConfigFree
    <3> QED
      BY <1>1, <3>1, <3>2, <3>3
  <2>4. CASE InitTimer0
    <3>1. Reload \in 0..(Overflow - 1)
      BY <2>4, PeriodFacts, CountAssumption DEF InitTimer0
    <3> QED
      BY <1>1, <2>4, <3>1 DEF InitTimer0
  <2>5. CASE InitTimer2
    <3>1. flag' \in BOOLEAN
      BY <2>5, Zenon DEF InitTimer2
    <3>3. tmr' \in 0..(Overflow - 1) /\ at' = "interruptions"
      BY <1>2, <2>5 DEF InitTimer2
    <3>2. UNCHANGED <<out, tick, raw, isDebouncing, ticks, debounced, runs, elapsed>>
      BY <2>5 DEF InitTimer2
    <3> QED
      BY <1>1, <3>1, <3>2, <3>3
  <2>6. CASE InitFree
    <3>1. First \in 0..(Overflow - 1)
      BY <2>6, PeriodFacts, CountAssumption DEF InitFree
    <3> QED
      BY <1>1, <2>6, <3>1 DEF InitFree
  <2>7. CASE Interruptions
    BY <1>1, <2>7 DEF Interruptions
  <2> QED
    BY <1>7, <2>1, <2>2, <2>3, <2>4, <2>5, <2>6, <2>7 DEF Setup
<1>8. CASE Loop
  <2>1. CASE Test
    BY <1>1, <2>1 DEF Test, debounce, stopwatch
  <2>2. CASE Toggle
    BY <1>1, <1>3, <2>2 DEF Toggle, debounce, Restarted, NextRun
  <2>3. CASE Debounce
    <3>1. CASE isDebouncing
      <4>1. TicksLeft = ticks - 1
        BY <3>1, TicksGoDown DEF TicksLeft
      <4>2. runs' \in 0..DebounceTicks /\ runs' + (ticks - 1) = DebounceTicks
        BY <1>3, <2>3, <3>1 DEF Debounce, NextRun
      <4>3. /\ ticks' = ticks - 1 /\ isDebouncing' = (ticks - 1 # 0)
            /\ debounced' \in Bit /\ example = "debouncing"
        BY <2>3, <3>1, <4>1 DEF Debounce
      <4>7. isDebouncing' <=> ticks - 1 # 0
        BY <4>3, Zenon
      <4>5. /\ ticks' \in IF isDebouncing' THEN 1..DebounceTicks ELSE {0}
            /\ isDebouncing' => example' = "debouncing" /\ runs' + ticks' = DebounceTicks
        <5>1. ticks \in 1..DebounceTicks /\ DebounceTicks \in Nat
          BY <1>3, <3>1
        <5>2. ticks' = ticks - 1 /\ example' = "debouncing"
          BY <1>1, <4>3
        <5> HIDE DEF Sound, TypeOK, Counting
        <5>3. ticks - 1 # 0 => ticks' \in 1..DebounceTicks
          BY <5>1, <5>2
        <5>4. ticks - 1 = 0 => ticks' \in {0}
          BY <5>2
        <5>5. runs' + ticks' = DebounceTicks
          BY <4>2, <5>2
        <5> QED
          BY <4>7, <5>2, <5>3, <5>4, <5>5
      <4>6. isDebouncing' \in BOOLEAN
        BY <4>3, Zenon
      <4>4. /\ at' = "output" /\ UNCHANGED <<tmr, flag, tick, raw, out>>
            /\ elapsed' = elapsed
        BY <2>3, <3>1 DEF Debounce, NextRun
      <4> QED
        BY <1>1, <4>2, <4>3, <4>4, <4>5, <4>6
    <3>2. CASE ~isDebouncing
      <4>1. /\ isDebouncing' = (raw # debounced) /\ example = "debouncing"
            /\ ticks' = IF raw # debounced THEN DebounceTicks ELSE ticks
            /\ runs' = 0 /\ elapsed' = 0 /\ at' = "output"
            /\ UNCHANGED <<tmr, flag, tick, raw, out, debounced>>
        BY <2>3, <3>2 DEF Debounce, Restarted
      <4>2. isDebouncing' \in BOOLEAN
        BY <4>1, Zenon
      <4>5. isDebouncing' <=> raw # debounced
        BY <4>1, Zenon
      <4>3. /\ ticks' \in IF isDebouncing' THEN 1..DebounceTicks ELSE {0}
            /\ isDebouncing' => example' = "debouncing" /\ runs' + ticks' = DebounceTicks
        BY <1>1, <1>3, <3>2, <4>1, <4>5
      <4>4. runs' \in 0..DebounceTicks /\ elapsed' \in 0..MaxElapsed
        BY <1>3, <4>1
      <4> QED
        BY <1>1, <4>1, <4>2, <4>3, <4>4
    <3> QED
      BY <3>1, <3>2
  <2>4. CASE Output
    BY <1>1, <2>4 DEF Output, debounce, stopwatch
  <2>5. CASE Clear
    BY <1>1, <2>5 DEF Clear, debounce, stopwatch
  <2> QED
    BY <1>8, <2>1, <2>2, <2>3, <2>4, <2>5 DEF Loop
<1>9. CASE UNCHANGED vars
  BY <1>1, <1>9 DEF vars, debounce, stopwatch
<1> QED
  BY <1>4, <1>5, <1>6, <1>7, <1>8, <1>9 DEF Next, Main

\* The variables keep their types in every behaviour, for every period of the timer
\* and every number of ticks: the count of debounce_input_XXX never wraps.
THEOREM TickTypes == Spec => []TypeOK
<1>1. Init => Sound
  BY InitSound
<1>2. Sound /\ [Next]_vars => Sound'
  BY NextSound
<1>3. Sound => TypeOK
  BY DEF Sound
<1> QED
  BY <1>1, <1>2, <1>3, PTL DEF Spec

-----------------------------------------------------------------------------
(* What is owed and how far the timer is.                                  *)

\* The quantities of OnTime are counts.
LEMMA OwedCounts ==
  TypeOK => /\ Owed \in Nat /\ runs <= Owed /\ Progress \in Nat
            /\ Period \in Nat \ {0} /\ elapsed \in 0..MaxElapsed /\ MaxElapsed \in Nat
<1> SUFFICES ASSUME TypeOK
             PROVE  /\ Owed \in Nat /\ runs <= Owed /\ Progress \in Nat
                    /\ Period \in Nat \ {0} /\ elapsed \in 0..MaxElapsed
                    /\ MaxElapsed \in Nat
  OBVIOUS
<1>1. \A p \in BOOLEAN : One(p) \in 0..1
  BY DEF One
<1>2. One(flag) \in 0..1 /\ One(at = "work" \/ (at = "test" /\ tick)) \in 0..1
  BY <1>1, Zenon DEF TypeOK
<1>3. runs \in Nat /\ elapsed \in 0..MaxElapsed /\ MaxElapsed \in Nat
  BY CountAssumption, StopwatchAssumption DEF TypeOK
<1>4. Overflow \in Nat \ {0} /\ Period \in Nat \ {0}
  BY PeriodFacts DEF TypeOK
<1>5. Progress \in Nat
  BY <1>4, CountAssumption DEF TypeOK, Progress
<1> QED
  BY <1>2, <1>3, <1>4, <1>5 DEF Owed

\* ... before and after a step.
LEMMA OwedCountsNext ==
  TypeOK' => Owed' \in Nat /\ Progress' \in Nat /\ elapsed' \in 0..MaxElapsed
<1> DEFINE Counts == Owed \in Nat /\ Progress \in Nat /\ elapsed \in 0..MaxElapsed
<1>1. TypeOK => Counts
  BY OwedCounts
<1>2. TypeOK' => Counts'
  <2> HIDE DEF Counts
  <2> QED
    BY <1>1, PTL
<1> QED
  BY <1>2

\* Owing no more than before, and no nearer to the next flag, at the same time.
LEMMA OwesNoMore ==
  ASSUME TypeOK, TypeOK', OnTime, UNCHANGED elapsed, Period' = Period,
         Owed' <= Owed, Progress' <= Progress
  PROVE  OnTime'
<1>1. /\ Owed \in Nat /\ Progress \in Nat /\ Period \in Nat /\ elapsed \in Nat
      /\ Owed' \in Nat /\ Progress' \in Nat
  BY OwedCounts, OwedCountsNext
<1>2. /\ (Owed' - 1) * Period <= (Owed - 1) * Period
      /\ (Owed' - 1) * Period \in Int /\ (Owed - 1) * Period \in Int
  BY <1>1, NoMorePeriods
<1>4. CASE elapsed = MaxElapsed \/ Owed = 0
  <2>1. elapsed' = MaxElapsed \/ Owed' = 0
    BY <1>1, <1>4
  <2> QED
    BY <2>1 DEF OnTime
<1>5. CASE elapsed > (Owed - 1) * Period + Progress
  <2> DEFINE before == (Owed - 1) * Period
             after == (Owed' - 1) * Period
  <2>1. after \in Int /\ before \in Int /\ after <= before /\ elapsed > before + Progress
    BY <1>2, <1>5
  <2> HIDE DEF before, after
  <2>2. elapsed > after + Progress
    BY <1>1, <2>1
  <2>4. elapsed > after + Progress'
    <3>1. Progress' \in Nat /\ Progress \in Nat /\ Progress' <= Progress /\ elapsed \in Int
      BY <1>1
    <3> QED
      BY <2>1, <2>2, <3>1, BeyondSum
  <2> USE DEF after
  <2>3. elapsed' > (Owed' - 1) * Period' + Progress'
    BY <2>4
  <2> QED
    BY <2>3 DEF OnTime
<1> QED
  BY <1>4, <1>5 DEF OnTime

\* A count of the timer is one on the stopwatch, and a flag comes only after a
\* whole period of them.
LEMMA CountOnTime ==
  ASSUME TypeOK, TypeOK', OnTime, Count, Period' = Period
  PROVE  OnTime'
<1>1. /\ Owed \in Nat /\ Progress \in Nat /\ Period \in Nat \ {0}
      /\ elapsed \in Nat /\ MaxElapsed \in Nat /\ elapsed' \in Nat
      /\ Owed' \in Nat /\ Progress' \in Nat
  BY OwedCounts, OwedCountsNext
<1>2. example' = example /\ at' = at /\ tick' = tick /\ runs' = runs
  BY DEF Count
<1>3. /\ Overflow \in Nat \ {0}
      /\ Period = Overflow - (IF example = "timer0" THEN Reload ELSE 0)
      /\ example = "timer0" => Overflow = Top
  BY PeriodFacts DEF TypeOK
<1>4. CASE elapsed = MaxElapsed
  <2>1. elapsed' = MaxElapsed
    BY <1>1, <1>4 DEF Count
  <2> QED
    BY <2>1 DEF OnTime
<1>5. CASE elapsed # MaxElapsed
  <2>1. elapsed' = elapsed + 1
    BY <1>1, <1>5 DEF Count, TypeOK
  <2>2. Owed = 0 \/ elapsed > (Owed - 1) * Period + Progress
    BY <1>5 DEF OnTime
  <2>3. (Owed - 1) * Period \in Int /\ Owed * Period = (Owed - 1) * Period + Period
    BY <1>1, OneMore, Owed = (Owed - 1) + 1
  <2>4. CASE tmr + 1 = Overflow
    <3>1. Progress' = 0
      BY <1>2, <2>4, CountAssumption DEF Count, Progress
    <3>2. Progress = Period - 1
      BY <1>3, <2>4, CountAssumption DEF Progress, TypeOK
    <3>3. Owed' <= Owed + 1
      <4>1. Owed' = runs + One(flag') + One(at = "work" \/ (at = "test" /\ tick))
        BY <1>2 DEF Owed
      <4>2. One(flag') \in 0..1 /\ One(flag) \in 0..1
        BY DEF One
      <4>3. One(at = "work" \/ (at = "test" /\ tick)) \in 0..1 /\ runs \in Nat
        BY CountAssumption DEF One, TypeOK
      <4> QED
        BY <4>1, <4>2, <4>3 DEF Owed
    <3>4. (Owed' - 1) * Period <= Owed * Period /\ (Owed' - 1) * Period \in Int
      BY <1>1, <3>3, NoMorePeriods
    <3>6. CASE Owed = 0
      <4>1. Owed * Period = 0
        BY <1>1, <3>6
      <4>3. (Owed' - 1) * Period <= 0
        BY <3>4, <4>1
      <4> DEFINE after == (Owed' - 1) * Period
      <4>4. after \in Int /\ after <= 0
        BY <3>4, <4>3
      <4> HIDE DEF after
      <4>5. elapsed' > after + Progress'
        BY <1>1, <2>1, <3>1, <4>4
      <4>2. elapsed' > (Owed' - 1) * Period' + Progress'
        BY <4>5 DEF after
      <4> QED
        BY <4>2 DEF OnTime
    <3>7. CASE elapsed > (Owed - 1) * Period + Progress
      <4> DEFINE before == (Owed - 1) * Period
                 reached == Owed * Period
                 after == (Owed' - 1) * Period
      <4>2. /\ before \in Int /\ reached = before + Period /\ after \in Int /\ after <= reached
            /\ elapsed > before + Progress
        BY <2>3, <3>4, <3>7
      <4> HIDE DEF before, reached, after
      <4>3. elapsed' > after + Progress'
        BY <1>1, <2>1, <3>1, <3>2, <4>2
      <4>1. elapsed' > (Owed' - 1) * Period' + Progress'
        BY <4>3 DEF after
      <4> QED
        BY <4>1 DEF OnTime
    <3> QED
      BY <2>2, <3>6, <3>7
  <2>5. CASE tmr + 1 # Overflow
    <3>1. tmr' = tmr + 1
      BY <2>5 DEF Count
    <3>2. flag' = flag
      <4>1. flag' = (flag \/ tmr + 1 = Overflow) /\ flag \in BOOLEAN
        BY DEF Count, TypeOK
      <4> QED
        BY <2>5, <4>1, Zenon
    <3>3. Owed' = Owed
      BY <1>2, <3>2 DEF Owed
    <3>4. Progress' <= Progress + 1
      BY <1>2, <1>3, <3>1, CountAssumption DEF Progress, TypeOK
    <3>5. CASE Owed = 0
      BY <3>3, <3>5 DEF OnTime
    <3>6. CASE elapsed > (Owed - 1) * Period + Progress
      <4> DEFINE before == (Owed - 1) * Period
      <4>2. before \in Int /\ elapsed > before + Progress
        BY <2>3, <3>6
      <4> HIDE DEF before
      <4>3. elapsed + 1 > before + (Progress + 1)
        BY <1>1, <4>2
      <4>4. elapsed + 1 > before + Progress'
        BY <1>1, <3>4, <4>2, <4>3, Progress + 1 \in Nat, elapsed + 1 \in Int, BeyondSum
      <4>1. elapsed' > (Owed' - 1) * Period' + Progress'
        BY <2>1, <3>3, <4>4 DEF before
      <4> QED
        BY <4>1 DEF OnTime
    <3> QED
      BY <2>2, <3>5, <3>6
  <2> QED
    BY <2>4, <2>5
<1> QED
  BY <1>4, <1>5

\* The interrupt turns what a flag owes into what a tick owes, if nothing is owed
\* by a tick yet.
LEMMA InterruptOnTime ==
  ASSUME TypeOK, TypeOK', OnTime, Interrupt, Period' = Period
  PROVE  OnTime'
<1>1. flag /\ ~flag' /\ UNCHANGED <<example, runs, elapsed>>
  BY DEF Interrupt, Requested, stopwatch
<1>2. Owed' <= Owed
  <2>1. runs \in Nat
    BY CountAssumption DEF TypeOK
  <2> QED
    BY <1>1, <2>1 DEF Owed, One
<1>3. Progress' <= Progress
  <2>1. Progress \in Nat
    BY OwedCounts
  <2> QED
    BY <1>1, <2>1, CountAssumption DEF Interrupt, Progress
<1> QED
  BY <1>1, <1>2, <1>3, OwesNoMore

\* No interrupt is requested when a run starts the stopwatch, so that nothing is
\* owed then; a run that does not pays for its tick.
LEMMA RunOnTime ==
  ASSUME TypeOK, TypeOK', OnTime, ~Requested, Period' = Period,
         at = "work", at' \in {"clear", "output"}, UNCHANGED <<example, tmr, flag, tick>>,
         Restarted \/ NextRun
  PROVE  OnTime'
<1>1. One(at = "work" \/ (at = "test" /\ tick)) = 1
  BY DEF One
<1>2. One(at = "work" \/ (at = "test" /\ tick))' = 0
  BY DEF One
<1>3. CASE Restarted
  <2>1. ~flag'
    BY DEF Requested, Enabled
  <2>2. Owed' = 0
    BY <1>2, <1>3, <2>1 DEF Restarted, Owed, One
  <2> QED
    BY <2>2 DEF OnTime
<1>4. CASE NextRun
  <2>1. runs \in Nat /\ One(flag) \in 0..1
    BY CountAssumption DEF TypeOK, One
  <2>2. Owed' <= Owed
    BY <1>1, <1>2, <1>4, <2>1 DEF NextRun, Owed
  <2>3. Progress' = Progress /\ Progress \in Nat
    BY OwedCounts DEF Progress
  <2> QED
    BY <1>4, <2>2, <2>3, OwesNoMore DEF NextRun
<1> QED
  BY <1>3, <1>4

-----------------------------------------------------------------------------
(* The invariant, and what follows from it.                                *)

\* Nothing has been counted when main starts.
LEMMA InitInvariant == Init => IInv
BY InitSound DEF Init, IInv, NotStarted, OnTime

\* Every step of timer, interrupt, setup and loop keeps the invariant.
LEMMA NextInvariant == IInv /\ [Next]_vars => IInv'
<1> SUFFICES ASSUME IInv, [Next]_vars PROVE IInv'
  OBVIOUS
<1>1. Sound'
  BY NextSound DEF IInv
<1>2. TypeOK /\ TypeOK' /\ NotStarted /\ OnTime
  BY <1>1 DEF IInv, Sound
<1>3. Period' = Period
  BY SameProgram
<1>4. NotStarted'
  <2> USE DEF NotStarted, Enabled
  <2>1. CASE Count
    BY <1>2, <2>1 DEF Count, TypeOK
  <2>2. CASE MovePin \/ Interrupt \/ UNCHANGED vars
    BY <1>2, <2>2 DEF MovePin, Interrupt, vars, stopwatch
  <2>3. CASE Setup
    BY <1>2, <2>3 DEF Setup, ConfigTimer0, ConfigTimer2, ConfigFree, InitTimer0, InitTimer2,
                      InitFree, Interruptions, stopwatch
  <2>4. CASE Loop
    BY <1>2, <2>4 DEF Loop, Test, Toggle, Debounce, Output, Clear
  <2> QED
    BY <2>1, <2>2, <2>3, <2>4 DEF Next, Main
<1>5. OnTime'
  <2>1. CASE Count
    BY <1>2, <1>3, <2>1, CountOnTime
  <2>2. CASE MovePin
    BY <1>2, <2>2 DEF MovePin, stopwatch, OnTime, Owed, Progress, Period, Overflow, OnTimer2
  <2>3. CASE Interrupt
    BY <1>2, <1>3, <2>3, InterruptOnTime
  <2>4. CASE Setup
    <3>1. elapsed = MaxElapsed /\ elapsed' = elapsed
      BY <1>2, <2>4 DEF Setup, ConfigTimer0, ConfigTimer2, ConfigFree, InitTimer0, InitTimer2,
                        InitFree, Interruptions, stopwatch, NotStarted, Enabled
    <3> QED
      BY <3>1 DEF OnTime
  <2>5. CASE ~Requested /\ Loop
    <3>1. CASE Test
      <4>1. (at = "work" \/ (at = "test" /\ tick)) /\ (at = "work" \/ (at = "test" /\ tick))'
        BY <3>1 DEF Test
      <4>2. Owed' = Owed
        BY <3>1, <4>1 DEF Test, Owed, One, stopwatch
      <4>3. Progress' = Progress /\ elapsed' = elapsed
        BY <3>1 DEF Test, Progress, stopwatch
      <4>4. Owed \in Nat /\ Progress \in Nat
        BY <1>2, OwedCounts
      <4> QED
        BY <1>2, <1>3, <4>2, <4>3, <4>4, OwesNoMore
    <3>2. CASE Toggle
      BY <1>2, <1>3, <2>5, <3>2, RunOnTime DEF Toggle
    <3>3. CASE Debounce
      BY <1>2, <1>3, <2>5, <3>3, RunOnTime DEF Debounce
    <3>4. CASE Output \/ Clear
      <4>1. ~(at = "work" \/ (at = "test" /\ tick)) /\ ~(at = "work" \/ (at = "test" /\ tick))'
        BY <3>4 DEF Output, Clear
      <4>2. Owed' = Owed
        BY <3>4, <4>1 DEF Output, Clear, Owed, One, stopwatch
      <4>3. Progress' = Progress /\ elapsed' = elapsed
        BY <3>4 DEF Output, Clear, Progress, stopwatch
      <4>4. Owed \in Nat /\ Progress \in Nat
        BY <1>2, OwedCounts
      <4> QED
        BY <1>2, <1>3, <4>2, <4>3, <4>4, OwesNoMore
    <3> QED
      BY <2>5, <3>1, <3>2, <3>3, <3>4 DEF Loop
  <2>6. CASE UNCHANGED vars
    BY <1>2, <2>6 DEF vars, stopwatch, OnTime, Owed, Progress, Period, Overflow, OnTimer2
  <2> QED
    BY <2>1, <2>2, <2>3, <2>4, <2>5, <2>6 DEF Next, Main
<1> QED
  BY <1>1, <1>4, <1>5 DEF IInv

\* What is owed includes the runs that were.
LEMMA InvariantRunsOnTime == IInv => RunsOnTime
<1> SUFFICES ASSUME IInv, runs >= 1 PROVE elapsed > (runs - 1) * Period
  BY DEF RunsOnTime
<1>1. TypeOK /\ OnTime
  BY DEF IInv, Sound
<1>2. /\ Owed \in Nat /\ runs <= Owed /\ Progress \in Nat
      /\ Period \in Nat \ {0} /\ elapsed \in Nat
  BY <1>1, OwedCounts
<1>3. runs \in 1..DebounceTicks /\ example \in Examples
  BY <1>1, CountAssumption DEF TypeOK
<1>4. CASE elapsed = MaxElapsed
  BY <1>3, <1>4, BoundIsFar
<1>5. CASE elapsed > (Owed - 1) * Period + Progress
  <2>1. (runs - 1) * Period <= (Owed - 1) * Period
    BY <1>2, <1>3, ProductGrows
  <2>2. (runs - 1) * Period \in Int /\ (Owed - 1) * Period \in Int
    BY <1>2, <1>3, OneMore
  <2> QED
    BY <1>2, <1>5, <2>1, <2>2
<1> QED
  BY <1>1, <1>2, <1>3, <1>4, <1>5 DEF OnTime

\* The runs of the loop's work are whole periods of the timer apart, with the
\* interrupt and the loop sharing tick as they like, for every period.
THEOREM LoopRunsOnTime == Spec => []RunsOnTime
<1>1. Init => IInv
  BY InitInvariant
<1>2. IInv /\ [Next]_vars => IInv'
  BY NextInvariant
<1>3. IInv => RunsOnTime
  BY InvariantRunsOnTime
<1> QED
  BY <1>1, <1>2, <1>3, PTL DEF Spec

\* debounce_input_XXX changes the debounced level only in the run that is
\* DebounceTicks after the one that saw the pin differ, and to the level of the pin.
THEOREM DebouncedForTime == Spec => ChangesDebounced
<1> DEFINE Changed == debounced' # debounced =>
                        /\ runs' = DebounceTicks
                        /\ elapsed' > (DebounceTicks - 1) * Period
                        /\ debounced' = raw
<1>5. IInv' => RunsOnTime'
  BY InvariantRunsOnTime, PTL
<1>1. IInv /\ IInv' /\ [Next]_vars => Changed
  <2> SUFFICES ASSUME IInv, IInv', [Next]_vars, debounced' # debounced PROVE
                 /\ runs' = DebounceTicks
                 /\ elapsed' > (DebounceTicks - 1) * Period
                 /\ debounced' = raw
    OBVIOUS
  <2>1. Debounce
    BY DEF Next, Main, Setup, Loop, vars, Count, MovePin, Interrupt, ConfigTimer0, ConfigTimer2,
           ConfigFree, InitTimer0, InitTimer2, InitFree, Interruptions, Test, Toggle,
           Output, Clear, debounce
  <2>2. isDebouncing /\ TicksLeft = 0 /\ debounced' = raw /\ runs' = runs + 1
    BY <2>1 DEF Debounce, NextRun
  <2>3. ticks \in 1..DebounceTicks /\ runs + ticks = DebounceTicks /\ runs \in Nat
    BY <2>2, CountAssumption DEF IInv, Sound, TypeOK, Counting
  <2>4. ticks = 1
    BY <2>2, <2>3, TicksGoDown, CountAssumption DEF TicksLeft
  <2>5. runs' = DebounceTicks
    BY <2>2, <2>3, <2>4
  <2>6. elapsed' > (runs' - 1) * Period'
    <3>1. RunsOnTime'
      BY <1>5
    <3>2. runs' >= 1
      BY <2>5, CountAssumption
    <3> QED
      BY <3>1, <3>2 DEF RunsOnTime
  <2> QED
    BY <2>2, <2>5, <2>6, SameProgram
<1>2. Init => IInv
  BY InitInvariant
<1>3. IInv /\ [Next]_vars => IInv'
  BY NextInvariant
<1> QED
  BY <1>1, <1>2, <1>3, PTL DEF Spec, ChangesDebounced
=============================================================================
