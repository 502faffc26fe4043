------------------------------ MODULE TickLoop ------------------------------
(***************************************************************************)
(* The timer examples of the firmware: a timer sets its flag, the          *)
(* interrupt turns the flag into a tick, and the main loop does its work   *)
(* once a tick.  "timer0" and "timer2" (pic12f683) and "free" (pic16f627A) *)
(* toggle an output; "debouncing" shows a debounced input.  The interrupt  *)
(* and the loop share tick without a lock; the work of the loop must be    *)
(* done once a period, or 100 runs of it are not 100 ms.                   *)
(*                                                                         *)
(* The unit of time is one count of the timer, after its prescaler.  The   *)
(* interrupt is one step: nothing interrupts it.                           *)
(***************************************************************************)
EXTENDS Integers

CONSTANTS
  Examples,       \* the programs: a subset of AllExamples
  Top,            \* timer 0 overflows after Top counts: 256
  Reload, First,  \* TMRO_INIT_VALUE of "timer0": 131; what "free" starts with: 200
  PR2, Postscaler,\* timer 2 sets its flag every (PR2 + 1) * Postscaler counts
  DebounceTicks,  \* 100
  MaxElapsed      \* bound of the stopwatch

AllExamples == {"timer0", "timer2", "debouncing", "free"}
ASSUME ExampleAssumption == Examples \subseteq AllExamples
ASSUME CountAssumption ==
  /\ Top \in Nat \ {0} /\ Reload \in 0..(Top - 1) /\ First \in 0..(Top - 1)
  /\ PR2 \in 0..255 /\ Postscaler \in 1..16
  /\ DebounceTicks \in 1..255

VARIABLES
  example,        \* which of the programs this is; never changes
  at,             \* place in main
  tmr,            \* counts since the timer was last 0 (timer 2: its postscaler included)
  flag,           \* T0IF, TMR2IF
  tick,
  raw,            \* level of the input pin
  isDebouncing, ticks, debounced,
  out,            \* level of the output pin
  runs, elapsed   \* history: a stopwatch, started by a run of the loop's work; runs
                  \* since then, and counts since then
debounce == <<isDebouncing, ticks, debounced>>
stopwatch == <<runs, elapsed>>
vars == <<example, at, tmr, flag, tick, raw, debounce, out, stopwatch>>

Bit == 0..1
OnTimer2 == example \in {"timer2", "debouncing"}

\* Counts until the timer sets its flag, from 0.
Overflow == IF OnTimer2 THEN (PR2 + 1) * Postscaler ELSE Top
\* Counts between two flags: "timer0" is set forward in every interrupt.
Period == IF example = "timer0" THEN Top - Reload ELSE Overflow
ASSUME StopwatchAssumption ==
  /\ MaxElapsed \in Nat
  /\ MaxElapsed >= DebounceTicks * Top
  /\ MaxElapsed >= DebounceTicks * ((PR2 + 1) * Postscaler)

Init ==
  /\ example \in Examples
  /\ at = "config"
  /\ tmr \in 0..(Overflow - 1) /\ flag \in BOOLEAN
  /\ tick = FALSE
  /\ raw \in Bit /\ out \in Bit
  /\ isDebouncing = FALSE /\ ticks = 0 /\ debounced = 0
  \* No run has started the stopwatch yet.
  /\ runs = DebounceTicks /\ elapsed = MaxElapsed

-----------------------------------------------------------------------------
(* The timer (external), and the hand on the input pin.                    *)

Count ==
  /\ tmr' = IF tmr + 1 = Overflow THEN 0 ELSE tmr + 1
  /\ flag' = (flag \/ tmr + 1 = Overflow)
  /\ elapsed' = IF elapsed < MaxElapsed THEN elapsed + 1 ELSE elapsed
  /\ UNCHANGED <<example, at, tick, raw, debounce, out, runs>>

MovePin ==
  /\ raw' = 1 - raw
  /\ UNCHANGED <<example, at, tmr, flag, tick, debounce, out, stopwatch>>

-----------------------------------------------------------------------------
(* general_isr                                                             *)

\* Interrupts are enabled when interruptions() has returned.
Enabled == at \notin {"config", "init", "interruptions"}
Requested == Enabled /\ flag

\* Variant: the flag is left set.
InterruptKeepsFlag ==
  /\ Requested
  /\ tick' = TRUE
  /\ tmr' = IF example = "timer0" THEN Reload ELSE tmr
  /\ UNCHANGED <<example, at, flag, raw, debounce, out, stopwatch>>
\* Only "timer0" sets its timer again.
Interrupt ==
  /\ Requested
  /\ flag' = FALSE
  /\ tick' = TRUE
  /\ tmr' = IF example = "timer0" THEN Reload ELSE tmr
  /\ UNCHANGED <<example, at, raw, debounce, out, stopwatch>>

-----------------------------------------------------------------------------
(* setup and interruptions.  The timer counts all the while.  "free" clears *)
(* its flag before it sets its timer, the others after: in "free" the first *)
(* tick may be there at once.                                               *)

ConfigTimer0 ==
  /\ at = "config" /\ example = "timer0"
  /\ at' = "init"
  /\ out' = 0 /\ tmr' = 0
  /\ UNCHANGED <<example, flag, tick, raw, debounce, stopwatch>>
ConfigTimer2 ==
  /\ at = "config" /\ OnTimer2
  /\ at' = "init"
  /\ out' = 0
  /\ UNCHANGED <<example, tmr, flag, tick, raw, debounce, stopwatch>>
ConfigFree ==
  /\ at = "config" /\ example = "free"
  /\ at' = "init"
  /\ out' = 0 /\ flag' = FALSE
  /\ UNCHANGED <<example, tmr, tick, raw, debounce, stopwatch>>

InitTimer0 ==
  /\ at = "init" /\ example = "timer0"
  /\ at' = "interruptions"
  /\ tmr' = Reload /\ flag' = FALSE
  /\ UNCHANGED <<example, tick, raw, debounce, out, stopwatch>>
InitTimer2 ==
  /\ at = "init" /\ OnTimer2
  /\ at' = "interruptions"
  /\ tmr' = 0 /\ flag' = FALSE
  /\ UNCHANGED <<example, tick, raw, debounce, out, stopwatch>>
InitFree ==
  /\ at = "init" /\ example = "free"
  /\ at' = "interruptions"
  /\ tmr' = First /\ tick' = FALSE
  /\ UNCHANGED <<example, flag, raw, debounce, out, stopwatch>>

Interruptions ==
  /\ at = "interruptions"
  /\ at' = "test"
  /\ UNCHANGED <<example, tmr, flag, tick, raw, debounce, out, stopwatch>>

-----------------------------------------------------------------------------
(* loop: test tick, work, clear tick.  A tick that comes during the work   *)
(* is lost.                                                                *)

Test ==
  /\ at = "test" /\ tick
  /\ at' = "work"
  /\ UNCHANGED <<example, tmr, flag, tick, raw, debounce, out, stopwatch>>

\* The run that is under way is the first of the stopwatch, or the next one.
Restarted == runs' = 0 /\ elapsed' = 0
NextRun == runs' = runs + 1 /\ UNCHANGED elapsed

Toggle ==
  /\ at = "work" /\ example # "debouncing"
  /\ at' = "clear"
  /\ out' = 1 - out
  /\ Restarted \/ (runs < DebounceTicks /\ NextRun)
  /\ UNCHANGED <<example, tmr, flag, tick, raw, debounce>>

\* --ticks of an unsigned char.
TicksLeft == (ticks + 255) % 256

\* Variant: the count does not end the debouncing.
DebounceOn ==
  /\ at = "work" /\ example = "debouncing"
  /\ at' = "output"
  /\ \/ /\ isDebouncing
        /\ ticks' = TicksLeft
        /\ debounced' = IF TicksLeft = 0 THEN raw ELSE debounced
        /\ UNCHANGED isDebouncing
        /\ NextRun
     \/ /\ ~isDebouncing
        /\ ticks' = IF raw # debounced THEN DebounceTicks ELSE ticks
        /\ isDebouncing' = (raw # debounced)
        /\ UNCHANGED debounced
        /\ Restarted
  /\ UNCHANGED <<example, tmr, flag, tick, raw, out>>
\* Variant: the count is not set anew, and starts where the last one ended.
DebounceStale ==
  /\ at = "work" /\ example = "debouncing"
  /\ at' = "output"
  /\ \/ /\ isDebouncing
        /\ ticks' = IF ticks = 0 THEN 0 ELSE ticks - 1
        /\ debounced' = IF ticks <= 1 THEN raw ELSE debounced
        /\ isDebouncing' = (ticks > 1)
        /\ NextRun
     \/ /\ ~isDebouncing
        /\ isDebouncing' = (raw # debounced)
        /\ UNCHANGED <<ticks, debounced>>
        /\ Restarted
  /\ UNCHANGED <<example, tmr, flag, tick, raw, out>>
\* debounce_input_XXX: the pin is read once in a run, when it starts to count
\* and when it ends.  Between those it is not looked at.
Debounce ==
  /\ at = "work" /\ example = "debouncing"
  /\ at' = "output"
  /\ \/ /\ isDebouncing
        /\ ticks' = TicksLeft
        /\ debounced' = IF TicksLeft = 0 THEN raw ELSE debounced
        /\ isDebouncing' = (TicksLeft # 0)
        /\ NextRun
     \/ /\ ~isDebouncing
        /\ ticks' = IF raw # debounced THEN DebounceTicks ELSE ticks
        /\ isDebouncing' = (raw # debounced)
        /\ UNCHANGED debounced
        /\ Restarted
  /\ UNCHANGED <<example, tmr, flag, tick, raw, out>>

Output ==
  /\ at = "output"
  /\ at' = "clear"
  /\ out' = debounced
  /\ UNCHANGED <<example, tmr, flag, tick, raw, debounce, stopwatch>>

\* Variant: the tick is not cleared.
ClearForgotten ==
  /\ at = "clear"
  /\ at' = "test"
  /\ UNCHANGED <<example, tmr, flag, tick, raw, debounce, out, stopwatch>>
Clear ==
  /\ at = "clear"
  /\ at' = "test"
  /\ tick' = FALSE
  /\ UNCHANGED <<example, tmr, flag, raw, debounce, out, stopwatch>>

Setup == \/ ConfigTimer0 \/ ConfigTimer2 \/ ConfigFree
         \/ InitTimer0 \/ InitTimer2 \/ InitFree \/ Interruptions
Loop == Test \/ Toggle \/ Debounce \/ Output \/ Clear

\* main runs while no interrupt is requested.
Main == ~Requested /\ (Setup \/ Loop)

Next == Count \/ MovePin \/ Interrupt \/ Main

\* A period is hundreds of instructions and the interrupt a few, so that main
\* is never starved by it.
Spec == /\ Init /\ [][Next]_vars
        /\ WF_vars(Count) /\ WF_vars(Interrupt) /\ SF_vars(Main)

-----------------------------------------------------------------------------
\* The variables keep their types; a count of ticks is under way exactly while
\* the input is debouncing, and never wraps.
TypeOK ==
  /\ example \in Examples
  /\ at \in {"config", "init", "interruptions", "test", "work", "output", "clear"}
  /\ tmr \in 0..(Overflow - 1)
  /\ flag \in BOOLEAN /\ tick \in BOOLEAN
  /\ raw \in Bit /\ debounced \in Bit /\ out \in Bit
  /\ isDebouncing \in BOOLEAN
  /\ ticks \in IF isDebouncing THEN 1..DebounceTicks ELSE {0}
  /\ runs \in 0..DebounceTicks /\ elapsed \in 0..MaxElapsed

\* One tick, one run: after the run that started the stopwatch the first may
\* follow at once (the timer was about to overflow), but the next ones are a
\* whole period apart, although the interrupt and the loop share tick and the
\* interrupt may come late or between any two steps of the loop.
RunsOnTime == runs >= 1 => elapsed > (runs - 1) * Period

\* debounce_input_XXX: the debounced level changes only in the run that is
\* DebounceTicks after the one that saw the pin differ, at least DebounceTicks
\* - 1 periods later (readme.md:6-7), and to the level the pin has then.
ChangesDebounced ==
  [][debounced' # debounced =>
       /\ runs' = DebounceTicks
       /\ elapsed' > (DebounceTicks - 1) * Period
       /\ debounced' = raw]_vars

\* A pin that comes to rest is shown at the output in the end; the examples that
\* toggle never stop.
OutputFollows ==
  IF example = "debouncing"
    THEN \A level \in Bit : <>[](raw = level) => <>[](out = level)
    ELSE \A level \in Bit : []<>(out = level)
=============================================================================
