----------------------- MODULE GeneratedProgramProofs -----------------------
(***************************************************************************)
(* The debouncing of the inputs of a generated program, for every program, *)
(* every number of inputs and every DebounceTicks.  The invariant relates  *)
(* the counter of an input to the history of its pin: while it runs, the   *)
(* pin was seen off the stored level in the very run that started it.      *)
(***************************************************************************)
EXTENDS GeneratedProgram, TLAPS

Bits == {0, 1}

\* One input: level v stored, counter t, and s what its pin was in the last runs.
Counted(v, t, s) ==
  /\ t \in 0 .. DebounceTicks
  /\ s \in Seq(Bits) /\ Len(s) <= DebounceTicks
  /\ t > 0 => /\ Len(s) >= DebounceTicks - t + 1
              /\ s[Len(s) - (DebounceTicks - t)] # v

\* While the program runs, the inputs hold bits and every counter is Counted.
InputInv ==
  phase = "running" =>
    /\ raw \in [Inputs -> Bits] /\ value \in [Inputs -> Bits]
    /\ DOMAIN ticks = Inputs /\ DOMAIN seen = Inputs
    /\ \A i \in Inputs : Counted(value[i], ticks[i], seen[i])

\* The history of a pin with one more run in it, and no more than DebounceTicks.
Longer(s, r) ==
  LET longer == Append(s, r) IN IF Len(longer) > DebounceTicks THEN Tail(longer) ELSE longer

\* The history has the new level last, and before it what it had, one place
\* further from the end.
LEMMA LongerSeq ==
  ASSUME NEW s \in Seq(Bits), Len(s) <= DebounceTicks, NEW r \in Bits
  PROVE  /\ Longer(s, r) \in Seq(Bits)
         /\ Len(Longer(s, r)) <= DebounceTicks
         /\ Len(Longer(s, r)) = IF Len(s) = DebounceTicks THEN DebounceTicks ELSE Len(s) + 1
         /\ Longer(s, r)[Len(Longer(s, r))] = r
         /\ \A k \in 0 .. DebounceTicks - 2 : k < Len(s) =>
              Longer(s, r)[Len(Longer(s, r)) - (k + 1)] = s[Len(s) - k]
<1>1. DebounceTicks \in Nat \ {0} BY DebounceAssumption
<1> DEFINE l == Append(s, r)
<1>2. /\ l \in Seq(Bits) /\ Len(l) = Len(s) + 1 /\ l[Len(l)] = r
      /\ \A k \in 1 .. Len(s) : l[k] = s[k]
  OBVIOUS
<1>3. CASE Len(l) > DebounceTicks
  <2>1. Longer(s, r) = Tail(l) BY <1>3 DEF Longer
  <2>2. Len(s) = DebounceTicks BY <1>1, <1>2, <1>3
  <2>3. Tail(l) \in Seq(Bits) /\ Len(Tail(l)) = Len(s)
        /\ \A k \in 1 .. Len(s) : Tail(l)[k] = l[k + 1]
    BY <1>2
  <2> QED BY <1>1, <1>2, <2>1, <2>2, <2>3
<1>4. CASE Len(l) <= DebounceTicks
  <2>1. Longer(s, r) = l BY <1>1, <1>2, <1>4 DEF Longer
  <2> QED BY <1>1, <1>2, <1>4, <2>1
<1> QED BY <1>1, <1>2, <1>3, <1>4


\* A history of nothing.
LEMMA NothingSeen == <<>> \in Seq(Bits) /\ Len(<<>>) = 0
OBVIOUS

\* One run for one input: the counter keeps to the history; a new level was
\* seen DebounceTicks runs before; and the flag says whether the level is new.
LEMMA DebounceOne ==
  ASSUME NEW i \in Inputs, NEW later \in Bits,
         raw[i] \in Bits, value[i] \in Bits, Counted(value[i], ticks[i], seen[i])
  PROVE  LET r == DebounceInput(i, later)
         IN /\ r.value \in Bits
            /\ Counted(r.value, r.ticks, Longer(seen[i], raw[i]))
            /\ r.value # value[i] /\ later = raw[i] =>
                 Len(seen[i]) = DebounceTicks /\ seen[i][1] = r.value
            /\ later = raw[i] => r.changed = (r.value # value[i])
<1> DEFINE r == DebounceInput(i, later)
           s == seen[i]
           l == Longer(seen[i], raw[i])
           D == DebounceTicks
<1>1. D \in Nat \ {0} BY DebounceAssumption
<1>2. /\ ticks[i] \in 0 .. D /\ s \in Seq(Bits) /\ Len(s) <= D /\ Len(s) \in Nat
      /\ ticks[i] > 0 => Len(s) >= D - ticks[i] + 1 /\ s[Len(s) - (D - ticks[i])] # value[i]
  BY DEF Counted
<1>3. /\ l \in Seq(Bits) /\ Len(l) <= D
      /\ Len(l) = IF Len(s) = D THEN D ELSE Len(s) + 1
      /\ l[Len(l)] = raw[i]
      /\ \A k \in 0 .. D - 2 : k < Len(s) => l[Len(l) - (k + 1)] = s[Len(s) - k]
  BY <1>2, LongerSeq
<1>4. CASE ticks[i] = 1
  <2>1. r = Reading(later, value[i] # raw[i], 0) BY <1>4 DEF DebounceInput
  <2>2. r.value = later /\ r.changed = (value[i] # raw[i]) /\ r.ticks = 0
    BY <2>1 DEF Reading
  <2>3. Len(s) = D /\ s[1] # value[i] BY <1>1, <1>2, <1>4
  <2>4. s[1] \in Bits BY <1>1, <1>2, <2>3
  <2>5. later # value[i] => s[1] = later BY <2>3, <2>4 DEF Bits
  <2>6. Counted(r.value, r.ticks, l) BY <1>1, <1>3, <2>2 DEF Counted
  <2>7. later = raw[i] => r.changed = (r.value # value[i]) BY <2>2, Zenon
  <2> QED BY <2>2, <2>3, <2>5, <2>6, <2>7
<1>5. CASE ticks[i] > 1
  <2>1. ticks[i] # 1 /\ ticks[i] # 0 BY <1>2, <1>5
  <2>2. r = Reading(value[i], FALSE, ticks[i] - 1) BY <1>5, <2>1 DEF DebounceInput
  <2>3. r.value = value[i] /\ r.changed = FALSE /\ r.ticks = ticks[i] - 1
    BY <2>2 DEF Reading
  <2>4. /\ D - ticks[i] \in 0 .. D - 2 /\ D - ticks[i] < Len(s)
        /\ D - (ticks[i] - 1) = (D - ticks[i]) + 1
    BY <1>1, <1>2, <1>5
  <2>5. l[Len(l) - ((D - ticks[i]) + 1)] = s[Len(s) - (D - ticks[i])] BY <1>3, <2>4
  <2>6. l[Len(l) - (D - (ticks[i] - 1))] # value[i] BY <1>2, <1>5, <2>4, <2>5
  <2>7. Len(l) >= D - (ticks[i] - 1) + 1 BY <1>1, <1>2, <1>3, <1>5
  <2>8. ticks[i] - 1 \in 0 .. D BY <1>1, <1>2, <1>5
  <2>9. Counted(value[i], ticks[i] - 1, l) BY <1>3, <2>6, <2>7, <2>8 DEF Counted
  <2> QED BY <2>3, <2>9
<1>6. CASE ticks[i] = 0 /\ raw[i] # value[i]
  <2>1. ~(ticks[i] = 1) /\ ~(ticks[i] > 1) BY <1>6
  <2>2. r = Reading(value[i], FALSE, D) BY <1>6, <2>1 DEF DebounceInput
  <2>3. r.value = value[i] /\ r.changed = FALSE /\ r.ticks = D BY <2>2 DEF Reading
  <2>4. l[Len(l) - (D - D)] # value[i] /\ Len(l) >= D - D + 1 BY <1>1, <1>2, <1>3, <1>6
  <2>5. Counted(r.value, r.ticks, l) BY <1>1, <1>3, <2>3, <2>4 DEF Counted
  <2> QED BY <2>3, <2>5
<1>7. CASE ticks[i] = 0 /\ raw[i] = value[i]
  <2>1. ~(ticks[i] = 1) /\ ~(ticks[i] > 1) BY <1>7
  <2>2. r = Reading(value[i], FALSE, 0) BY <1>7, <2>1 DEF DebounceInput
  <2>3. r.value = value[i] /\ r.changed = FALSE /\ r.ticks = 0 BY <2>2 DEF Reading
  <2>4. Counted(r.value, r.ticks, l) BY <1>1, <1>3, <2>3 DEF Counted
  <2> QED BY <2>3, <2>4
<1>8. ticks[i] = 1 \/ ticks[i] > 1 \/ ticks[i] = 0 BY <1>1, <1>2
<1> QED BY <1>4, <1>5, <1>6, <1>7, <1>8

-----------------------------------------------------------------------------
(***************************************************************************)
(* The steps                                                               *)
(***************************************************************************)
\* Nothing runs while the text is read.
LEMMA InputInit == Init => InputInv
BY DEF Init, InputInv

\* The generator's steps start no program; the timer and the outputs leave the
\* inputs as they are.
LEMMA OthersKeep ==
  ASSUME InputInv,
         \/ ReadLine \/ EndLines \/ ParseSentence \/ RejectSentence \/ RejectProgram
         \/ TimerInterrupt \/ Outputs \/ Rejected \/ UNCHANGED vars
  PROVE  InputInv'
<1>1. phase' # "running" \/ UNCHANGED <<phase, signals, raw, value, ticks, seen>>
  BY DEF ReadLine, EndLines, ParseSentence, RejectSentence, RejectProgram, TimerInterrupt,
         Outputs, Rejected, vars, beanVars, inputVars, chipVars
<1>2. CASE phase' # "running" BY <1>2 DEF InputInv
<1>3. CASE UNCHANGED <<phase, signals, raw, value, ticks, seen>>
  <2>1. Inputs' = Inputs BY <1>3 DEF Inputs, NamesOf
  <2> QED BY <1>3, <2>1 DEF InputInv
<1> QED BY <1>1, <1>2, <1>3

\* A program starts with every input high, no counter running, nothing seen.
LEMMA GenerateKeeps == InputInv /\ Generate => InputInv'
<1> SUFFICES ASSUME Generate PROVE InputInv' OBVIOUS
<1>1. Inputs' = Inputs BY DEF Generate, beanVars, Inputs, NamesOf
<1>2. raw' \in [Inputs -> Bits] BY DEF Generate, Bits
<1>3. value' \in [Inputs -> Bits] BY DEF Generate, Bits
<1>4. DOMAIN ticks' = Inputs /\ DOMAIN seen' = Inputs BY DEF Generate
<1>5. \A i \in Inputs : ticks'[i] = 0 /\ seen'[i] = <<>> BY DEF Generate
<1>6. ASSUME NEW v PROVE Counted(v, 0, <<>>)
  BY NothingSeen, DebounceAssumption DEF Counted
<1>7. \A i \in Inputs : Counted(value'[i], ticks'[i], seen'[i]) BY <1>5, <1>6
<1> QED BY <1>1, <1>2, <1>3, <1>4, <1>7 DEF InputInv

\* A pin that moves is still a bit.
LEMMA MovePinKeeps == ASSUME NEW i \in InputNames PROVE InputInv /\ MovePin(i) => InputInv'
<1> SUFFICES ASSUME InputInv, MovePin(i) PROVE InputInv' OBVIOUS
<1>1. /\ phase = "running" /\ i \in Inputs /\ raw' = [raw EXCEPT ![i] = 1 - @]
      /\ UNCHANGED <<phase, signals, value, ticks, seen>>
  BY DEF MovePin, beanVars, inputVars
<1>2. Inputs' = Inputs BY <1>1 DEF Inputs, NamesOf
<1>3. raw \in [Inputs -> Bits] BY <1>1 DEF InputInv
<1>4. raw[i] \in Bits BY <1>1, <1>3
<1>5. 1 - raw[i] \in Bits BY <1>4 DEF Bits
<1>6. raw' \in [Inputs -> Bits] BY <1>1, <1>3, <1>5
<1> QED BY <1>1, <1>2, <1>6 DEF InputInv

\* Debounce: every input by itself.
LEMMA DebounceEvery ==
  ASSUME InputInv, Debounce
  PROVE  /\ phase = "running" /\ UNCHANGED phase /\ Inputs' = Inputs
         /\ raw' \in [Inputs -> Bits] /\ DOMAIN value' = Inputs
         /\ DOMAIN ticks' = Inputs /\ DOMAIN seen' = Inputs
         /\ \A i \in Inputs :
              /\ value'[i] \in Bits
              /\ Counted(value'[i], ticks'[i], seen'[i])
              /\ value'[i] # value[i] /\ raw'[i] = raw[i] =>
                   Len(seen[i]) = DebounceTicks /\ seen[i][1] = value'[i]
              /\ raw'[i] = raw[i] => changed'[i] = (value'[i] # value[i])
<1>1. PICK later \in [Inputs -> Bits] :
        /\ raw' = later
        /\ value'   = [i \in Inputs |-> DebounceInput(i, later[i]).value]
        /\ changed' = [i \in Inputs |-> DebounceInput(i, later[i]).changed]
        /\ ticks'   = [i \in Inputs |-> DebounceInput(i, later[i]).ticks]
  BY DEF Debounce, Bits
<1>2. seen' = [i \in Inputs |-> Longer(seen[i], raw[i])] BY DEF Debounce, Longer
<1>3. phase = "running" /\ UNCHANGED <<phase, signals>> BY DEF Debounce, beanVars
<1>4. Inputs' = Inputs BY <1>3 DEF Inputs, NamesOf
<1>5. ASSUME NEW i \in Inputs
      PROVE  /\ value'[i] \in Bits
             /\ Counted(value'[i], ticks'[i], seen'[i])
             /\ value'[i] # value[i] /\ raw'[i] = raw[i] =>
                  Len(seen[i]) = DebounceTicks /\ seen[i][1] = value'[i]
             /\ raw'[i] = raw[i] => changed'[i] = (value'[i] # value[i])
  <2>1. /\ later[i] \in Bits /\ raw[i] \in Bits /\ value[i] \in Bits
        /\ Counted(value[i], ticks[i], seen[i])
    BY <1>1, <1>3 DEF InputInv
  <2>2. /\ raw'[i] = later[i] /\ value'[i] = DebounceInput(i, later[i]).value
        /\ ticks'[i] = DebounceInput(i, later[i]).ticks /\ seen'[i] = Longer(seen[i], raw[i])
    BY <1>1, <1>2
  <2>3. changed'[i] = DebounceInput(i, later[i]).changed BY <1>1
  <2>4. /\ value'[i] \in Bits
        /\ Counted(value'[i], ticks'[i], seen'[i])
        /\ value'[i] # value[i] /\ raw'[i] = raw[i] =>
             Len(seen[i]) = DebounceTicks /\ seen[i][1] = value'[i]
    BY <2>1, <2>2, DebounceOne
  <2>5. later[i] = raw[i] =>
          DebounceInput(i, later[i]).changed = (DebounceInput(i, later[i]).value # value[i])
    BY <2>1, DebounceOne
  <2>6. raw'[i] = raw[i] => changed'[i] = (value'[i] # value[i])
    BY <2>2, <2>3, <2>5, Zenon
  <2> QED BY <2>4, <2>6
<1>6. DOMAIN value' = Inputs /\ DOMAIN ticks' = Inputs BY <1>1
<1>7. DOMAIN seen' = Inputs BY <1>2
<1>8. raw' \in [Inputs -> Bits] BY <1>1
<1> QED BY <1>3, <1>4, <1>5, <1>6, <1>7, <1>8

\* Every input of the next state again, as the function it is.
LEMMA DebounceKeeps == InputInv /\ Debounce => InputInv'
<1> SUFFICES ASSUME InputInv, Debounce PROVE InputInv' OBVIOUS
<1>1. value' = [i \in Inputs |-> value'[i]] BY DEF Debounce
<1>2. value' \in [Inputs -> Bits] BY <1>1, DebounceEvery
<1> QED BY <1>2, DebounceEvery DEF InputInv

\* InputInv is inductive.
LEMMA InputStep == InputInv /\ [Next]_vars => InputInv'
<1> SUFFICES ASSUME InputInv, [Next]_vars PROVE InputInv' OBVIOUS
<1>1. CASE \/ ReadLine \/ EndLines \/ ParseSentence \/ RejectSentence \/ RejectProgram
           \/ TimerInterrupt \/ Outputs \/ Rejected \/ UNCHANGED vars
  BY <1>1, OthersKeep
<1>2. CASE Generate BY <1>2, GenerateKeeps
<1>3. CASE \E i \in InputNames : MovePin(i) BY <1>3, MovePinKeeps
<1>4. CASE Debounce BY <1>4, DebounceKeeps
<1> QED BY <1>1, <1>2, <1>3, <1>4 DEF Next

\* InputInv holds throughout.
LEMMA InputAlways == Spec => []InputInv
<1>1. Init => InputInv BY InputInit
<1>2. InputInv /\ [Next]_vars => InputInv' BY InputStep
<1> QED BY <1>1, <1>2, PTL DEF Spec

\* Only Debounce takes the loop from the test to the outputs.
LEMMA OnlyDebounce ==
  ASSUME [Next]_vars, pc = "test", pc' = "outputs"
  PROVE  Debounce
BY DEF Next, ReadLine, EndLines, ParseSentence, RejectSentence, Generate, RejectProgram,
       TimerInterrupt, MovePin, Outputs, Rejected, vars, chipVars

\* debounce_input, for every program, number of inputs and DebounceTicks: an
\* input only changes to a level that its pin had DebounceTicks runs before, and
\* the change is flagged in that very run and only then, unless the pin moves
\* between the two readings.
THEOREM InputsDebounced == Spec => ChangesDebounced
<1> DEFINE Rule ==
      phase = "running" /\ pc = "test" /\ pc' = "outputs" =>
        \A i \in Inputs :
          /\ value'[i] # value[i] /\ raw'[i] = raw[i] =>
               Len(seen[i]) = DebounceTicks /\ seen[i][1] = value'[i]
          /\ raw'[i] = raw[i] => changed'[i] = (value'[i] # value[i])
<1>1. InputInv /\ [Next]_vars => Rule
  <2> SUFFICES ASSUME InputInv, [Next]_vars, pc = "test", pc' = "outputs" PROVE Rule
    OBVIOUS
  <2>1. Debounce BY OnlyDebounce
  <2> QED BY <2>1, DebounceEvery
<1>2. InputInv /\ [Next]_vars => [Rule]_vars BY <1>1
<1> QED BY <1>2, InputAlways, PTL DEF Spec, ChangesDebounced
=============================================================================
