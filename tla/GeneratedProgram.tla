-------------------------- MODULE GeneratedProgram --------------------------
(***************************************************************************)
(* A program of the output language from its text to the microcontroller:  *)
(* the generator reads the lines, parses the sentences and fills the       *)
(* templates (Main, Preprocessor, SentenceParser, ProyectGenerator); the   *)
(* C program of template/src/app_main.c.vm and templates/set_expr*.vm then *)
(* runs against its timer interrupt and its pins.                          *)
(***************************************************************************)
EXTENDS NeogenCode

CONSTANTS
  Programs,       \* the texts, as sequences of lines
  InputNames,     \* the names of inputs in them
  DebounceTicks,  \* 100 in the template
  MaxAge          \* bound: the history of an output counts no further

ASSUME DebounceAssumption == DebounceTicks \in Nat \ {0}

VARIABLES
  source, phase,                    \* the text and how far it has come
  lineNo, buffer, multi, sentences, \* Preprocessor
  signals, assignments,             \* BeanProgram
  tick,                             \* set by the interrupt
  pc,                               \* loop(): "test" or "outputs"
  raw, value, changed, ticks,       \* for each input; ticks 0: not debouncing
  out,                              \* for each output: its port latch
  state, counter, cycle,            \* for each assigned signal
  seen,                             \* history: the pin at the last runs
  age                               \* history: runs since the output changed

textVars  == <<source, lineNo, buffer, multi, sentences>>
beanVars  == <<signals, assignments>>
inputVars == <<value, changed, ticks>>
outVars   == <<out, state, counter, cycle>>
vars == <<textVars, phase, beanVars, tick, pc, raw, inputVars, outVars, seen, age>>
chipVars == <<tick, pc, raw, inputVars, outVars, seen, age>>

NoState == -1
Off == <<>>          \* the chip does not run yet

Init ==
  /\ source \in Programs /\ phase = "lines"
  /\ lineNo = 1 /\ buffer = <<>> /\ multi = FALSE /\ sentences = <<>>
  /\ signals = <<>> /\ assignments = <<>>
  /\ tick = FALSE /\ pc = "test"
  /\ raw = Off /\ value = Off /\ changed = Off /\ ticks = Off
  /\ out = Off /\ state = Off /\ counter = Off /\ cycle = Off /\ seen = Off /\ age = Off

-----------------------------------------------------------------------------
(***************************************************************************)
(* The generator                                                           *)
(***************************************************************************)
\* filterSentences: one line; a sentence that nothing ends is dropped.
ReadLine ==
  /\ phase = "lines" /\ lineNo <= Len(source)
  /\ lineNo' = lineNo + 1
  /\ LET r == AppendLine(buffer, multi, source[lineNo])
     IN /\ multi' = r.multi
        /\ IF IsSentenciaTerminada(r.buffer)
             THEN sentences' = Append(sentences, r.buffer) /\ buffer' = <<>>
             ELSE UNCHANGED sentences /\ buffer' = r.buffer
  /\ UNCHANGED <<source, phase, beanVars, chipVars>>

EndLines ==
  /\ phase = "lines" /\ lineNo > Len(source)
  /\ phase' = "sentences"
  /\ UNCHANGED <<textVars, beanVars, chipVars>>

\* SentenceParser.parse: the next sentence.
NextSentence == Len(signals) + Len(assignments) + 1
Parsed(sentence) ==
  IF ExistsSignal(signals, sentence) THEN ParseAssignment(sentence) ELSE ParseSignal(sentence)

ParseSentence ==
  /\ phase = "sentences" /\ NextSentence <= Len(sentences)
  /\ \E item \in {Parsed(sentences[NextSentence])} :
       /\ item.ok
       /\ IF ExistsSignal(signals, sentences[NextSentence])
            THEN assignments' = Append(assignments, item) /\ UNCHANGED signals
            ELSE signals' = Append(signals, item) /\ UNCHANGED assignments
  /\ UNCHANGED <<textVars, phase, chipVars>>

RejectSentence ==
  /\ phase = "sentences" /\ NextSentence <= Len(sentences)
  /\ ~Parsed(sentences[NextSentence]).ok
  /\ phase' = "failed"
  /\ UNCHANGED <<textVars, beanVars, chipVars>>

NamesOf(type) == {signals[k].name : k \in {j \in DOMAIN signals : signals[j].type = type}}
Inputs   == NamesOf("input")
Assigned == {assignments[k].signal : k \in DOMAIN assignments}
ElementsOf(o) == (CHOOSE a \in Range(assignments) : a.signal = o).elements

\* What is filled in is C; set_expr_while.vm prints its "when" even if there is
\* none; two assignments of one signal define its variables twice.
Compiles(c) ==
  /\ Balanced(c)
  /\ \A k \in DOMAIN c : /\ c[k].ev \in {"", "changed"}
                         /\ c[k].w \notin {"ON", "OFF", "toggled"}
Fills(element) ==
  /\ Template(element) \in Templates
  /\ Template(element) = <<"while">> => element["when"] # <<>>
  /\ \A word \in Clauses : Compiles(element[word])
ProgramFills ==
  /\ Cardinality(Assigned) = Len(assignments)
  /\ \A o \in Assigned : \A n \in DOMAIN ElementsOf(o) : Fills(ElementsOf(o)[n])

\* createProyect, and main() up to its loop: setup clears the port latches,
\* every input starts as 1, every output without a state.
Generate ==
  /\ phase = "sentences" /\ NextSentence > Len(sentences) /\ ProgramFills
  /\ phase' = "running"
  /\ raw' \in [Inputs -> {0, 1}]
  /\ value' = [i \in Inputs |-> 1] /\ changed' = [i \in Inputs |-> FALSE]
  /\ ticks' = [i \in Inputs |-> 0] /\ seen' = [i \in Inputs |-> <<>>]
  /\ out' = [o \in NamesOf("output") |-> 0]
  /\ LET zero == [o \in Assigned |-> 0]
     IN counter' = zero /\ cycle' = zero /\ age' = zero
  /\ state' = [o \in Assigned |-> NoState]
  /\ UNCHANGED <<textVars, beanVars, tick, pc>>

\* A template that does not exist, or C that does not compile.
RejectProgram ==
  /\ phase = "sentences" /\ NextSentence > Len(sentences) /\ ~ProgramFills
  /\ phase' = "failed"
  /\ UNCHANGED <<textVars, beanVars, chipVars>>

-----------------------------------------------------------------------------
(***************************************************************************)
(* The value of C text, its operators by their strength.  An environment   *)
(* gives the values of names and the change flags of inputs.               *)
(***************************************************************************)
Truth(b) == IF b THEN 1 ELSE 0
Number(word) == CHOOSE n \in 0 .. 9 : ToString(n) = word

Atom(token, env) ==
  IF token.ev = "changed" THEN Truth(env.changed[token.w])
  ELSE IF token.w \in DOMAIN env.value THEN env.value[token.w]
  ELSE Number(token.w)

Value(code, env) ==
  LET V[c \in Texts] ==
        LET At(symbols) == {k \in DOMAIN c : c[k].w \in symbols /\ Level(c, k) = 0}
            or == At({"||"})  and == At({"&&"})  equals == At({"==", "!="})
            at == Max(IF or # {} THEN or ELSE IF and # {} THEN and ELSE equals)
            left  == V[Cut(c, at - 1)]
            right == V[From(c, at + 1)]
        IN IF or # {} THEN Truth(left # 0 \/ right # 0)
           ELSE IF and # {} THEN Truth(left # 0 /\ right # 0)
           ELSE IF equals # {} THEN Truth((left = right) = (c[at].w = "=="))
           ELSE IF c[1].w = "!" THEN Truth(V[Tail(c)] = 0)
           ELSE IF c[1].w = "(" THEN V[SubSeq(c, 2, Len(c) - 1)]
           ELSE Atom(c[1], env)
  IN V[code]

-----------------------------------------------------------------------------
(***************************************************************************)
(* loop() of app_main.c                                                    *)
(***************************************************************************)
\* general_isr; a tick during a run of the loop is lost when the run ends.
TimerInterrupt ==
  /\ phase = "running" /\ ~tick
  /\ tick' = TRUE
  /\ UNCHANGED <<textVars, phase, beanVars, pc, raw, inputVars, outVars, seen, age>>

\* A pin moves; it is only read at the start of a run.
MovePin(i) ==
  /\ phase = "running" /\ pc = "test" /\ i \in Inputs
  /\ raw' = [raw EXCEPT ![i] = 1 - @]
  /\ UNCHANGED <<textVars, phase, beanVars, tick, pc, inputVars, outVars, seen, age>>

Reading(v, f, t) == [value |-> v, changed |-> f, ticks |-> t]

\* Variant: the input is taken over when it is seen to differ.
DebounceInputAtOnce(i, later) ==
  CASE ticks[i] > 0 -> Reading(value[i], FALSE, ticks[i] - 1)
    [] ticks[i] = 0 /\ raw[i] # value[i] -> Reading(raw[i], TRUE, DebounceTicks)
    [] OTHER        -> Reading(value[i], FALSE, 0)

\* Variant: the counter runs on below zero.
DebounceInputBelowZero(i, later) ==
  CASE ticks[i] = 1 -> Reading(later, value[i] # raw[i], 0)
    [] ticks[i] = 0 /\ raw[i] # value[i] -> Reading(value[i], FALSE, DebounceTicks)
    [] OTHER        -> Reading(value[i], FALSE, ticks[i] - 1)

\* Variant: the change is flagged and the new value not stored.
DebounceInputForgets(i, later) ==
  CASE ticks[i] = 1 -> Reading(value[i], value[i] # raw[i], 0)
    [] ticks[i] > 1 -> Reading(value[i], FALSE, ticks[i] - 1)
    [] ticks[i] = 0 /\ raw[i] # value[i] -> Reading(value[i], FALSE, DebounceTicks)
    [] OTHER        -> Reading(value[i], FALSE, 0)

\* debounce_input: the flag lasts one run; at the end the pin is read twice,
\* for the flag and for the value.
DebounceInput(i, later) ==
  CASE ticks[i] = 1 -> Reading(later, value[i] # raw[i], 0)
    [] ticks[i] > 1 -> Reading(value[i], FALSE, ticks[i] - 1)
    [] ticks[i] = 0 /\ raw[i] # value[i] -> Reading(value[i], FALSE, DebounceTicks)
    [] OTHER        -> Reading(value[i], FALSE, 0)

Debounce ==
  /\ phase = "running" /\ pc = "test" /\ tick
  /\ pc' = "outputs"
  /\ \E later \in [Inputs -> {0, 1}] :       \* the pins by their second reading
       /\ raw' = later
       /\ value'   = [i \in Inputs |-> DebounceInput(i, later[i]).value]
       /\ changed' = [i \in Inputs |-> DebounceInput(i, later[i]).changed]
       /\ ticks'   = [i \in Inputs |-> DebounceInput(i, later[i]).ticks]
  /\ seen' = [i \in Inputs |->
       LET longer == Append(seen[i], raw[i])
       IN IF Len(longer) > DebounceTicks THEN Tail(longer) ELSE longer]
  /\ UNCHANGED <<textVars, phase, beanVars, tick, outVars, age>>

(***************************************************************************)
(* The switch of one output: p is what the program holds for signal o.     *)
(***************************************************************************)
Env(p) == [value |-> value @@ p.out, changed |-> changed]
Set(p, o, c)  == [p EXCEPT !.out[o] = Value(c, Env(p))]
Flip(p, o)    == [p EXCEPT !.out[o] = Truth(@ = 0)]
Leave(p, o)   == [p EXCEPT !.state[o] = NoState]
Holds(p, c)   == Value(c, Env(p)) # 0
Without(p, o, c) == [p EXCEPT !.out[o] = Truth(Value(c, Env(p)) = 0)]

\* Variant: the counter is compared before it is decremented.
CaseForLate(p, o, e) ==
  IF p.counter[o] = 0 THEN Flip(Leave(p, o), o) ELSE [p EXCEPT !.counter[o] = @ - 1]

\* case of set_expr_for.vm
CaseFor(p, o, e) ==
  LET q == [p EXCEPT !.counter[o] = @ - 1]
  IN IF q.counter[o] = 0 THEN Flip(Leave(q, o), o) ELSE q

\* case of set_expr_while.vm: left when the condition holds.
CaseWhile(p, o, e) == IF Holds(p, e["while"]) THEN Flip(Leave(p, o), o) ELSE p

\* case of set_expr_for_every.vm
CaseEvery(p, o, e) ==
  LET loaded == [p EXCEPT !.counter[o] = Value(e["for"], Env(p)),
                          !.cycle[o]   = Value(e["every"], Env(p))]
      begun  == IF p.cycle[o] = 0 THEN Set(loaded, o, e["is"]) ELSE p
      ended  == IF begun.out[o] = Value(e["is"], Env(begun)) /\ begun.counter[o] = 0
                  THEN Flip(begun, o) ELSE begun
  IN [ended EXCEPT !.counter[o] = @ - 1, !.cycle[o] = @ - 1]

\* case of set_expr_for_every_until.vm: counter and cycle stay as they are.
CaseUntil(p, o, e) ==
  IF Holds(p, e["until"]) THEN Without(Leave(p, o), o, e["is"]) ELSE CaseEvery(p, o, e)

Case(p, o, e) ==
  CASE Template(e) = <<"for">>          -> CaseFor(p, o, e)
    [] Template(e) = <<"while">>        -> CaseWhile(p, o, e)
    [] Template(e) = <<"for", "every">> -> CaseEvery(p, o, e)
    [] Template(e) = <<"for", "every", "until">> -> CaseUntil(p, o, e)
    [] OTHER -> p

\* The default section of the n-th element: n - 1 becomes the state, except
\* that a plain expression has none; "for" without "when" does nothing.
Default(p, o, n) ==
  LET e     == ElementsOf(o)[n]
      timed == Template(e) # <<>>
      fires == IF e["when"] = <<>> THEN Template(e) # <<"for">> ELSE Holds(p, e["when"])
      begun == IF timed THEN [p EXCEPT !.state[o] = n - 1] ELSE p
      count == IF Template(e) = <<"for">>
                 THEN [begun EXCEPT !.counter[o] = Value(e["for"], Env(p))] ELSE begun
  IN IF fires THEN Set(count, o, e["is"]) ELSE p

Switch(p, o) ==
  IF p.state[o] = NoState
    THEN FoldLeft(LAMBDA q, n : Default(q, o, n), p, [n \in DOMAIN ElementsOf(o) |-> n])
    ELSE Case(p, o, ElementsOf(o)[p.state[o] + 1])

\* The rest of a run: every assignment in order, then the tick is forgotten.
Outputs ==
  /\ phase = "running" /\ pc = "outputs"
  /\ LET before == [out |-> out, state |-> state, counter |-> counter, cycle |-> cycle]
         after  == FoldLeft(LAMBDA p, a : Switch(p, a.signal), before, assignments)
     IN /\ out' = after.out /\ state' = after.state
        /\ counter' = after.counter /\ cycle' = after.cycle
  /\ age' = [o \in Assigned |-> IF out'[o] # out[o] THEN 1 ELSE Min({age[o] + 1, MaxAge})]
  /\ pc' = "test" /\ tick' = FALSE
  /\ UNCHANGED <<textVars, phase, beanVars, raw, inputVars, seen>>

Rejected == phase = "failed" /\ UNCHANGED vars

Next ==
  \/ ReadLine \/ EndLines \/ ParseSentence \/ RejectSentence \/ Generate \/ RejectProgram
  \/ TimerInterrupt \/ (\E i \in InputNames : MovePin(i)) \/ Debounce \/ Outputs \/ Rejected

\* The timer keeps ticking and main() calls loop() for ever.  The fairness of
\* Debounce and Outputs is stated by what only they do under their guards.
LoopTurns == \/ pc = "test" /\ tick /\ pc' = "outputs"
             \/ pc = "outputs" /\ pc' = "test"
Fairness == WF_vars(TimerInterrupt) /\ WF_pc(phase = "running" /\ LoopTurns)
Spec == Init /\ [][Next]_vars /\ Fairness
-----------------------------------------------------------------------------
(***************************************************************************)
(* Properties                                                              *)
(***************************************************************************)
\* Every variable keeps its type.
TypeOK ==
  /\ phase \in {"lines", "sentences", "running", "failed"}
  /\ {tick, multi} \subseteq BOOLEAN /\ pc \in {"test", "outputs"}
  /\ phase = "running" =>
       /\ {raw, value} \subseteq [Inputs -> {0, 1}] /\ changed \in [Inputs -> BOOLEAN]
       /\ ticks \in [Inputs -> 0 .. DebounceTicks]
       /\ out \in [NamesOf("output") -> {0, 1}]
       /\ \A o \in Assigned : state[o] \in {NoState} \union {n - 1 : n \in DOMAIN ElementsOf(o)}

\* The text without its comments.
StripToken(acc, t) ==
  LET end == Word(IF acc.mode = "block" THEN "*/" ELSE "NL")
  IN IF acc.mode # "code" THEN [acc EXCEPT !.mode = IF t = end THEN "code" ELSE @]
     ELSE CASE t = Word("//") -> [acc EXCEPT !.mode = "line"]
            [] t = Word("/*") -> [acc EXCEPT !.mode = "block"]
            [] t = Word("NL") -> acc
            [] OTHER          -> [acc EXCEPT !.code = Append(@, t)]
Code ==
  FoldLeft(StripToken, [mode |-> "code", code |-> <<>>],
           FlattenSeq([k \in DOMAIN source |-> Append(source[k], Word("NL"))])).code

\* No block comment begins and ends on one line, no sentence ends inside one.
Tidy ==
  \A l \in DOMAIN source : \A j, k \in DOMAIN source[l] :
    /\ j < k => ~(source[l][j] = Word("/*") /\ source[l][k] = Word("*/"))
    /\ source[l][j] = Word(";") /\ k = j + 1 => source[l][k] = Word("//")

\* Preprocessor: a program laid out with a sentence a line, and block comments
\* over several lines, loses nothing but its comments and what follows the
\* last semicolon.
SentencesKept ==
  phase # "lines" /\ Tidy =>
    /\ FlattenSeq(sentences) = Cut(Code, SelectLastInSeq(Code, LAMBDA t : t = Word(";")))
    /\ \A k \in DOMAIN sentences : PlaceOf(sentences[k], ";") = Len(sentences[k])

\* What an expression of the language means, word for word.
OperandMeaning(t, signal) ==
  CASE t.ev = "rise"   -> changed[t.w] /\ value[t.w] = 1
    [] t.ev = "fall"   -> changed[t.w] /\ value[t.w] = 0
    [] t.ev = "change" -> changed[t.w]
    [] t.ev = "close"  -> value[t.w] = 0
    [] t.ev = "open"   -> value[t.w] = 1
    [] t = Word("toggled") -> out[signal] = 0
    [] OTHER -> t = Word("ON") \/ t = Word("1") \/ (t.w \in Inputs /\ value[t.w] = 1)
Direct(text, signal) ==
  [k \in DOMAIN text |->
     IF text[k].w \in DOMAIN Operators /\ text[k].ev = "" THEN Word(Operators[text[k].w].symbol)
     ELSE IF text[k].w \in {"(", ")"} THEN text[k]
     ELSE Word(ToString(Truth(OperandMeaning(text[k], signal))))]
Meaning(text, signal) ==
  Value(Direct(text, signal), [value |-> value, changed |-> changed]) # 0

\* The expressions the generator gets right: groups only at the two ends and
\* not nested, and no event next to an operator stronger than "and".
Strong(t) == IsOperator(t, "UNARY") \/ (IsOperator(t, "BINARY") /\ Operators[t.w].precedence = 8)
Supported(text) ==
  /\ \A k \in DOMAIN text : /\ Level(text, k) <= 1
                            /\ text[k] = Word("(") => k = 1 \/ FindAgrupationStart(text) = k - 1
  /\ \A k \in 2 .. Len(text) : /\ Strong(text[k - 1]) => text[k].ev = ""
                               /\ Strong(text[k]) => text[k - 1].ev = ""

SentenceOf(o) == Last(SelectSeq(sentences, LAMBDA s : s[1].w = o))
PartsOf(o, word) == SelectSeq(Parts(Tokens(SentenceOf(o))), LAMBDA p : p.word = word)

\* From text to pin: in every run that finds an output at rest, it becomes what
\* its sentence says under the condition the sentence names, and otherwise it
\* stays, for every expression the parser supports.
OutputFollows ==
  [][ phase = "running" /\ pc = "outputs" /\ pc' = "test" =>
      \A o \in Assigned :
        LET is == PartsOf(o, "is")  when == PartsOf(o, "when") IN
        /\ Len(is) = 1 /\ state[o] = NoState
        /\ \A p \in Range(is \o when) : Supported(p.text)
        => out'[o] = IF when = <<>> \/ Meaning(when[1].text, o)
                       THEN Truth(Meaning(is[1].text, o)) ELSE out[o] ]_vars

\* An output that is ON for a time is on for that time: one run more in the
\* first cycle of an "every", and, when "until" left a cycle half done, at
\* most a whole cycle.
OnForTime ==
  phase = "running" =>
    \A o \in Assigned :
      LET e == ElementsOf(o)[1]
          Runs(word) == Number(e[word][2].w)
      IN "for" \in Range(Template(e)) /\ out[o] = 1 =>
           age[o] <= CASE Template(e) = <<"for">>          -> Runs("for")
                       [] Template(e) = <<"for", "every">> -> Runs("for") + 1
                       [] OTHER                            -> Runs("every")

\* An input only changes to a level that its pin already had DebounceTicks runs
\* before; and the change is flagged in that very run, and only then, unless the
\* pin moves between the two readings.
ChangesDebounced ==
  [][ phase = "running" /\ pc = "test" /\ pc' = "outputs" =>
      \A i \in Inputs :
        /\ value'[i] # value[i] /\ raw'[i] = raw[i] =>
             Len(seen[i]) = DebounceTicks /\ seen[i][1] = value'[i]
        /\ raw'[i] = raw[i] => changed'[i] = (value'[i] # value[i]) ]_vars

PinIs(i, v)   == phase = "running" /\ i \in Inputs /\ raw[i] = v
InputIs(i, v) == phase = "running" /\ i \in Inputs /\ value[i] = v

\* An input whose pin settles takes its level, and keeps it.
InputSettles ==
  \A i \in InputNames : \A v \in {0, 1} : <>[]PinIs(i, v) => <>[]InputIs(i, v)

\* The word "while": an output stays in the state only while the condition holds.
WhileHolds ==
  [][ phase = "running" /\ pc = "outputs" /\ pc' = "test" =>
      \A o \in Assigned :
        state[o] # NoState /\ state'[o] = state[o] /\ PartsOf(o, "while") # <<>> =>
          Meaning(PartsOf(o, "while")[1].text, o) ]_vars
=============================================================================
