------------------------- MODULE MCGeneratedProgram -------------------------
\* The example programs of 10_neogen_codegen with times of a few runs, and some
\* programs that the generator refuses or misreads.
EXTENDS GeneratedProgram

Kinds == <<"rise", "fall", "change", "close", "open">>
Events ==
  [w \in {n \o "'" \o k : n \in {"a", "b"}, k \in Range(Kinds)} |->
     CHOOSE e \in {Event(n, k) : n \in {"a", "b"}, k \in Range(Kinds)} : e.w \o "'" \o e.ev = w]
Times == [w \in {"2'ms", "5'ms"} |-> Event(IF w = "2'ms" THEN "2" ELSE "5", "ms")]
L(words) ==
  [k \in DOMAIN words |-> IF words[k] \in DOMAIN Events THEN Events[words[k]]
                          ELSE IF words[k] \in DOMAIN Times THEN Times[words[k]]
                          ELSE Word(words[k])]

A == L(<<"a", "is", "input", "switch", "on", "pin", "GP0", ";">>)
B == L(<<"b", "is", "input", "switch", "on", "pin", "GP1", ";">>)
O == L(<<"out", "is", "output", "on", "pin", "GP5", ";">>)
O2 == L(<<"two", "is", "output", "on", "pin", "GP4", ";">>)
Out(words) == L(<<"out", "is">> \o words \o <<";">>)

Commented(words) ==
  <<L(<<"/*">>), L(<<"out", ";">>), L(<<"*/">>), A, O, L(<<"//", "out", ";">>),
    Out(words) \o L(<<"//", "x">>), L(<<"/*", "out">>), L(<<"is", "b", "*/">>), L(<<"out", "is", "b">>)>>

MCPrograms ==
  { Commented(<<"a">>),
    <<A, O, Out(<<"toggled", "when", "a'rise">>)>>,
    <<A, O, L(<<"out", "is", "ON", "for">>), L(<<"2'ms", "when", "a'rise", ";">>)>>,
    <<O, Out(<<"ON", "for", "2'ms", "every", "5'ms">>)>>,
    <<A, O, Out(<<"ON", "for", "2'ms", "every", "5'ms", "when", "a", "==", "0">>)>>,
    <<A, O, Out(<<"ON", "for", "2'ms", "every", "5'ms", "until", "a", "!=", "0",
                  "when", "a", "==", "0">>)>>,
    <<A, B, O, Out(<<"(", "a", "or", "b", ")", "and", "not", "(", "a", "and", "b", ")">>)>>,
    <<A, O, O2, Out(<<"a", "when", "a'change", "or", "a'fall">>),
      L(<<"two", "is", "OFF", "when", "a'open", "is", "ON", "when", "a'close", ";">>)>>,
    <<A, O, Out(<<"not", "a'rise", "or", "a">>)>>,                             \* misread
    <<A, O, Out(<<"(", "a", ")", "and", "(", "a", "or", "a", ")", "and", "(", "a", ")">>)>>,
    <<L(<<"/*", "x", "*/">>), A, O, L(<<"/*", "*/">>), Out(<<"a">>)>>,         \* A, O lost
    <<A, O, Out(<<"(", "(", "a", "and", "a", ")", ")">>)>>,
    <<A, O, Out(<<"(", "a'rise", ")", "and", "a">>)>>,
    <<A, O, Out(<<"ON", "for", "2'ms", "while", "a'close", "when", "a'rise">>)>> }

MCWhilePrograms == {<<A, B, O, Out(<<"ON", "while", "b'close", "when", "a'rise">>)>>}
=============================================================================
