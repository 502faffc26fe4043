----------------------------- MODULE ProgramInfo -----------------------------
(***************************************************************************)
(* The programmer's side of the text: program_info.c of pic_programmer_v1  *)
(* and programming_info.c of pic_programmer_v2, which is the same code     *)
(* without the erase options and without the reset operation.  The reader  *)
(* is a loop over characters: one step is one iteration that finds a       *)
(* letter it knows; every other character is passed over.                  *)
(***************************************************************************)
EXTENDS RequestFile

Versions == {"v1", "v2"}

\* What a field holds before a line sets it: malloc and the stack of main
\* initialise nothing.
Heap == -2

Word16Bits == (0 .. 65535) \union {Heap}   \* unsigned short
Natural32  == Nat \union {Heap}            \* unsigned int; no request comes near 2^32

BancoMemoria     == [start : Natural32, length : Natural32, data : Seq(Word16Bits)]
LocalidadMemoria == [addr : Natural32, name : STRING, value : Word16Bits,
                     read : BOOLEAN, write : BOOLEAN]
\* Arreglo: an array of ten letters, which the reader fills without a look at it.
Arreglo(letters) == {s \in Seq(letters) : Len(s) <= 10}

\* ProgramInfo of v1 and ProgrammingInfo of v2, which has no options.
ProgrammingInfo ==
  [op : {"none", "invalid", "r", "p", "e"},
   areas : Arreglo({"p", "d", "c"}), voltages : Arreglo({"l", "n", "h"}),
   options : [1 .. 4 -> Word16Bits],
   program : Seq(BancoMemoria), data : Seq(BancoMemoria), config : Seq(LocalidadMemoria)]

EmptyInfo ==
  [op |-> "none", areas |-> <<>>, voltages |-> <<>>,
   options |-> <<Heap, Heap, Heap, Heap>>,
   program |-> <<>>, data |-> <<>>, config |-> <<>>]

\* A reader's position: the rest of the file and what has been read.
Reader(rest, info) == [rest |-> rest, info |-> info]

Drop(text, n) == SubSeq(text, n + 1, Len(text))

\* create_program_buffer, create_data_buffer: a block of count banks.
CreateBanks(count) ==
  [k \in 1 .. count |-> [start |-> Heap, length |-> Heap, data |-> <<>>]]

\* create_configuration_buffer
CreateLocations(count) ==
  [k \in 1 .. count |->
     [addr |-> Heap, name |-> "", value |-> Heap, read |-> FALSE, write |-> FALSE]]

\* An int stored in an unsigned short.
Short(n) == IF n = Heap THEN Heap ELSE n % 65536

\* read_integer: fscanf stores nothing, and takes nothing, when no digit comes.
ReadInteger(token) == IF IsNum(token) THEN token.num ELSE Heap

\* obtener_indice: atoi gives 0 for a character that is no digit.
ObtenerIndice(token) == IF IsNum(token) THEN token.num + 1 ELSE 1

\* How many tokens from position 2 on (position 1 is '=') a list of letters
\* takes: the loop ends on the first character that belongs to no list.
SpanOf(text, letters) ==
  SelectInSubSeq(text, 2, Len(text), LAMBDA token : token.ch \notin letters)

LettersOf(text, span, letters) ==
  LET found == SelectSeq(SubSeq(text, 2, span - 1), LAMBDA token : token.ch \in letters)
  IN [k \in DOMAIN found |-> found[k].ch]

\* The number behind a letter of the list (0: the list does not name it).
CountOf(text, span, letter) ==
  LET at == SelectInSubSeq(text, 2, span - 1, LAMBDA token : token.ch = letter)
  IN IF at = 0 THEN 0 ELSE ReadInteger(text[at + 1])

\* init_arreglo_areas, after the 'a': the counts size the buffers.
InitArregloAreas(text, info) ==
  LET span == SpanOf(text, {",", "p", "d", "c", "#"})
  IN Reader(Drop(text, span),
       [info EXCEPT !.areas   = LettersOf(text, span, {"p", "d", "c"}),
                    !.program = CreateBanks(CountOf(text, span, "p")),
                    !.data    = CreateBanks(CountOf(text, span, "d")),
                    !.config  = CreateLocations(CountOf(text, span, "c"))])

\* init_programming_options, after the 'e': "=n,n,n,n" and one character.
InitProgrammingOptions(text, info) ==
  Reader(Drop(text, 9),
    [info EXCEPT !.options = [k \in 1 .. 4 |-> ReadInteger(text[2 * k])]])

\* init_arreglo_voltajes, after the 'v'.
InitArregloVoltajes(text, info) ==
  LET span == SpanOf(text, {",", "l", "n", "h"})
  IN Reader(Drop(text, span),
            [info EXCEPT !.voltages = LettersOf(text, span, {"l", "n", "h"})])

\* init_operacion of v1 and of v2; the other letters become -1.
InitOperacion(c)   == IF c \in {"r", "p", "e"} THEN c ELSE "invalid"
InitOperacionV2(c) == IF c \in {"r", "p"} THEN c ELSE "invalid"

\* Variant: the separator behind a value is not taken.
ReadArregloNoSeparator(length, text) ==
  [values |-> [k \in 1 .. length |-> Short(ReadInteger(text[k]))], taken |-> length]

\* read_arreglo: as many numbers as the length says, each with the character
\* behind it, whatever that character is.
ReadArreglo(length, text) ==
  [values |-> [k \in 1 .. length |-> Short(ReadInteger(text[2 * k - 1]))],
   taken |-> 2 * length]

\* One line of a bank, after its letter: index, property, '=', value.  The
\* values use the length that was read before.
InitBank(text, banks) ==
  LET k     == ObtenerIndice(text[1])
      prop  == text[2].ch
      array == ReadArreglo(banks[k].length, Drop(text, 3))
  IN CASE prop = "i" -> [banks |-> [banks EXCEPT ![k].start = ReadInteger(text[4])], taken |-> 4]
       [] prop = "l" -> [banks |-> [banks EXCEPT ![k].length = ReadInteger(text[4])], taken |-> 4]
       [] prop = "v" -> [banks |-> [banks EXCEPT ![k].data = array.values],
                         taken |-> 3 + array.taken]
       [] OTHER      -> [banks |-> banks, taken |-> 2]

\* init_program_buffer
InitProgramBuffer(text, info) ==
  LET r == InitBank(text, info.program)
  IN Reader(Drop(text, r.taken), [info EXCEPT !.program = r.banks])

\* init_data_buffer
InitDataBuffer(text, info) ==
  LET r == InitBank(text, info.data)
  IN Reader(Drop(text, r.taken), [info EXCEPT !.data = r.banks])

\* The switch of init_configuration_location; of a flag one character is taken.
SetProperty(location, prop, value) ==
  CASE prop = "a" -> [location EXCEPT !.addr = ReadInteger(value)]
    [] prop = "i" -> [location EXCEPT !.name = value.ch]
    [] prop = "v" -> [location EXCEPT !.value = Short(ReadInteger(value))]
    [] prop = "r" -> [location EXCEPT !.read = (value.ch = "t")]
    [] prop = "w" -> [location EXCEPT !.write = (value.ch = "t")]

\* init_configuration_location: %s stops at a blank, so of a name of two words
\* the second goes back to the main loop.  A property it does not know leaves
\* the rest of the line to that loop.
InitConfigurationLocation(text, info) ==
  LET k    == ObtenerIndice(text[1])
      prop == text[2].ch
  IN IF prop \in {"a", "i", "v", "r", "w"}
       THEN Reader(Drop(text, 4), [info EXCEPT !.config[k] = SetProperty(@, prop, text[4])])
       ELSE Reader(Drop(text, 2), info)

-----------------------------------------------------------------------------
(***************************************************************************)
(* read_programming_info                                                   *)
(***************************************************************************)
Letters   == {"a", "c", "d", "e", "o", "p", "v"}
LettersV2 == {"a", "c", "d", "o", "p", "v"}

LettersOfVersion(version) == IF version = "v1" THEN Letters ELSE LettersV2

\* The next character the switch of the loop has a case for (0: end of file).
NextLetter(version, text) ==
  SelectInSeq(text, LAMBDA token : token.ch \in LettersOfVersion(version))

\* The iteration for that character.
ReadCase(version, text, info) ==
  LET at   == NextLetter(version, text)
      c    == text[at].ch
      rest == Drop(text, at)
  IN CASE c = "a" -> InitArregloAreas(rest, info)
       [] c = "c" -> InitConfigurationLocation(rest, info)
       [] c = "d" -> InitDataBuffer(rest, info)
       [] c = "e" -> InitProgrammingOptions(rest, info)
       [] c = "p" -> InitProgramBuffer(rest, info)
       [] c = "v" -> InitArregloVoltajes(rest, info)
       [] OTHER   -> Reader(Drop(rest, 2),
                       [info EXCEPT !.op = IF version = "v1" THEN InitOperacion(rest[2].ch)
                                                             ELSE InitOperacionV2(rest[2].ch)])

-----------------------------------------------------------------------------
(***************************************************************************)
(* write_programming_info: the lines of the answer.                        *)
(***************************************************************************)
BankLines(area, banks) ==
  Concat([k \in DOMAIN banks |->
    << Key(area, k, "i") \o <<Num(banks[k].start)>>,
       Key(area, k, "l") \o <<Num(banks[k].length)>>,
       Key(area, k, "v") \o Numbers(banks[k].data) >>])

\* The words of the two flags, which a reader takes apart again.
TrueFalse(b) == IF b THEN <<Ch("t"), Ch("r"), Ch("u"), Ch("e")>>
                     ELSE <<Ch("f"), Ch("a"), Ch("l"), Ch("s"), Ch("e")>>

LocationLines(locations) ==
  Concat([k \in DOMAIN locations |->
    << Key("c", k, "a") \o <<Num(locations[k].addr)>>,
       Key("c", k, "i") \o <<Ch(locations[k].name)>>,
       Key("c", k, "v") \o <<Num(locations[k].value)>>,
       Key("c", k, "r") \o TrueFalse(locations[k].read),
       Key("c", k, "w") \o TrueFalse(locations[k].write) >>])

WriteDeviceBuffer(info) ==
  BankLines("p", info.program) \o BankLines("d", info.data) \o LocationLines(info.config)

LetterLine(key, letters) ==
  <<Ch(key), Ch("=")>> \o Commas([k \in DOMAIN letters |-> Ch(letters[k])])

\* write_programming_options
WriteProgrammingOptions(options) == <<Ch("e"), Ch("=")>> \o Numbers(options)

WriteProgrammingInfo(info) ==
  << <<Ch("o"), Ch("="), Ch(info.op)>>, LetterLine("a", info.areas),
     LetterLine("v", info.voltages), WriteProgrammingOptions(info.options) >>
  \o WriteDeviceBuffer(info)

WriteProgrammingInfoV2(info) ==
  << <<Ch("o"), Ch("="), Ch(info.op)>>, LetterLine("a", info.areas),
     LetterLine("v", info.voltages) >>
  \o WriteDeviceBuffer(info)
=============================================================================
