----------------------------- MODULE RequestFile -----------------------------
(***************************************************************************)
(* The text that the GUI and the programmer exchange, as the GUI writes    *)
(* and reads it: RequestGenerator and DataFormatter.  A text is a sequence *)
(* of tokens: a character, a decimal number, or a word of a name.          *)
(***************************************************************************)
EXTENDS Integers, SequencesExt

Ch(c)  == [ch |-> c, num |-> 0]
Num(n) == [ch |-> "#", num |-> n]
NL     == Ch("NL")

IsNum(token) == token.ch = "#"

\* Values of a comma-separated list.
Commas(tokens) ==
  [k \in 1 .. 2 * Len(tokens) - 1 |->
     IF k % 2 = 1 THEN tokens[(k + 1) \div 2] ELSE Ch(",")]
Numbers(values) == Commas([k \in DOMAIN values |-> Num(values[k])])

\* "p0i=" and the like.
Key(area, k, prop) == <<Ch(area), Num(k - 1), Ch(prop), Ch("=")>>

Concat(seqs) == FlattenSeq(seqs)

-----------------------------------------------------------------------------
(***************************************************************************)
(* RequestGenerator: an action is [op, area], area "" when its name has no *)
(* underscore.                                                             *)
(***************************************************************************)
AreaLetter == [program |-> "p", data |-> "d", config |-> "c"]

TrimMetadata(meta, area) ==
  IF area = "" THEN meta
  ELSE [meta EXCEPT !.areas   = {AreaLetter[area]},
                    !.program = IF area = "program" THEN @ ELSE <<>>,
                    !.data    = IF area = "data"    THEN @ ELSE <<>>,
                    !.config  = IF area = "config"  THEN @ ELSE <<>>]

(***************************************************************************)
(* DataFormatter.formatRequest                                             *)
(***************************************************************************)
OperationLetter == [write |-> "p", read |-> "r", reset |-> "e"]

\* The newline comes after the last bank only: the key of a second bank
\* follows the values of the first on the same line.
BankTokens(area, metas, banks) ==
  Concat([k \in DOMAIN metas |->
    Key(area, k, "i") \o <<Num(metas[k].start), NL>> \o
    Key(area, k, "l") \o <<Num(metas[k].length), NL>> \o
    Key(area, k, "v") \o Numbers(banks[k])])

Flag(b) == <<Ch(IF b THEN "t" ELSE "f")>>

LocationTokens(metas, values) ==
  Concat([k \in DOMAIN metas |->
    Key("c", k, "a") \o <<Num(metas[k].addr), NL>> \o
    Key("c", k, "i") \o metas[k].name \o <<NL>> \o
    Key("c", k, "v") \o <<Num(values[k]), NL>> \o
    Key("c", k, "r") \o Flag(metas[k].read) \o <<NL>> \o
    Key("c", k, "w") \o Flag(metas[k].write) \o <<NL>>])

FormatRequest(meta, operation, buffer) ==
  <<Ch("o"), Ch("="), Ch(OperationLetter[operation]), NL>> \o
  <<Ch("a"), Ch("="), Ch("c"), Num(Len(meta.config)), Ch(","), Ch("p"),
    Num(Len(meta.program)), Ch(","), Ch("d"), Num(Len(meta.data)), NL>> \o
  <<Ch("v"), Ch("="), Ch("n"), NL>> \o
  <<Ch("e"), Ch("=")>> \o Numbers(meta.options) \o <<NL>> \o
  (IF "p" \in meta.areas
     THEN BankTokens("p", meta.program, buffer.program) \o <<NL>> ELSE <<>>) \o
  (IF "d" \in meta.areas
     THEN BankTokens("d", meta.data, buffer.data) \o <<NL>> ELSE <<>>) \o
  LocationTokens(meta.config, buffer.config)

-----------------------------------------------------------------------------
(***************************************************************************)
(* DataFormatter.parseResponse, on the lines of an answer.  A location     *)
(* that no line fills stays null.                                          *)
(***************************************************************************)
Null == -1

IsData(line) == line[1].ch \in {"p", "d", "c"}

ValuesOf(line) ==
  LET values == SelectSeq(SubSeq(line, 5, Len(line)), IsNum)
  IN [k \in DOMAIN values |-> values[k].num]

\* setLocations: an empty value and one value too many are exceptions.
Fits(bank, values) == values # <<>> /\ Len(values) <= Len(bank)
Fill(bank, values) ==
  [k \in DOMAIN bank |-> IF k \in DOMAIN values THEN values[k] ELSE bank[k]]

\* updateBanks: every 'i' line opens a bank, whatever its index says.
UpdateBanks(banks, line) ==
  LET prop   == line[3].ch
      values == ValuesOf(line)
  IN CASE prop = "i" -> Append(banks, <<>>)
       [] prop = "l" -> Append(Front(banks), [k \in 1 .. values[1] |-> Null])
       [] prop = "v" -> Append(Front(banks), Fill(Last(banks), values))
       [] OTHER      -> banks

\* Variant: values are stored by the order of all the lines of a location.
UpdateLocationsAnyLine(locations, line) ==
  IF ValuesOf(line) = <<>> THEN locations ELSE Append(locations, ValuesOf(line)[1])

UpdateLocations(locations, line) ==
  IF line[3].ch # "v" THEN locations ELSE Append(locations, ValuesOf(line)[1])

ParseLine(item, line) ==
  LET area  == line[1].ch
      banks == IF area = "p" THEN item.program ELSE item.data
      bad   == /\ area \in {"p", "d"} /\ line[3].ch = "v"
               /\ ~Fits(Last(banks), ValuesOf(line))
  IN CASE ~item.ok \/ ~IsData(line) -> item
       [] bad        -> [item EXCEPT !.ok = FALSE]
       [] area = "p" -> [item EXCEPT !.program = UpdateBanks(@, line)]
       [] area = "d" -> [item EXCEPT !.data = UpdateBanks(@, line)]
       [] OTHER      -> [item EXCEPT !.config = UpdateLocations(@, line)]

ParseResponse(lines) ==
  FoldLeft(ParseLine, [ok |-> TRUE, program |-> <<>>, data |-> <<>>, config |-> <<>>], lines)
=============================================================================
