--------------------------- MODULE MCProgramPic16f ---------------------------
(***************************************************************************)
(* Instance of ProgramPic16f: two words of each memory, one bit a word.    *)
(***************************************************************************)
EXTENDS ProgramPic16fService, TLC

CONSTANT b   \* the one bit of a word

MCBits == {b}

On  == {b}
Off == {}

Seq2(x, y) == (0 :> x) @@ (1 :> y)

Config(w) == [a \in 0 .. CfgSize - 1 |-> IF a = ConfigWord THEN w ELSE On]

\* The request of the GUI for a whole device: the metadata lists all areas
\* and the reserved locations 4 and 5 cannot be read.
Whole(o, pType, eType, dType) ==
  [ op |-> o, areas |-> Areas, banks |-> Areas, voltages |-> 1,
    programmingType |-> pType, bulkEraseType |-> eType,
    protectDsblType |-> dType, protectDsblData |-> On,
    program |-> Seq2(Off, On), data |-> Seq2(On, Off), config |-> Config(Off),
    readable |-> {0, 1, 2, 3, 6, 7} ]

\* The request of the GUI for one area: the letters stay, the banks go.
OnlyProgram(o, pType, eType) ==
  [Whole(o, pType, eType, 1) EXCEPT !.banks = {"p"}, !.data = <<>>, !.config = <<>>]
OnlyData(o, pType, eType) ==
  [Whole(o, pType, eType, 1) EXCEPT !.banks = {"d"}, !.program = <<>>, !.config = <<>>]

\* A client of the port that lists one letter only, so that nothing is erased.
JustProgram(pType) ==
  [OnlyProgram("p", pType, 1) EXCEPT !.areas = {"p"}]

MCImages ==
  { [prog |-> Seq2(x, y), data |-> Seq2(y, x), cfg |-> Config(z)] :
      x \in {On, Off}, y \in {On, Off}, z \in {On, Off} }

MCRequests ==
  { Whole("r", 0, 1, 1), Whole("p", 0, 1, 1),
    [Whole("p", 1, 2, 3) EXCEPT !.voltages = 2],
    Whole("e", 1, 2, 1), Whole("e", 1, 2, 2), Whole("e", 1, 2, 3),
    Whole("invalid", 0, 1, 1), Whole("p", 1, 3, 1),
    JustProgram(0), JustProgram(1), OnlyProgram("p", 1, 2), OnlyData("r", 0, 1) }

\* The runs about single findings.  A write_program request to a device with data
\* in its data memory and nothing in its configuration word: the first change
\* outside of the program memory is one of the data memory.
TrimmedRequests == { OnlyProgram("p", 1, 2) }
DataInUse == { m \in MCImages : m.data # Seq2(On, On) /\ m.cfg = Config(On) }

\* A reset of a device whose code protection is of type 1.
ResetRequests == { Whole("e", 0, 1, 1) }
=============================================================================
