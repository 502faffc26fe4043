---------------------------- MODULE SerialDriver ----------------------------
(***************************************************************************)
(* The serial line between execute_command and the chip, bit by bit: the   *)
(* drivers of both programmers (v1 wired to the port, v2 through the port  *)
(* adapter, which is a buffer whose direction C3 selects while C5 selects  *)
(* that of the port itself) and the chip's end of the line.                *)
(* Registers are written as the level they put on the line, so that the    *)
(* inversions of v1 (CLK_HIGH = 0, D0 = NOT data, S3 = NOT data) do not    *)
(* show.  Words are functions from bit numbers to 0..1.                    *)
(***************************************************************************)
EXTENDS Integers

CONSTANTS
  CommandSize, DataBits,  \* COMMAND_SIZE and READ_DATA_SIZE: 6 and 14
  Loads, Reads, Simples,  \* the command codes
  Words,                  \* the words that are loaded and read
  Adapters,               \* {FALSE} for v1, {TRUE} for v2
  NoWord, None

Bit == 0..1
Width == DataBits + 2     \* DATA_SIZE, and the bits of an unsigned short
Codes == Loads \union Reads \union Simples
ASSUME SizeAssumption == /\ CommandSize \in Nat \ {0} /\ DataBits \in Nat \ {0}
                         /\ CommandSize <= Width
                         /\ Adapters \subseteq BOOLEAN
ASSUME CodeAssumption ==
  /\ Codes \subseteq [0..(CommandSize - 1) -> Bit]
  /\ Words \subseteq [0..(DataBits - 1) -> Bit]
  /\ Loads \intersect Reads = {} /\ Loads \intersect Simples = {}
  /\ Reads \intersect Simples = {}
  /\ NoWord \notin Words /\ Words # {}
  /\ NoWord \notin [0..(Width - 1) -> Bit]
  /\ None \notin [code : Codes, word : Words \union {NoWord}]

VARIABLES
  adapter,      \* which of the two programmers this is; never changes
  at, i,        \* place in the driver, and its loop counter
  code, word,   \* arguments of execute_command
  frame,        \* "command" or "data": the call of write_serial_data
  shift,        \* data in write_serial_data
  reg,          \* data in read_serial_data
  result,       \* what execute_command returned
  d, clk,       \* data latch of the port, clock line
  c3, c5,       \* TRUE: the adapter drives the chip's side; the port is an input
  chip,         \* the chip's end: phase, edges counted, bits taken in, command
                \* and frame it sends
  performed     \* what the chip did since execute_command was called (history)
args == <<adapter, code, word>>
driver == <<args, i, frame, shift, reg, result>>
lines == <<d, clk, c3, c5>>
vars == <<at, driver, lines, chip, performed>>

\* Where the driver is outside execute_command.
Resting == {"init3", "init5", "resetData", "resetClk", "idle", "released"}

Zeros == [k \in 0..(Width - 1) |-> 0]
ShiftIn(r, b) == [k \in 0..(Width - 1) |-> IF k = Width - 1 THEN b ELSE r[k + 1]]
CommandFrame(c) == [k \in 0..(Width - 1) |-> IF k < CommandSize THEN c[k] ELSE 0]
\* Variant: the word is sent without its start bit.
DataFrameUnshifted(w) == [k \in 0..(Width - 1) |-> IF k < DataBits THEN w[k] ELSE 0]
\* (dato << 1) & 0x7FFE: a start bit, the word, a stop bit.
DataFrame(w) == [k \in 0..(Width - 1) |-> IF k \in 1..DataBits THEN w[k - 1] ELSE 0]
\* The word within a frame.
Payload(r) == [k \in 0..(DataBits - 1) |-> r[k + 1]]
\* (data & 0x7FFF) >> 1 in v1; v2 does not mask the stop bit, and returns
\* data >> 1, fifteen bits.
Returned(r) == [k \in 0..(Width - 1) |->
                  IF k < DataBits \/ (adapter /\ k = DataBits) THEN r[k + 1] ELSE 0]

Listening == [phase |-> "command", n |-> 0, bits |-> Zeros, code |-> None, out |-> Zeros]

FrameBits == IF frame = "command" THEN CommandSize ELSE Width

Init ==
  /\ adapter \in Adapters
  /\ at = "init3" /\ i = 0 /\ code = None /\ word = NoWord
  /\ frame = "command" /\ shift = Zeros /\ reg = Zeros /\ result = NoWord
  /\ d \in Bit /\ clk \in Bit /\ c3 \in BOOLEAN /\ c5 \in BOOLEAN
  /\ chip = Listening
  /\ performed = None

-----------------------------------------------------------------------------
(* The chip (external).  It takes a bit in on each falling edge.  In a     *)
(* read it drives the line from the second rising edge to the sixteenth.   *)

Drives == chip.phase = "read" /\ chip.n \in 2..(DataBits + 1)

\* The levels the chip's side of the line may have.  The wiring of v1 lets the
\* chip override the port; a line that nobody drives has any level.
ChipLevels == IF Drives THEN {chip.out[chip.n - 1]}
              ELSE IF ~adapter \/ (c3 /\ ~c5) THEN {d} ELSE Bit
\* The levels the port may read: its own latch when it is an output.
PortLevels == IF ~adapter THEN ChipLevels
              ELSE IF ~c5 THEN {d} ELSE IF c3 THEN Bit ELSE ChipLevels

\* What the chip sends in a read: a start bit, its word, a stop bit.
ChipFrame(w) == [k \in 0..(Width - 1) |-> IF k \in 1..DataBits THEN w[k - 1] ELSE 0]

TakeIn(b) == [chip.bits EXCEPT ![chip.n] = b]

\* The last bit of a command arrived: b completes it.
Decode(b) ==
  LET c == [k \in 0..(CommandSize - 1) |-> TakeIn(b)[k]] IN
  \/ /\ c \in Reads
     /\ \E w \in Words :
          /\ chip' = [Listening EXCEPT !.phase = "read", !.code = c, !.out = ChipFrame(w)]
          /\ performed' = [code |-> c, word |-> w]
  \/ /\ c \in Loads
     /\ chip' = [Listening EXCEPT !.phase = "load", !.code = c]
     /\ UNCHANGED performed
  \/ /\ c \notin Reads \union Loads
     /\ chip' = Listening
     /\ performed' = [code |-> c, word |-> NoWord]

ClockRises ==
  /\ clk' = 1
  /\ IF clk = 0 /\ chip.phase = "read"
       THEN chip' = [chip EXCEPT !.n = @ + 1] ELSE UNCHANGED chip
  /\ UNCHANGED performed

ClockFalls ==
  /\ clk' = 0
  /\ IF clk = 0 THEN UNCHANGED <<chip, performed>>
     ELSE \/ /\ chip.phase \in {"command", "load"}
             /\ chip.n + 1 < (IF chip.phase = "command" THEN CommandSize ELSE Width)
             /\ \E b \in ChipLevels : chip' = [chip EXCEPT !.n = @ + 1, !.bits = TakeIn(b)]
             /\ UNCHANGED performed
          \/ /\ chip.phase = "command" /\ chip.n + 1 = CommandSize
             /\ \E b \in ChipLevels : Decode(b)
          \/ /\ chip.phase = "load" /\ chip.n + 1 = Width
             /\ \E b \in ChipLevels :
                  performed' = [code |-> chip.code, word |-> Payload(TakeIn(b))]
             /\ chip' = Listening
          \/ /\ chip.phase = "read"
             /\ chip' = IF chip.n = Width THEN Listening ELSE chip
             /\ UNCHANGED performed

-----------------------------------------------------------------------------
(* init_driver: set_write_mode_adaptador (v1 leaves C3 alone), then the    *)
(* data and clock lines of reset_device, which init_driver calls in v2 and *)
(* reset_programmer in v1.  The supply lines are in ProgramPic16f; the     *)
(* chip has no power yet, so that it sees none of these edges.             *)
InitC3 == /\ at = "init3"
          /\ at' = "init5"
          /\ IF adapter THEN c3' = TRUE ELSE UNCHANGED c3
          /\ UNCHANGED <<driver, d, clk, c5, chip, performed>>
InitC5 == /\ at = "init5"
          /\ at' = "resetData"
          /\ c5' = FALSE
          /\ UNCHANGED <<driver, d, clk, c3, chip, performed>>
ResetData == /\ at = "resetData"
             /\ at' = "resetClk"
             /\ d' = 0
             /\ UNCHANGED <<driver, clk, c3, c5, chip, performed>>
ResetClk == /\ at = "resetClk"
            /\ at' = "idle"
            /\ clk' = 0
            /\ UNCHANGED <<driver, d, c3, c5, chip, performed>>

(* v1 gives the port back after the reset and after every task, and takes  *)
(* it again for the next one, without a reset; v2 keeps it until it exits. *)
Release == /\ at = "idle" /\ ~adapter
           /\ at' = "released"
           /\ c5' = FALSE
           /\ UNCHANGED <<driver, d, clk, c3, chip, performed>>
Reopen == /\ at = "released"
          /\ at' = "idle"
          /\ c5' = FALSE
          /\ UNCHANGED <<driver, d, clk, c3, chip, performed>>

(* execute_command is called; write_serial_data of the command.            *)
Start(c, w) ==
  /\ at = "idle"
  /\ code' = c /\ word' = w /\ result' = NoWord /\ performed' = None
  /\ frame' = "command" /\ shift' = CommandFrame(c) /\ i' = 0
  /\ at' = "bit"
  /\ UNCHANGED <<adapter, reg, lines, chip>>

StartAny == \/ \E c \in Loads, w \in Words : Start(c, w)
            \/ \E c \in Reads \union Simples : Start(c, NoWord)

(* write_serial_data: set_data, rise_clk, set_data (the same bit again)    *)
(* and fall_clk for each bit, then set_data( 0).                           *)
WriteBit == /\ at = "bit"
            /\ d' = shift[0]
            /\ at' = "rise"
            /\ UNCHANGED <<driver, clk, c3, c5, chip, performed>>
WriteRise == /\ at = "rise"
             /\ ClockRises
             /\ at' = "fall"
             /\ UNCHANGED <<driver, d, c3, c5>>
WriteFall == /\ at = "fall"
             /\ ClockFalls
             /\ shift' = ShiftIn(shift, 0)
             /\ i' = i + 1
             /\ at' = IF i + 1 < FrameBits THEN "bit" ELSE "written"
             /\ UNCHANGED <<args, frame, reg, result, d, c3, c5>>

\* The rest of execute_command depends on the kind of the command.
Written ==
  /\ at = "written"
  /\ d' = 0
  /\ \/ /\ frame = "command" /\ code \in Loads
        /\ frame' = "data" /\ shift' = DataFrame(word) /\ i' = 0 /\ at' = "bit"
        /\ UNCHANGED reg
     \/ /\ frame = "command" /\ code \in Reads
        /\ reg' = Zeros /\ i' = 0 /\ at' = "readRise"
        /\ UNCHANGED <<frame, shift>>
     \/ /\ frame = "data" \/ code \in Simples
        /\ at' = "idle"
        /\ UNCHANGED <<frame, shift, i, reg>>
  /\ UNCHANGED <<args, result, clk, c3, c5, chip, performed>>

(* read_serial_data: before the second bit the port becomes an input and   *)
(* the adapter turns round (start_read_mode).                              *)
\* Variant: the adapter turns round while the port still drives.
TurnToRead5Late == /\ at = "turn5"
                   /\ c3' = FALSE
                   /\ at' = "turn3"
                   /\ UNCHANGED <<driver, d, clk, c5, chip, performed>>
TurnToRead5 == /\ at = "turn5"
               /\ c5' = TRUE
               /\ at' = "turn3"
               /\ UNCHANGED <<driver, d, clk, c3, chip, performed>>
TurnToRead3 == /\ at = "turn3"
               /\ c3' = FALSE
               /\ at' = "readRise"
               /\ UNCHANGED <<driver, d, clk, c5, chip, performed>>

\* v1 samples while the clock is high, v2 after it fell; v2 turns the line back
\* before the last falling edge (end_read_mode).
ReadRise == /\ at = "readRise"
            /\ ClockRises
            /\ at' = IF ~adapter THEN "sample"
                     ELSE IF i = Width - 1 THEN "back3" ELSE "readFall"
            /\ UNCHANGED <<driver, d, c3, c5>>
TurnBack3 == /\ at = "back3"
             /\ c3' = TRUE
             /\ at' = "back5"
             /\ UNCHANGED <<driver, d, clk, c5, chip, performed>>
\* Variant: the port is left an input.
TurnBack5Forgotten == /\ at = "back5"
                      /\ at' = "readFall"
                      /\ UNCHANGED <<driver, lines, chip, performed>>
TurnBack5 == /\ at = "back5"
             /\ c5' = FALSE
             /\ at' = "readFall"
             /\ UNCHANGED <<driver, d, clk, c3, chip, performed>>

\* Variant: only the word is read, the stop bit is left in the chip.
NextBitShort == /\ i' = i + 1
                /\ at' = IF i + 1 = Width - 1 THEN "read"
                         ELSE IF adapter /\ i + 1 = 1 THEN "turn5" ELSE "readRise"
\* The head of the loop: the next bit, or the end of it.
NextBit == /\ i' = i + 1
           /\ at' = IF i + 1 = Width THEN "read"
                    ELSE IF adapter /\ i + 1 = 1 THEN "turn5" ELSE "readRise"

Sample == /\ at = "sample"
          /\ \E b \in PortLevels : reg' = ShiftIn(reg, b)
          /\ IF adapter THEN NextBit ELSE at' = "readFall" /\ UNCHANGED i
          /\ UNCHANGED <<args, frame, shift, result, lines, chip, performed>>
ReadFall == /\ at = "readFall"
            /\ ClockFalls
            /\ IF adapter THEN at' = "sample" /\ UNCHANGED i ELSE NextBit
            /\ UNCHANGED <<args, frame, shift, reg, result, d, c3, c5>>

ReadEnd == /\ at = "read"
           /\ d' = 0
           /\ result' = Returned(reg)
           /\ at' = "idle"
           /\ UNCHANGED <<args, i, frame, shift, reg, clk, c3, c5, chip, performed>>

Step == \/ InitC3 \/ InitC5 \/ ResetData \/ ResetClk
        \/ WriteBit \/ WriteRise \/ WriteFall \/ Written
        \/ TurnToRead5 \/ TurnToRead3 \/ ReadRise \/ TurnBack3 \/ TurnBack5
        \/ Sample \/ ReadFall \/ ReadEnd
Next == StartAny \/ Release \/ Reopen \/ Step
Spec == Init /\ [][Next]_vars /\ WF_vars(Step)

-----------------------------------------------------------------------------
\* The variables keep their types; the chip never counts past a frame.
TypeOK ==
  /\ adapter \in Adapters
  /\ at \in Resting \union
       {"bit", "rise", "fall", "written", "turn5", "turn3", "readRise", "back3", "back5",
        "sample", "readFall", "read"}
  /\ i \in 0..Width /\ code \in Codes \union {None} /\ word \in Words \union {NoWord}
  /\ frame \in {"command", "data"}
  /\ shift \in [0..(Width - 1) -> Bit] /\ reg \in [0..(Width - 1) -> Bit]
  /\ result \in [0..(Width - 1) -> Bit] \union {NoWord}
  /\ d \in Bit /\ clk \in Bit /\ c3 \in BOOLEAN /\ c5 \in BOOLEAN
  /\ chip \in [phase : {"command", "load", "read"}, n : 0..Width,
               bits : [0..(Width - 1) -> Bit], code : Codes \union {None},
               out : [0..(Width - 1) -> Bit]]

\* Port adapter (v2): once init_adaptador_pp is done, the port and the adapter
\* never drive the port's side together, nor the adapter and the chip the
\* chip's side, while the direction is changed twice in every read.
OneDriver ==
  adapter /\ at \notin {"init3", "init5"} => (c5 \/ c3) /\ ~(c3 /\ Drives)

\* read_serial_data samples a line that somebody drives, the start and stop
\* bits included.
LineDefined == at = "sample" => \E b \in Bit : PortLevels = {b}

\* Between commands the chip and the driver agree where a frame begins.
FramesInStep == at = "idle" => chip = Listening /\ clk = 0 /\ d = 0

AsWord(r) == LET same == {w \in Words : \A k \in 0..(Width - 1) :
                            r[k] = IF k < DataBits THEN w[k] ELSE 0}
             IN IF r = NoWord THEN NoWord
                ELSE IF same = {} THEN r ELSE CHOOSE w \in same : TRUE

Channel == INSTANCE CommandChannel WITH
  request <- IF at \in Resting THEN None
             ELSE [code |-> code, word |-> word],
  answer <- AsWord(result)

\* execute_command is one command of the abstract channel: the chip performs
\* exactly the command and word that were sent, and what a read returns is the
\* chip's word, with no stop bit on top; and execute_command returns.
ImplementsChannel == Channel!FairSpec
=============================================================================
