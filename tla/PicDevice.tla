----------------------------- MODULE PicDevice -----------------------------
(***************************************************************************)
(* The PIC16F/12F microcontroller sitting in the programmer's socket, as   *)
(* the host code of pic_programmer_v1 uses it: two supply lines, a program *)
(* counter that the commands move, a data latch and three memories.  The   *)
(* chip is not part of the repository; what a command does is read off the *)
(* names and the use of the commands in libs/driver_pic16f.h and           *)
(* modules/{program_pic16f,erase_device}.c.                                *)
(*                                                                         *)
(* A word is the set of its bits that read 1.  An erased word has all its  *)
(* bits set, and a "programming only" cycle can only clear bits.           *)
(***************************************************************************)
EXTENDS Integers, Sequences

CONSTANTS
  ProgSize,   \* implemented words of program memory
  DataSize,   \* implemented words of EEPROM data memory
  Bits        \* the bits of a memory word

ASSUME SizesAssumption == ProgSize \in Nat \ {0} /\ DataSize \in Nat \ {0}

Word   == SUBSET Bits
Erased == Bits

\* Configuration space: four ID words, two reserved, device id, config word.
CfgSize    == 8
ConfigWord == 7

ProgramImage == [0 .. ProgSize - 1 -> Word]
DataImage    == [0 .. DataSize - 1 -> Word]
ConfigImage  == [0 .. CfgSize - 1 -> Word]

Device ==
  [ vpp: BOOLEAN, vcc: BOOLEAN,                \* the two supply lines
    space: {"user", "config"}, pc: Nat,        \* where the next command acts
    latch: [mem: {"program", "data"}, word: Word],
    prog: ProgramImage, data: DataImage, cfg: ConfigImage ]

CommandNames ==
  {"loadConfig", "loadProgram", "loadData", "increment", "eraseProgramCycle",
   "programOnly", "endProgramming", "eraseProgram", "eraseData", "chipErase",
   "setup1", "setup7"}

Command == [cmd: CommandNames, word: Word]

\* A command that carries no data word, and one that does.
Simple(name)   == [cmd |-> name, word |-> {}]
Load(name, w)  == [cmd |-> name, word |-> w]

(***************************************************************************)
(* Power.  Raising VCC while VPP is up enters programming mode with the    *)
(* counter at 0 in user space; a line that is already up gives no edge.    *)
(***************************************************************************)
Listening(d) == d.vpp /\ d.vcc

VppUp(d)   == [d EXCEPT !.vpp = TRUE]
VppDown(d) == [d EXCEPT !.vpp = FALSE]
VccDown(d) == [d EXCEPT !.vcc = FALSE]
VccUp(d)   == IF d.vcc THEN d
              ELSE [d EXCEPT !.vcc = TRUE, !.pc = 0, !.space = "user"]

(***************************************************************************)
(* What the memory under the counter becomes when a programming cycle      *)
(* burns the latch into it.                                                *)
(***************************************************************************)
Burnt(old, new, only) == IF only THEN old \cap new ELSE new

Addressed(d) == IF d.latch.mem = "data" THEN "data"
                ELSE IF d.space = "config" THEN "cfg" ELSE "prog"

Burn(d, only) ==
  CASE Addressed(d) = "data" /\ d.pc \in 0 .. DataSize - 1 ->
         [d EXCEPT !.data[d.pc] = Burnt(@, d.latch.word, only)]
    [] Addressed(d) = "cfg"  /\ d.pc \in 0 .. CfgSize - 1 ->
         [d EXCEPT !.cfg[d.pc] = Burnt(@, d.latch.word, only)]
    [] Addressed(d) = "prog" /\ d.pc \in 0 .. ProgSize - 1 ->
         [d EXCEPT !.prog[d.pc] = Burnt(@, d.latch.word, only)]
    [] OTHER -> d

AllErased(image) == [a \in DOMAIN image |-> Erased]

\* 0x09 acts on program memory, and on configuration memory as well when
\* the counter is in configuration space.
EraseProgram(d) ==
  [d EXCEPT !.prog = AllErased(@),
            !.cfg  = IF d.space = "config" THEN AllErased(@) ELSE @]

EraseData(d) == [d EXCEPT !.data = AllErased(@)]

ChipErase(d) ==
  [d EXCEPT !.prog = AllErased(@), !.data = AllErased(@), !.cfg = AllErased(@)]

(***************************************************************************)
(* The device after one command.  A device that is not in programming mode *)
(* does not see it.  The setup commands 0x01/0x07 and "end programming"    *)
(* change none of the modelled state.                                      *)
(***************************************************************************)
Obey(d, c) ==
  CASE c.cmd = "loadConfig"  -> [d EXCEPT !.space = "config", !.pc = 0,
                                          !.latch = [mem |-> "program", word |-> c.word]]
    [] c.cmd = "loadProgram" -> [d EXCEPT !.latch = [mem |-> "program", word |-> c.word]]
    [] c.cmd = "loadData"    -> [d EXCEPT !.latch = [mem |-> "data", word |-> c.word]]
    [] c.cmd = "increment"   -> [d EXCEPT !.pc = @ + 1]
    [] c.cmd = "eraseProgramCycle" -> Burn(d, FALSE)
    [] c.cmd = "programOnly"       -> Burn(d, TRUE)
    [] c.cmd = "eraseProgram"      -> EraseProgram(d)
    [] c.cmd = "eraseData"         -> EraseData(d)
    [] c.cmd = "chipErase"         -> ChipErase(d)
    [] OTHER -> d

Execute(d, c) == IF Listening(d) THEN Obey(d, c) ELSE d

\* What the two read commands return: the word under the counter.
Unknown == CHOOSE w \in Word : TRUE

ReadProgram(d) ==
  CASE Listening(d) /\ d.space = "config" /\ d.pc \in 0 .. CfgSize - 1  -> d.cfg[d.pc]
    [] Listening(d) /\ d.space = "user"   /\ d.pc \in 0 .. ProgSize - 1 -> d.prog[d.pc]
    [] OTHER -> Unknown

ReadData(d) == IF Listening(d) /\ d.pc \in 0 .. DataSize - 1 THEN d.data[d.pc] ELSE Unknown
=============================================================================
