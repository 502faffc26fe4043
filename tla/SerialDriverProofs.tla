------------------------- MODULE SerialDriverProofs -------------------------
(***************************************************************************)
(* The safety of the serial line for every frame size, every set of        *)
(* command codes and both drivers.  The invariant follows the chip's end   *)
(* of the line edge by edge: how many edges it counted at each place of    *)
(* the driver, which bits it took in, and the direction of the adapter.    *)
(***************************************************************************)
EXTENDS SerialDriver, TLAPS

Frames == [0..(Width - 1) -> Bit]

\* The arguments of execute_command, and which frame it is at.
CallInv ==
  /\ at \notin Resting => code \in Codes
  /\ at \in {"bit", "rise", "fall", "written"} /\ frame = "data" => code \in Loads
  /\ at \in {"bit", "rise", "fall", "written"} /\ code \in Loads => word \in Words
  /\ at \in {"turn5", "turn3", "readRise", "back3", "back5", "sample", "readFall", "read"}
       => code \in Reads /\ frame = "command"

\* While a frame is written the chip counted as many bits as the driver, took
\* in those of the command, and the rest of it is still to be sent.
WriteInv ==
  at \in {"bit", "rise", "fall"} =>
    /\ i \in 0..(FrameBits - 1) /\ chip.n = i
    /\ clk = IF at = "fall" THEN 1 ELSE 0
    /\ chip.phase = IF frame = "command" THEN "command" ELSE "load"
    /\ frame = "command" =>
         /\ \A k \in 0..(CommandSize - 1) : k < i => chip.bits[k] = code[k]
         /\ \A k \in 0..(CommandSize - 1) : i + k < CommandSize => shift[k] = code[i + k]
    /\ at \in {"rise", "fall"} => d = shift[0]

\* When a frame is complete the chip is ready for what comes next.
WrittenInv ==
  at = "written" =>
    /\ clk = 0
    /\ frame = "command" /\ code \in Loads => chip.phase = "load" /\ chip.n = 0
    /\ frame = "command" /\ code \in Reads => chip.phase = "read" /\ chip.n = 0
    /\ frame = "data" \/ code \in Simples => chip = Listening

\* While a word is read the chip counts the rising edges of the driver.
ReadInv ==
  /\ at \in {"turn5", "turn3", "readRise"} =>
       clk = 0 /\ chip.phase = "read" /\ chip.n = i /\ i \in 0..(Width - 1)
  /\ at \in {"back3", "back5", "readFall"} =>
       clk = 1 /\ chip.phase = "read" /\ chip.n = i + 1 /\ i \in 0..(Width - 1)
  /\ at = "sample" =>
       /\ i \in 0..(Width - 1)
       /\ ~adapter => clk = 1 /\ chip.phase = "read" /\ chip.n = i + 1
       /\ adapter => /\ clk = 0
                     /\ i < Width - 1 => chip.phase = "read" /\ chip.n = i + 1
                     /\ i = Width - 1 => chip = Listening
  /\ at \in {"turn5", "turn3"} => adapter /\ i = 1
  /\ at \in {"back3", "back5"} => adapter /\ i = Width - 1
  /\ at = "read" => clk = 0 /\ chip = Listening

\* Between commands nothing is under way.
RestInv ==
  /\ at \in Resting => chip = Listening
  /\ at \in {"resetClk", "idle", "released"} => d = 0
  /\ at \in {"idle", "released"} => clk = 0
  /\ at = "released" => ~adapter

\* The adapter's direction at each place of the driver.
DirectionInv ==
  adapter =>
    /\ at \in {"init5", "resetData", "resetClk", "idle", "bit", "rise", "fall", "written",
               "turn5", "turn3", "back5", "read"} => c3
    /\ at \in {"resetData", "resetClk", "idle", "bit", "rise", "fall", "written", "turn5",
               "read"} => ~c5
    /\ at \in {"turn3", "back3", "back5"} => c5
    /\ at = "back3" => ~c3
    /\ at = "readRise" /\ i = 0 => c3 /\ ~c5
    /\ at = "readRise" /\ i # 0 => ~c3 /\ c5
    /\ at \in {"sample", "readFall"} =>
         /\ i \in {0, Width - 1} => c3 /\ ~c5
         /\ i \notin {0, Width - 1} => ~c3 /\ c5

LineInv == TypeOK /\ CallInv /\ WriteInv /\ WrittenInv /\ ReadInv /\ RestInv /\ DirectionInv

-----------------------------------------------------------------------------
(* The words on the line. *)

LEMMA Sizes == /\ CommandSize \in Nat \ {0} /\ DataBits \in Nat \ {0} /\ Width \in Nat
               /\ Width = DataBits + 2 /\ Width >= 3 /\ CommandSize <= Width
  BY SizeAssumption DEF Width

LEMMA BitValues == 0 \in Bit /\ 1 \in Bit
  BY DEF Bit

LEMMA ZerosType == Zeros \in Frames
  BY DEF Zeros, Frames, Bit

LEMMA ShiftInType ==
  ASSUME NEW r \in Frames, NEW b \in Bit
  PROVE  /\ ShiftIn(r, b) \in Frames
         /\ \A k \in 0..(Width - 2) : ShiftIn(r, b)[k] = r[k + 1]
<1>1. \A k \in 0..(Width - 1) : (IF k = Width - 1 THEN b ELSE r[k + 1]) \in Bit
  BY Sizes DEF Frames
<1>2. ShiftIn(r, b) \in Frames
  BY <1>1 DEF ShiftIn, Frames
<1>3. \A k \in 0..(Width - 2) : k \in 0..(Width - 1) /\ k # Width - 1
  BY Sizes
<1>4. QED
  BY <1>2, <1>3 DEF ShiftIn

LEMMA CommandFrameType ==
  ASSUME NEW c \in Codes
  PROVE  /\ CommandFrame(c) \in Frames
         /\ \A k \in 0..(CommandSize - 1) : CommandFrame(c)[k] = c[k]
<1>1. c \in [0..(CommandSize - 1) -> Bit]
  BY CodeAssumption
<1>2. \A k \in 0..(Width - 1) : (IF k < CommandSize THEN c[k] ELSE 0) \in Bit
  BY <1>1, Sizes DEF Bit
<1>3. CommandFrame(c) \in Frames
  BY <1>2 DEF CommandFrame, Frames
<1>4. \A k \in 0..(CommandSize - 1) : k \in 0..(Width - 1) /\ k < CommandSize
  BY Sizes
<1>5. QED
  BY <1>3, <1>4 DEF CommandFrame

LEMMA DataFrameType ==
  ASSUME NEW w \in Words
  PROVE  DataFrame(w) \in Frames /\ ChipFrame(w) \in Frames
<1>1. w \in [0..(DataBits - 1) -> Bit]
  BY CodeAssumption
<1>2. \A k \in 0..(Width - 1) : (IF k \in 1..DataBits THEN w[k - 1] ELSE 0) \in Bit
  BY <1>1, Sizes DEF Bit
<1>3. QED
  BY <1>2 DEF DataFrame, ChipFrame, Frames

LEMMA ReturnedType ==
  ASSUME NEW r \in Frames
  PROVE  Returned(r) \in Frames
<1>1. \A k \in 0..(Width - 1) :
        (IF k < DataBits \/ (adapter /\ k = DataBits) THEN r[k + 1] ELSE 0) \in Bit
  BY Sizes DEF Frames, Bit
<1>2. QED
  BY <1>1 DEF Returned, Frames

LEMMA ListeningType ==
  /\ Listening \in [phase : {"command", "load", "read"}, n : 0..Width, bits : Frames,
                    code : Codes \union {None}, out : Frames]
  /\ Listening.phase = "command" /\ Listening.n = 0
  BY Sizes, ZerosType DEF Listening

\* The bits the driver sends reach the chip when the line is the driver's.
LEMMA LevelType == TypeOK => ChipLevels \subseteq Bit /\ PortLevels \subseteq Bit
<1>1. SUFFICES ASSUME TypeOK PROVE ChipLevels \subseteq Bit /\ PortLevels \subseteq Bit
  OBVIOUS
<1>2. Drives => chip.out[chip.n - 1] \in Bit
  BY <1>1, Sizes DEF TypeOK, Drives, Resting
<1>3. QED
  BY <1>1, <1>2 DEF ChipLevels, PortLevels, TypeOK, Resting

LEMMA DriverLevel ==
  ASSUME TypeOK, DirectionInv, at \in {"fall"}, chip.phase # "read"
  PROVE  ChipLevels = {d}
  BY DEF ChipLevels, Drives, DirectionInv, TypeOK, Resting

-----------------------------------------------------------------------------
(* The edges, seen from the chip. *)

Chips == [phase : {"command", "load", "read"}, n : 0..Width, bits : Frames,
          code : Codes \union {None}, out : Frames]

LEMMA ChipRises ==
  ASSUME chip \in Chips, ClockRises, clk = 0, chip.n < Width
  PROVE  /\ chip' \in Chips /\ clk' = 1
         /\ chip.phase = "read" => chip'.phase = "read" /\ chip'.n = chip.n + 1
         /\ chip.phase # "read" => chip' = chip
<1>1. clk' = 1 /\ chip' = IF chip.phase = "read" THEN [chip EXCEPT !.n = @ + 1] ELSE chip
  BY DEF ClockRises
<1>2. chip.n + 1 \in 0..Width
  BY Sizes DEF Chips
<1>3. QED
  BY <1>1, <1>2 DEF Chips

LEMMA ChipTakesBit ==
  ASSUME chip \in Chips, d \in Bit, ClockFalls, clk = 1, ChipLevels = {d},
         chip.phase \in {"command", "load"},
         chip.n + 1 < IF chip.phase = "command" THEN CommandSize ELSE Width
  PROVE  /\ chip' \in Chips /\ clk' = 0
         /\ chip'.phase = chip.phase /\ chip'.n = chip.n + 1
         /\ chip'.bits = [chip.bits EXCEPT ![chip.n] = d]
<1>1. chip' = [chip EXCEPT !.n = @ + 1, !.bits = TakeIn(d)] /\ clk' = 0
  BY Sizes DEF ClockFalls, Chips
<1>2. chip.n \in 0..(Width - 1) /\ chip.n + 1 \in 0..Width
  BY Sizes DEF Chips
<1>3. TakeIn(d) \in Frames
  BY <1>2 DEF TakeIn, Chips, Frames
<1>4. QED
  BY <1>1, <1>2, <1>3 DEF Chips, TakeIn

LEMMA ChipTakesCommand ==
  ASSUME chip \in Chips, d \in Bit, ClockFalls, clk = 1, ChipLevels = {d},
         chip.phase = "command", chip.n + 1 = CommandSize, code \in Codes,
         \A k \in 0..(CommandSize - 1) : TakeIn(d)[k] = code[k]
  PROVE  /\ chip' \in Chips /\ clk' = 0
         /\ code \in Loads => chip'.phase = "load" /\ chip'.n = 0
         /\ code \in Reads => chip'.phase = "read" /\ chip'.n = 0
         /\ code \in Simples => chip' = Listening
<1> DEFINE c == [k \in 0..(CommandSize - 1) |-> TakeIn(d)[k]]
<1>1. code \in [0..(CommandSize - 1) -> Bit]
  BY CodeAssumption
<1>2. c = code
  BY <1>1
<1>3. Decode(d) /\ clk' = 0
  BY Sizes DEF ClockFalls, Chips
<1>4. \/ /\ code \in Reads
         /\ \E w \in Words :
              chip' = [Listening EXCEPT !.phase = "read", !.code = code, !.out = ChipFrame(w)]
      \/ code \in Loads /\ chip' = [Listening EXCEPT !.phase = "load", !.code = code]
      \/ code \notin Reads \union Loads /\ chip' = Listening
  BY <1>2, <1>3 DEF Decode
<1>5. \A w \in Words : ChipFrame(w) \in Frames
  BY DataFrameType
<1> HIDE DEF c
<1>6. Listening \in Chips /\ Listening.n = 0
  BY ListeningType DEF Chips
<1>7. ASSUME code \in Reads
      PROVE  chip' \in Chips /\ chip'.phase = "read" /\ chip'.n = 0
  <2>1. PICK w \in Words :
          chip' = [Listening EXCEPT !.phase = "read", !.code = code, !.out = ChipFrame(w)]
    BY <1>4, <1>7, CodeAssumption
  <2>2. ChipFrame(w) \in Frames
    BY <1>5
  <2>3. QED
    BY <1>6, <2>1, <2>2 DEF Chips
<1>8. ASSUME code \in Loads
      PROVE  chip' \in Chips /\ chip'.phase = "load" /\ chip'.n = 0
  <2>1. chip' = [Listening EXCEPT !.phase = "load", !.code = code]
    BY <1>4, <1>8, CodeAssumption
  <2>2. QED
    BY <1>6, <2>1 DEF Chips
<1>9. ASSUME code \in Simples
      PROVE  chip' = Listening
  BY <1>4, <1>9, CodeAssumption
<1>10. QED
  BY <1>3, <1>6, <1>7, <1>8, <1>9 DEF Codes

LEMMA ChipTakesWord ==
  ASSUME chip \in Chips, ClockFalls, clk = 1, chip.phase = "load", chip.n + 1 = Width
  PROVE  chip' = Listening /\ clk' = 0
<1>1. chip.phase # "command" /\ chip.phase # "read" /\ ~(chip.n + 1 < Width)
  BY Sizes DEF Chips
<1>2. clk # 0 /\ (IF chip.phase = "command" THEN CommandSize ELSE Width) = Width
  BY <1>1
<1>3. QED
  BY <1>1, <1>2, Zenon DEF ClockFalls

LEMMA ChipSendsBit ==
  ASSUME chip \in Chips, ClockFalls, clk = 1, chip.phase = "read"
  PROVE  clk' = 0 /\ chip' = IF chip.n = Width THEN Listening ELSE chip
  BY DEF ClockFalls, Chips

-----------------------------------------------------------------------------
(* The invariant holds initially and each step keeps it. *)

LEMMA LineInit == Init => LineInv
<1>1. SUFFICES ASSUME Init PROVE LineInv
  OBVIOUS
<1>2. TypeOK
  BY <1>1, Sizes, ZerosType, ListeningType DEF Init, TypeOK, Frames, Bit, Resting
<1>3. NoWord \notin Words /\ at = "init3"
  BY <1>1, CodeAssumption DEF Init
<1>4. QED
  BY <1>1, <1>2, <1>3
  DEF Init, LineInv, CallInv, WriteInv, WrittenInv, ReadInv, RestInv, DirectionInv,
      Resting

LEMMA InitC3Keeps == LineInv /\ InitC3 => LineInv'
<1>1. SUFFICES ASSUME LineInv, InitC3 PROVE LineInv'
  OBVIOUS
<1>2. TypeOK'
  BY <1>1, Sizes DEF LineInv, InitC3, TypeOK, driver, args, lines, Bit, Resting
<1>3. (CallInv /\ WriteInv /\ WrittenInv)'
  BY <1>1, Sizes
  DEF LineInv, InitC3, CallInv, WriteInv, WrittenInv, driver, args, lines, FrameBits,
      Resting
<1>4. (ReadInv /\ RestInv /\ DirectionInv)'
  BY <1>1, Sizes
  DEF LineInv, InitC3, TypeOK, CallInv, ReadInv, RestInv, DirectionInv, driver, args,
      lines, Resting
<1>5. QED
  BY <1>2, <1>3, <1>4 DEF LineInv

LEMMA TurnToRead5Keeps == LineInv /\ TurnToRead5 => LineInv'
<1>1. SUFFICES ASSUME LineInv, TurnToRead5 PROVE LineInv'
  OBVIOUS
<1>2. TypeOK'
  BY <1>1, Sizes DEF LineInv, TurnToRead5, TypeOK, driver, args, lines, Bit, Resting
<1>3. (CallInv /\ WriteInv /\ WrittenInv)'
  BY <1>1, Sizes
  DEF LineInv, TurnToRead5, CallInv, WriteInv, WrittenInv, driver, args, lines, FrameBits,
      Resting
<1>4. (ReadInv /\ RestInv /\ DirectionInv)'
  BY <1>1, Sizes
  DEF LineInv, TurnToRead5, TypeOK, CallInv, ReadInv, RestInv, DirectionInv, driver, args,
      lines, Resting
<1>5. QED
  BY <1>2, <1>3, <1>4 DEF LineInv

LEMMA TurnToRead3Keeps == LineInv /\ TurnToRead3 => LineInv'
<1>1. SUFFICES ASSUME LineInv, TurnToRead3 PROVE LineInv'
  OBVIOUS
<1>2. TypeOK'
  BY <1>1, Sizes DEF LineInv, TurnToRead3, TypeOK, driver, args, lines, Bit, Resting
<1>3. (CallInv /\ WriteInv /\ WrittenInv)'
  BY <1>1, Sizes
  DEF LineInv, TurnToRead3, CallInv, WriteInv, WrittenInv, driver, args, lines, FrameBits,
      Resting
<1>4. (ReadInv /\ RestInv /\ DirectionInv)'
  BY <1>1, Sizes
  DEF LineInv, TurnToRead3, TypeOK, CallInv, ReadInv, RestInv, DirectionInv, driver, args,
      lines, Resting
<1>5. QED
  BY <1>2, <1>3, <1>4 DEF LineInv

LEMMA TurnBack3Keeps == LineInv /\ TurnBack3 => LineInv'
<1>1. SUFFICES ASSUME LineInv, TurnBack3 PROVE LineInv'
  OBVIOUS
<1>2. TypeOK'
  BY <1>1, Sizes DEF LineInv, TurnBack3, TypeOK, driver, args, lines, Bit, Resting
<1>3. (CallInv /\ WriteInv /\ WrittenInv)'
  BY <1>1, Sizes
  DEF LineInv, TurnBack3, CallInv, WriteInv, WrittenInv, driver, args, lines, FrameBits,
      Resting
<1>4. (ReadInv /\ RestInv /\ DirectionInv)'
  BY <1>1, Sizes
  DEF LineInv, TurnBack3, TypeOK, CallInv, ReadInv, RestInv, DirectionInv, driver, args,
      lines, Resting
<1>5. QED
  BY <1>2, <1>3, <1>4 DEF LineInv

LEMMA TurnBack5Keeps == LineInv /\ TurnBack5 => LineInv'
<1>1. SUFFICES ASSUME LineInv, TurnBack5 PROVE LineInv'
  OBVIOUS
<1>2. TypeOK'
  BY <1>1, Sizes DEF LineInv, TurnBack5, TypeOK, driver, args, lines, Bit, Resting
<1>3. (CallInv /\ WriteInv /\ WrittenInv)'
  BY <1>1, Sizes
  DEF LineInv, TurnBack5, CallInv, WriteInv, WrittenInv, driver, args, lines, FrameBits,
      Resting
<1>4. (ReadInv /\ RestInv /\ DirectionInv)'
  BY <1>1, Sizes
  DEF LineInv, TurnBack5, TypeOK, CallInv, ReadInv, RestInv, DirectionInv, driver, args,
      lines, Resting
<1>5. QED
  BY <1>2, <1>3, <1>4 DEF LineInv

LEMMA InitC5Keeps == LineInv /\ InitC5 => LineInv'
<1>1. SUFFICES ASSUME LineInv, InitC5 PROVE LineInv'
  OBVIOUS
<1>2. TypeOK'
  BY <1>1, BitValues DEF LineInv, InitC5, TypeOK, driver, args, Resting
<1>3. (CallInv /\ WriteInv /\ WrittenInv)'
  BY <1>1, Sizes
  DEF LineInv, InitC5, CallInv, WriteInv, WrittenInv, driver, args, lines, FrameBits,
      Resting
<1>4. (ReadInv /\ RestInv /\ DirectionInv)'
  BY <1>1, Sizes
  DEF LineInv, InitC5, TypeOK, CallInv, ReadInv, RestInv, DirectionInv, driver, args,
      lines, Resting
<1>5. QED
  BY <1>2, <1>3, <1>4 DEF LineInv

LEMMA ReleaseKeeps == LineInv /\ Release => LineInv'
<1>1. SUFFICES ASSUME LineInv, Release PROVE LineInv'
  OBVIOUS
<1>2. TypeOK'
  BY <1>1, BitValues DEF LineInv, Release, TypeOK, driver, args, Resting
<1>3. (CallInv /\ WriteInv /\ WrittenInv)'
  BY <1>1, Sizes
  DEF LineInv, Release, CallInv, WriteInv, WrittenInv, driver, args, lines, FrameBits,
      Resting
<1>4. (ReadInv /\ RestInv /\ DirectionInv)'
  BY <1>1, Sizes
  DEF LineInv, Release, TypeOK, CallInv, ReadInv, RestInv, DirectionInv, driver, args,
      lines, Resting
<1>5. QED
  BY <1>2, <1>3, <1>4 DEF LineInv

LEMMA ReopenKeeps == LineInv /\ Reopen => LineInv'
<1>1. SUFFICES ASSUME LineInv, Reopen PROVE LineInv'
  OBVIOUS
<1>2. TypeOK'
  BY <1>1, BitValues DEF LineInv, Reopen, TypeOK, driver, args, Resting
<1>3. (CallInv /\ WriteInv /\ WrittenInv)'
  BY <1>1, Sizes
  DEF LineInv, Reopen, CallInv, WriteInv, WrittenInv, driver, args, lines, FrameBits,
      Resting
<1>4. (ReadInv /\ RestInv /\ DirectionInv)'
  BY <1>1, Sizes
  DEF LineInv, Reopen, TypeOK, CallInv, ReadInv, RestInv, DirectionInv, driver, args,
      lines, Resting
<1>5. QED
  BY <1>2, <1>3, <1>4 DEF LineInv

LEMMA ResetDataKeeps == LineInv /\ ResetData => LineInv'
<1>1. SUFFICES ASSUME LineInv, ResetData PROVE LineInv'
  OBVIOUS
<1>2. TypeOK'
  BY <1>1, BitValues DEF LineInv, ResetData, TypeOK, driver, args, Resting
<1>3. (CallInv /\ WriteInv /\ WrittenInv)'
  BY <1>1, Sizes
  DEF LineInv, ResetData, CallInv, WriteInv, WrittenInv, driver, args, lines, FrameBits,
      Resting
<1>4. (ReadInv /\ RestInv /\ DirectionInv)'
  BY <1>1, Sizes
  DEF LineInv, ResetData, TypeOK, CallInv, ReadInv, RestInv, DirectionInv, driver, args,
      lines, Resting
<1>5. QED
  BY <1>2, <1>3, <1>4 DEF LineInv

LEMMA ResetClkKeeps == LineInv /\ ResetClk => LineInv'
<1>1. SUFFICES ASSUME LineInv, ResetClk PROVE LineInv'
  OBVIOUS
<1>2. TypeOK'
  BY <1>1, BitValues DEF LineInv, ResetClk, TypeOK, driver, args, Resting
<1>3. (CallInv /\ WriteInv /\ WrittenInv)'
  BY <1>1, Sizes
  DEF LineInv, ResetClk, CallInv, WriteInv, WrittenInv, driver, args, lines, FrameBits,
      Resting
<1>4. (ReadInv /\ RestInv /\ DirectionInv)'
  BY <1>1, Sizes
  DEF LineInv, ResetClk, TypeOK, CallInv, ReadInv, RestInv, DirectionInv, driver, args,
      lines, Resting
<1>5. QED
  BY <1>2, <1>3, <1>4 DEF LineInv

LEMMA ReadEndKeeps == LineInv /\ ReadEnd => LineInv'
<1>1. SUFFICES ASSUME LineInv, ReadEnd PROVE LineInv'
  OBVIOUS
<1>2. TypeOK'
  <2>1. Returned(reg) \in Frames
    BY <1>1, ReturnedType DEF LineInv, TypeOK, Frames, Resting
  <2>2. QED
    BY <1>1, <2>1, BitValues DEF LineInv, ReadEnd, TypeOK, args, Frames, Resting
<1>3. (CallInv /\ WriteInv /\ WrittenInv)'
  BY <1>1, Sizes
  DEF LineInv, ReadEnd, CallInv, WriteInv, WrittenInv, driver, args, lines, FrameBits,
      Resting
<1>4. (ReadInv /\ RestInv /\ DirectionInv)'
  BY <1>1, Sizes
  DEF LineInv, ReadEnd, TypeOK, CallInv, ReadInv, RestInv, DirectionInv, driver, args,
      lines, Resting
<1>5. QED
  BY <1>2, <1>3, <1>4 DEF LineInv

LEMMA StartKeeps ==
  ASSUME NEW c \in Codes, NEW w \in Words \union {NoWord}, c \in Loads => w \in Words
  PROVE  LineInv /\ Start(c, w) => LineInv'
<1>1. SUFFICES ASSUME LineInv, Start(c, w) PROVE LineInv'
  OBVIOUS
<1>2. /\ CommandFrame(c) \in Frames
      /\ \A k \in 0..(CommandSize - 1) : CommandFrame(c)[k] = c[k]
  BY CommandFrameType
<1>3. TypeOK'
  BY <1>1, <1>2, Sizes DEF LineInv, Start, TypeOK, args, lines, Frames, Resting
<1>4. CallInv'
  BY <1>1 DEF Start, CallInv, Resting
<1>5. WriteInv'
  <2>1. frame' = "command" /\ i' = 0 /\ shift' = CommandFrame(c) /\ code' = c /\ at' = "bit"
    BY <1>1 DEF Start
  <2>2. chip' = Listening /\ clk' = 0
    BY <1>1 DEF LineInv, RestInv, Start, lines, Resting
  <2>3. FrameBits' = CommandSize
    BY <2>1 DEF FrameBits
  <2>4. Listening.n = 0 /\ Listening.phase = "command"
    BY ListeningType
  <2>5. \A k \in 0..(CommandSize - 1) : shift'[k] = code'[0 + k]
    BY <1>2, <2>1
  <2>6. \A k \in 0..(CommandSize - 1) : ~(k < 0)
    OBVIOUS
  <2>7. QED
    BY <2>1, <2>2, <2>3, <2>4, <2>5, <2>6, Sizes DEF WriteInv
<1>6. (WrittenInv /\ ReadInv /\ RestInv /\ DirectionInv)'
  BY <1>1 DEF LineInv, Start, WrittenInv, ReadInv, RestInv, DirectionInv, args, lines,
              Resting
<1>7. QED
  BY <1>3, <1>4, <1>5, <1>6 DEF LineInv

LEMMA WriteBitKeeps == LineInv /\ WriteBit => LineInv'
<1>1. SUFFICES ASSUME LineInv, WriteBit PROVE LineInv'
  OBVIOUS
<1>2. TypeOK'
  BY <1>1, Sizes DEF LineInv, WriteBit, TypeOK, driver, args, Resting
<1>3. (CallInv /\ WriteInv /\ WrittenInv)'
  BY <1>1, Sizes
  DEF LineInv, WriteBit, CallInv, WriteInv, WrittenInv, driver, args, FrameBits, Resting
<1>4. (ReadInv /\ RestInv /\ DirectionInv)'
  BY <1>1 DEF LineInv, WriteBit, ReadInv, RestInv, DirectionInv, driver, args, Resting
<1>5. QED
  BY <1>2, <1>3, <1>4 DEF LineInv

LEMMA WriteRiseKeeps == LineInv /\ WriteRise => LineInv'
<1>1. SUFFICES ASSUME LineInv, WriteRise PROVE LineInv'
  OBVIOUS
<1>2. clk = 0 /\ chip.phase # "read"
  BY <1>1 DEF LineInv, WriteRise, WriteInv
<1>3. chip' = chip /\ clk' = 1
  BY <1>1, <1>2 DEF WriteRise, ClockRises
<1>4. TypeOK'
  BY <1>1, <1>3 DEF LineInv, WriteRise, TypeOK, driver, args, Bit, Resting
<1>5. (CallInv /\ WriteInv /\ WrittenInv)'
  BY <1>1, <1>3, Sizes
  DEF LineInv, WriteRise, CallInv, WriteInv, WrittenInv, driver, args, FrameBits, Resting
<1>6. (ReadInv /\ RestInv /\ DirectionInv)'
  BY <1>1, <1>3 DEF LineInv, WriteRise, ReadInv, RestInv, DirectionInv, driver, args,
                    Resting
<1>7. QED
  BY <1>4, <1>5, <1>6 DEF LineInv

\* The bit on the line is the next one of the command.
LEMMA CommandTaken ==
  ASSUME LineInv, at = "fall", frame = "command"
  PROVE  \A k \in 0..(CommandSize - 1) : k < i + 1 => TakeIn(d)[k] = code[k]
<1>1. /\ i \in Nat /\ i < CommandSize /\ chip.n = i /\ d = shift[0] /\ chip.bits \in Frames
      /\ \A k \in 0..(CommandSize - 1) : k < i => chip.bits[k] = code[k]
      /\ \A k \in 0..(CommandSize - 1) : i + k < CommandSize => shift[k] = code[i + k]
  BY Sizes DEF LineInv, TypeOK, WriteInv, FrameBits, Frames, Resting
<1>2. SUFFICES ASSUME NEW k \in 0..(CommandSize - 1), k < i + 1
               PROVE  TakeIn(d)[k] = code[k]
  OBVIOUS
<1>3. k \in 0..(Width - 1)
  BY Sizes
<1>4. CASE k < i
  BY <1>1, <1>3, <1>4 DEF TakeIn, Frames
<1>5. CASE k = i
  <2>1. TakeIn(d)[k] = d
    BY <1>1, <1>3, <1>5 DEF TakeIn, Frames
  <2>2. shift[0] = code[i + 0]
    BY <1>1, Sizes
  <2>3. QED
    BY <1>1, <1>5, <2>1, <2>2
<1>6. QED
  BY <1>1, <1>2, <1>4, <1>5

LEMMA WriteFallKeeps == LineInv /\ WriteFall => LineInv'
<1>1. SUFFICES ASSUME LineInv, WriteFall PROVE LineInv'
  OBVIOUS
<1>2. /\ chip \in Chips /\ d \in Bit /\ shift \in Frames /\ code \in Codes
      /\ i \in Nat /\ FrameBits \in {CommandSize, Width} /\ FrameBits <= Width
      /\ frame \in {"command", "data"}
  BY <1>1, Sizes DEF LineInv, TypeOK, CallInv, WriteFall, Chips, Frames, FrameBits,
                     Resting
<1>3. /\ i < FrameBits /\ chip.n = i /\ clk = 1 /\ d = shift[0]
      /\ chip.phase = IF frame = "command" THEN "command" ELSE "load"
      /\ frame = "command" =>
           /\ \A k \in 0..(CommandSize - 1) : k < i => chip.bits[k] = code[k]
           /\ \A k \in 0..(CommandSize - 1) : i + k < CommandSize => shift[k] = code[i + k]
  BY <1>1, <1>2, Sizes DEF LineInv, WriteInv, WriteFall
<1>4. ClockFalls /\ ChipLevels = {d}
  <2>1. chip.phase # "read"
    BY <1>3
  <2>2. QED
    BY <1>1, <2>1, DriverLevel DEF LineInv, WriteFall
<1>5. frame = "command" => \A k \in 0..(CommandSize - 1) : k < i + 1 => TakeIn(d)[k] = code[k]
  BY <1>1, CommandTaken DEF WriteFall
<1>6. /\ ShiftIn(shift, 0) \in Frames
      /\ \A k \in 0..(Width - 2) : ShiftIn(shift, 0)[k] = shift[k + 1]
  BY <1>2, ShiftInType, BitValues
<1>7. /\ shift' = ShiftIn(shift, 0) /\ i' = i + 1 /\ d' = d
      /\ at' = IF i + 1 < FrameBits THEN "bit" ELSE "written"
      /\ UNCHANGED <<adapter, code, word, frame, reg, result, c3, c5>> /\ FrameBits' = FrameBits
  BY <1>1 DEF WriteFall, args, FrameBits
<1>8. CASE i + 1 < FrameBits
  <2>1. /\ chip' \in Chips /\ clk' = 0 /\ chip'.phase = chip.phase /\ chip'.n = i + 1
        /\ chip'.bits = TakeIn(d)
    <3>1. chip.n + 1 < IF chip.phase = "command" THEN CommandSize ELSE Width
      BY <1>2, <1>3, <1>8 DEF FrameBits
    <3>2. chip.phase \in {"command", "load"}
      BY <1>3
    <3>3. QED
      BY <1>2, <1>3, <1>4, <3>1, <3>2, ChipTakesBit DEF TakeIn
  <2>2. at' = "bit"
    BY <1>7, <1>8
  <2>3. TypeOK'
    BY <1>1, <1>2, <1>6, <1>7, <1>8, <2>1, <2>2, BitValues DEF LineInv, TypeOK, Frames,
                                                               Chips, Resting
  <2>4. WriteInv'
    <3>1. frame = "command" =>
            \A k \in 0..(CommandSize - 1) : i + 1 + k < CommandSize
              => ShiftIn(shift, 0)[k] = code[i + 1 + k]
      <4>1. SUFFICES ASSUME frame = "command", NEW k \in 0..(CommandSize - 1),
                            i + 1 + k < CommandSize
                     PROVE  ShiftIn(shift, 0)[k] = code[i + 1 + k]
        OBVIOUS
      <4>2. k \in 0..(Width - 2) /\ k + 1 \in 0..(CommandSize - 1)
        BY <1>2, <4>1, Sizes
      <4>3. shift[k + 1] = code[i + (k + 1)]
        BY <1>2, <1>3, <4>1, <4>2
      <4>4. QED
        BY <1>2, <1>6, <4>2, <4>3
    <3>2. i + 1 \in 0..(FrameBits - 1)
      BY <1>2, <1>8, Sizes
    <3>3. QED
      BY <1>3, <1>5, <1>7, <2>1, <2>2, <3>1, <3>2 DEF WriteInv
  <2>5. (CallInv /\ WrittenInv /\ ReadInv /\ RestInv /\ DirectionInv)'
    BY <1>1, <1>7, <2>2
    DEF LineInv, WriteFall, CallInv, WrittenInv, ReadInv, RestInv, DirectionInv, Resting
  <2>6. QED
    BY <2>3, <2>4, <2>5 DEF LineInv
<1>9. CASE ~(i + 1 < FrameBits)
  <2>1. at' = "written" /\ i + 1 = FrameBits
    BY <1>2, <1>3, <1>7, <1>9, Sizes
  <2>2. chip' \in Chips /\ WrittenInv'
    <3>1. CASE frame = "command"
      <4>1. chip.n + 1 = CommandSize /\ chip.phase = "command"
        BY <1>3, <2>1, <3>1 DEF FrameBits
      <4>2. \A k \in 0..(CommandSize - 1) : TakeIn(d)[k] = code[k]
        BY <1>2, <1>3, <1>5, <3>1, <4>1, Sizes
      <4>3. /\ chip' \in Chips /\ clk' = 0
            /\ code \in Loads => chip'.phase = "load" /\ chip'.n = 0
            /\ code \in Reads => chip'.phase = "read" /\ chip'.n = 0
            /\ code \in Simples => chip' = Listening
        BY <1>2, <1>3, <1>4, <4>1, <4>2, ChipTakesCommand
      <4>4. QED
        BY <1>7, <3>1, <4>3 DEF WrittenInv
    <3>2. CASE frame = "data"
      <4>1. chip.n + 1 = Width /\ chip.phase = "load"
        BY <1>3, <2>1, <3>2 DEF FrameBits
      <4>2. chip' = Listening /\ clk' = 0
        BY <1>2, <1>3, <1>4, <4>1, ChipTakesWord
      <4>3. QED
        BY <1>7, <3>2, <4>2, ListeningType DEF WrittenInv, Chips
    <3>3. QED
      BY <1>2, <3>1, <3>2
  <2>3. clk' = 0
    BY <1>4 DEF ClockFalls
  <2>4. TypeOK'
    BY <1>1, <1>2, <1>6, <1>7, <2>1, <2>2, <2>3, BitValues DEF LineInv, TypeOK, Frames,
                                                               Chips, Resting
  <2>5. (CallInv /\ WriteInv /\ ReadInv /\ RestInv /\ DirectionInv)'
    BY <1>1, <1>7, <2>1
    DEF LineInv, WriteFall, CallInv, WriteInv, ReadInv, RestInv, DirectionInv, Resting
  <2>6. QED
    BY <2>2, <2>4, <2>5 DEF LineInv
<1>10. QED
  BY <1>8, <1>9

LEMMA WrittenKeeps == LineInv /\ Written => LineInv'
<1>1. SUFFICES ASSUME LineInv, Written PROVE LineInv'
  OBVIOUS
<1>2. d' = 0 /\ clk' = clk /\ chip' = chip /\ clk = 0 /\ at = "written"
  BY <1>1 DEF LineInv, Written, WrittenInv
<1>3. CASE frame = "command" /\ code \in Loads
  <2>1. /\ frame' = "data" /\ shift' = DataFrame(word) /\ i' = 0 /\ at' = "bit"
        /\ UNCHANGED <<adapter, code, word, reg, result, c3, c5>>
    BY <1>1, <1>3, CodeAssumption DEF Written, args
  <2>2. word \in Words /\ DataFrame(word) \in Frames
    BY <1>1, <1>2, <1>3, DataFrameType DEF LineInv, CallInv, Resting
  <2>3. TypeOK'
    BY <1>1, <1>2, <2>1, <2>2, BitValues, Sizes DEF LineInv, TypeOK, Frames, Resting
  <2>4. FrameBits' = Width
    BY <2>1 DEF FrameBits
  <2>5. (CallInv /\ WriteInv /\ WrittenInv)'
    BY <1>1, <1>2, <1>3, <2>1, <2>2, <2>4, Sizes
    DEF LineInv, CallInv, WriteInv, WrittenInv, Resting
  <2>6. (ReadInv /\ RestInv /\ DirectionInv)'
    BY <1>1, <1>2, <2>1 DEF LineInv, ReadInv, RestInv, DirectionInv, Resting
  <2>7. QED
    BY <2>3, <2>5, <2>6 DEF LineInv
<1>4. CASE frame = "command" /\ code \in Reads
  <2>1. /\ reg' = Zeros /\ i' = 0 /\ at' = "readRise"
        /\ UNCHANGED <<adapter, code, word, frame, shift, result, c3, c5>>
    BY <1>1, <1>4, CodeAssumption DEF Written, args
  <2>2. TypeOK'
    BY <1>1, <1>2, <2>1, BitValues, ZerosType, Sizes DEF LineInv, TypeOK, Frames, Resting
  <2>3. (CallInv /\ WriteInv /\ WrittenInv /\ ReadInv)'
    BY <1>1, <1>2, <1>4, <2>1, Sizes
    DEF LineInv, CallInv, WriteInv, WrittenInv, ReadInv, Codes, Resting
  <2>4. (RestInv /\ DirectionInv)'
    BY <1>1, <1>2, <2>1 DEF LineInv, RestInv, DirectionInv, Resting
  <2>5. QED
    BY <2>2, <2>3, <2>4 DEF LineInv
<1>5. CASE frame = "data" \/ code \in Simples
  <2>1. /\ at' = "idle"
        /\ UNCHANGED <<adapter, code, word, frame, shift, i, reg, result, c3, c5>>
    <3>1. frame = "data" => frame # "command"
      OBVIOUS
    <3>2. ~(frame = "command" /\ code \in Loads) /\ ~(frame = "command" /\ code \in Reads)
      BY <1>5, <3>1, CodeAssumption
    <3>3. QED
      BY <1>1, <3>2 DEF Written, args
  <2>2. TypeOK'
    BY <1>1, <1>2, <2>1, BitValues DEF LineInv, TypeOK, Resting
  <2>3. (CallInv /\ WriteInv /\ WrittenInv /\ ReadInv)'
    BY <2>1 DEF CallInv, WriteInv, WrittenInv, ReadInv, Resting
  <2>4. (RestInv /\ DirectionInv)'
    BY <1>1, <1>2, <1>5, <2>1 DEF LineInv, WrittenInv, RestInv, DirectionInv, Resting
  <2>5. QED
    BY <2>2, <2>3, <2>4 DEF LineInv
<1>6. QED
  BY <1>1, <1>3, <1>4, <1>5 DEF Written

LEMMA ReadRiseKeeps == LineInv /\ ReadRise => LineInv'
<1>1. SUFFICES ASSUME LineInv, ReadRise PROVE LineInv'
  OBVIOUS
<1>2. /\ chip \in Chips /\ clk = 0 /\ chip.phase = "read" /\ chip.n = i
      /\ i \in 0..(Width - 1) /\ at = "readRise" /\ code \in Reads /\ frame = "command"
  BY <1>1 DEF LineInv, ReadRise, ReadInv, CallInv, TypeOK, Chips, Frames, Resting
<1>3. ClockRises /\ chip.n < Width
  BY <1>1, <1>2, Sizes DEF ReadRise
<1>4. chip' \in Chips /\ clk' = 1 /\ chip'.phase = "read" /\ chip'.n = i + 1
  BY <1>2, <1>3, ChipRises
<1>5. /\ at' = IF ~adapter THEN "sample" ELSE IF i = Width - 1 THEN "back3" ELSE "readFall"
      /\ UNCHANGED <<adapter, i, code, word, frame, shift, reg, result, d, c3, c5>>
  BY <1>1 DEF ReadRise, driver, args
<1>6. TypeOK'
  BY <1>1, <1>4, <1>5, BitValues DEF LineInv, TypeOK, Chips, Frames, Resting
<1>7. (CallInv /\ WriteInv /\ WrittenInv /\ ReadInv /\ RestInv)'
  BY <1>2, <1>4, <1>5 DEF CallInv, WriteInv, WrittenInv, ReadInv, RestInv, Codes, Resting
<1>8. DirectionInv'
  BY <1>1, <1>2, <1>5, Sizes DEF LineInv, DirectionInv
<1>9. QED
  BY <1>6, <1>7, <1>8 DEF LineInv

LEMMA SampleKeeps == LineInv /\ Sample => LineInv'
<1>1. SUFFICES ASSUME LineInv, Sample PROVE LineInv'
  OBVIOUS
<1>2. i \in 0..(Width - 1) /\ at = "sample" /\ code \in Reads /\ frame = "command"
  BY <1>1 DEF LineInv, Sample, ReadInv, CallInv, Resting
<1>3. UNCHANGED <<adapter, code, word, frame, shift, result, d, clk, c3, c5, chip>>
  BY <1>1 DEF Sample, args, lines
<1>4. reg' \in Frames
  <2>1. PICK b \in PortLevels : reg' = ShiftIn(reg, b)
    BY <1>1 DEF Sample
  <2>2. b \in Bit /\ reg \in Frames
    BY <1>1, <2>1, LevelType DEF LineInv, TypeOK, Frames, Resting
  <2>3. QED
    BY <2>1, <2>2, ShiftInType
<1>5. CASE ~adapter
  <2>1. at' = "readFall" /\ i' = i
    BY <1>1, <1>5 DEF Sample
  <2>2. TypeOK'
    BY <1>1, <1>3, <1>4, <2>1 DEF LineInv, TypeOK, Frames, Resting
  <2>3. (CallInv /\ WriteInv /\ WrittenInv /\ ReadInv /\ RestInv /\ DirectionInv)'
    BY <1>1, <1>2, <1>3, <1>5, <2>1
    DEF LineInv, CallInv, WriteInv, WrittenInv, ReadInv, RestInv, DirectionInv, Codes,
        Resting
  <2>4. QED
    BY <2>2, <2>3 DEF LineInv
<1>6. CASE adapter
  <2>1. /\ i' = i + 1
        /\ at' = IF i + 1 = Width THEN "read" ELSE IF i + 1 = 1 THEN "turn5" ELSE "readRise"
    BY <1>1, <1>6 DEF Sample, NextBit
  <2>2. TypeOK'
    BY <1>1, <1>2, <1>3, <1>4, <2>1, Sizes DEF LineInv, TypeOK, Frames, Resting
  <2>3. (CallInv /\ WriteInv /\ WrittenInv /\ RestInv)'
    BY <1>2, <1>3, <2>1 DEF CallInv, WriteInv, WrittenInv, RestInv, Codes, Resting
  <2>4. ReadInv'
    BY <1>1, <1>2, <1>3, <1>6, <2>1, Sizes DEF LineInv, ReadInv
  <2>5. DirectionInv'
    BY <1>1, <1>2, <1>3, <2>1, Sizes DEF LineInv, DirectionInv
  <2>6. QED
    BY <2>2, <2>3, <2>4, <2>5 DEF LineInv
<1>7. QED
  BY <1>5, <1>6

LEMMA ReadFallKeeps == LineInv /\ ReadFall => LineInv'
<1>1. SUFFICES ASSUME LineInv, ReadFall PROVE LineInv'
  OBVIOUS
<1>2. /\ chip \in Chips /\ clk = 1 /\ chip.phase = "read" /\ chip.n = i + 1
      /\ i \in 0..(Width - 1) /\ at = "readFall" /\ code \in Reads /\ frame = "command"
  BY <1>1 DEF LineInv, ReadFall, ReadInv, CallInv, TypeOK, Chips, Frames, Resting
<1>3. clk' = 0 /\ chip' = IF i = Width - 1 THEN Listening ELSE chip
  BY <1>1, <1>2, Sizes, ChipSendsBit DEF ReadFall
<1>4. UNCHANGED <<adapter, code, word, frame, shift, reg, result, d, c3, c5>>
  BY <1>1 DEF ReadFall, args
<1>5. chip' \in Chips
  BY <1>2, <1>3, ListeningType DEF Chips
<1>6. CASE adapter
  <2>1. at' = "sample" /\ i' = i
    BY <1>1, <1>6 DEF ReadFall
  <2>2. TypeOK'
    BY <1>1, <1>3, <1>4, <1>5, <2>1, BitValues DEF LineInv, TypeOK, Frames, Chips, Resting
  <2>3. (CallInv /\ WriteInv /\ WrittenInv /\ RestInv /\ DirectionInv)'
    BY <1>1, <1>2, <1>4, <2>1
    DEF LineInv, CallInv, WriteInv, WrittenInv, RestInv, DirectionInv, Codes, Resting
  <2>4. ReadInv'
    BY <1>2, <1>3, <1>4, <1>6, <2>1, Sizes DEF ReadInv
  <2>5. QED
    BY <2>2, <2>3, <2>4 DEF LineInv
<1>7. CASE ~adapter
  <2>1. i' = i + 1 /\ at' = IF i + 1 = Width THEN "read" ELSE "readRise"
    BY <1>1, <1>7 DEF ReadFall, NextBit
  <2>2. TypeOK'
    BY <1>1, <1>2, <1>3, <1>4, <1>5, <2>1, BitValues, Sizes
    DEF LineInv, TypeOK, Frames, Chips, Resting
  <2>3. (CallInv /\ WriteInv /\ WrittenInv /\ RestInv /\ DirectionInv)'
    BY <1>1, <1>2, <1>4, <1>7, <2>1
    DEF LineInv, CallInv, WriteInv, WrittenInv, RestInv, DirectionInv, Codes, Resting
  <2>4. ReadInv'
    BY <1>2, <1>3, <1>4, <1>7, <2>1, Sizes DEF ReadInv
  <2>5. QED
    BY <2>2, <2>3, <2>4 DEF LineInv
<1>8. QED
  BY <1>6, <1>7

-----------------------------------------------------------------------------
(* What the invariant gives. *)

LEMMA LineSafe == LineInv => FramesInStep /\ OneDriver /\ LineDefined
<1>1. SUFFICES ASSUME LineInv PROVE FramesInStep /\ OneDriver /\ LineDefined
  OBVIOUS
<1>2. FramesInStep
  BY <1>1 DEF LineInv, RestInv, FramesInStep, Resting
<1>3. OneDriver
  <2>1. SUFFICES ASSUME adapter, at \notin {"init3", "init5"}
                 PROVE  (c5 \/ c3) /\ ~(c3 /\ Drives)
    BY DEF OneDriver
  <2>2. CASE at \in {"resetData", "resetClk", "idle", "bit", "rise", "fall", "written",
                     "read"}
    <3>1. c3 /\ (chip.phase # "read" \/ chip.n = 0)
      BY <1>1, <2>1, <2>2, ListeningType
      DEF LineInv, TypeOK, CallInv, WriteInv, WrittenInv, ReadInv, RestInv, DirectionInv,
          Codes, Resting
    <3>2. QED
      BY <3>1 DEF Drives
  <2>3. CASE at \in {"turn5", "turn3", "readRise", "back3", "back5", "sample", "readFall"}
    BY <1>1, <2>1, <2>3, Sizes, ListeningType
    DEF LineInv, TypeOK, ReadInv, DirectionInv, Drives, Resting
  <2>4. QED
    BY <1>1, <2>1, <2>2, <2>3 DEF LineInv, TypeOK, RestInv, Resting
<1>4. LineDefined
  <2>1. SUFFICES ASSUME at = "sample" PROVE \E b \in Bit : PortLevels = {b}
    BY DEF LineDefined
  <2>2. d \in Bit /\ (Drives => chip.out[chip.n - 1] \in Bit)
    BY <1>1, Sizes DEF LineInv, TypeOK, Drives, Resting
  <2>3. adapter /\ i \in {0, Width - 1} => c3 /\ ~c5
    BY <1>1, <2>1 DEF LineInv, DirectionInv
  <2>4. adapter /\ i \notin {0, Width - 1} => ~c3 /\ c5 /\ Drives
    BY <1>1, <2>1, Sizes DEF LineInv, DirectionInv, ReadInv, Drives
  <2>5. PortLevels = {d} \/ (Drives /\ PortLevels = {chip.out[chip.n - 1]})
    BY <2>3, <2>4 DEF PortLevels, ChipLevels
  <2>6. QED
    BY <2>2, <2>5
<1>5. QED
  BY <1>2, <1>3, <1>4

LEMMA LineStep == LineInv /\ [Next]_vars => LineInv'
<1>1. LineInv /\ StartAny => LineInv'
  <2>1. Loads \subseteq Codes /\ Reads \union Simples \subseteq Codes
    BY DEF Codes
  <2>2. \A c \in Loads, w \in Words : LineInv /\ Start(c, w) => LineInv'
    BY <2>1, StartKeeps
  <2>3. \A c \in Reads \union Simples : c \notin Loads
    BY CodeAssumption
  <2>4. \A c \in Reads \union Simples : LineInv /\ Start(c, NoWord) => LineInv'
    BY <2>1, <2>3, StartKeeps
  <2>5. QED
    BY <2>2, <2>4 DEF StartAny
<1>2. LineInv /\ Step => LineInv'
  BY InitC3Keeps, InitC5Keeps, ResetDataKeeps, ResetClkKeeps, WriteBitKeeps,
     WriteRiseKeeps, WriteFallKeeps, WrittenKeeps, TurnToRead5Keeps, TurnToRead3Keeps,
     ReadRiseKeeps, TurnBack3Keeps, TurnBack5Keeps, SampleKeeps, ReadFallKeeps, ReadEndKeeps DEF Step
<1>3. LineInv /\ UNCHANGED vars => LineInv'
  BY DEF LineInv, TypeOK, CallInv, WriteInv, WrittenInv, ReadInv, RestInv, DirectionInv,
         FrameBits, vars, driver, args, lines, Resting
<1>4. QED
  BY <1>1, <1>2, <1>3, ReleaseKeeps, ReopenKeeps DEF Next

THEOREM LineInvariant == Spec => []LineInv
  BY LineInit, LineStep, PTL DEF Spec

\* The variables keep their types: the chip never counts past a frame, whatever
\* the sizes and the codes.
THEOREM LineTypeCorrect == Spec => []TypeOK
<1>1. LineInv => TypeOK
  BY DEF LineInv
<1>2. QED
  BY <1>1, LineInvariant, PTL

\* execute_command never leaves the chip inside a frame: it clocks exactly as
\* often as the command it sent makes the chip expect.
THEOREM DriverAndChipInStep == Spec => []FramesInStep
  BY LineInvariant, LineSafe, PTL

\* No two of port, adapter and chip drive one side of the line (v2).
THEOREM NeverTwoDrivers == Spec => []OneDriver
  BY LineInvariant, LineSafe, PTL

\* read_serial_data never samples a floating line.
THEOREM SamplesDefined == Spec => []LineDefined
  BY LineInvariant, LineSafe, PTL

-----------------------------------------------------------------------------
(***************************************************************************)
(* execute_command implements a step of CommandChannel, for every frame    *)
(* size, every set of codes and words, and both drivers.  The invariant    *)
(* adds to LineInv what the two ends hold of the word on the line: the     *)
(* bits the chip took in, the bits the driver sampled, and what the chip   *)
(* has done of the command so far.                                         *)
(***************************************************************************)
Writing == {"bit", "rise", "fall"}
Reading == {"turn5", "turn3", "readRise", "back3", "back5", "sample", "readFall", "read"}

\* The words that go with a command, and what was returned before it returns.
ArgsInv == at \notin Resting =>
             /\ code \in Loads => word \in Words
             /\ code \notin Loads => word = NoWord
             /\ result = NoWord

\* While the word of a load is written the chip has its first bits, and the
\* driver still holds the others.
SentInv ==
  /\ at \in Writing => performed = None
  /\ at \in Writing /\ frame = "data" =>
       /\ chip.code = code
       /\ \A k \in 0..(Width - 1) : k < i => chip.bits[k] = DataFrame(word)[k]
       /\ \A k \in 0..(Width - 1) : i + k < Width => shift[k] = DataFrame(word)[i + k]

\* A command is performed when its last bit has arrived: a load with its word, a
\* read with the word the chip sends next.
DoneInv ==
  at = "written" =>
    /\ frame = "command" /\ code \in Loads => performed = None /\ chip.code = code
    /\ frame = "command" /\ code \in Reads =>
         \E w \in Words : performed = [code |-> code, word |-> w] /\ chip.out = ChipFrame(w)
    /\ frame = "data" \/ code \in Simples => performed = [code |-> code, word |-> word]

\* The bits sampled so far: v1 samples before the clock falls, v2 after.
Sampled == IF at = "read" THEN Width ELSE IF at = "readFall" /\ ~adapter THEN i + 1 ELSE i

\* The register holds the bits sampled so far at its upper end, and the latch of
\* the port is low for the bits the chip does not send.
HeardInv ==
  at \in Reading =>
    /\ d = 0
    /\ performed.code = code /\ performed.word \in Words
    /\ performed = [code |-> performed.code, word |-> performed.word]
    /\ chip.phase = "read" => chip.out = ChipFrame(performed.word)
    /\ Sampled \in 0..Width
    /\ \A k \in 0..(Width - 1) :
         k < Sampled => reg[Width - Sampled + k] = ChipFrame(performed.word)[k]

ChannelInv == ArgsInv /\ SentInv /\ DoneInv /\ HeardInv

-----------------------------------------------------------------------------
(* The words on the line. *)

LEMMA WordType == \A w \in Words : w \in [0..(DataBits - 1) -> Bit]
  BY CodeAssumption

\* Words with the same bits are the same.
LEMMA SameWord ==
  ASSUME NEW v \in Words, NEW w \in Words, \A k \in 0..(DataBits - 1) : v[k] = w[k]
  PROVE  v = w
<1>1. v \in [0..(DataBits - 1) -> Bit] /\ w \in [0..(DataBits - 1) -> Bit]
  BY WordType
<1>2. v = [k \in 0..(DataBits - 1) |-> v[k]] /\ w = [k \in 0..(DataBits - 1) |-> w[k]]
  BY <1>1
<1>3. QED
  BY <1>2, Zenon

\* What the chip sends and what the driver sends is framed in the same way.
LEMMA FrameOfWord ==
  ASSUME NEW w \in Words
  PROVE  /\ ChipFrame(w) = DataFrame(w) /\ DataFrame(w) \in Frames
         /\ \A k \in 0..(DataBits - 1) : DataFrame(w)[k + 1] = w[k]
         /\ \A k \in 0..(Width - 1) : k \notin 1..DataBits => DataFrame(w)[k] = 0
<1>1. \A k \in 0..(DataBits - 1) : k + 1 \in 0..(Width - 1) /\ k + 1 \in 1..DataBits
  BY Sizes
<1>2. \A k \in 0..(DataBits - 1) : k + 1 - 1 = k
  BY Sizes
<1>3. QED
  BY <1>1, <1>2, DataFrameType DEF DataFrame, ChipFrame

\* Taking the word out of a complete frame gives the word.
LEMMA PayloadOfFrame ==
  ASSUME NEW w \in Words, NEW r \in Frames,
         \A k \in 0..(Width - 1) : r[k] = DataFrame(w)[k]
  PROVE  Payload(r) = w
<1>1. \A k \in 0..(DataBits - 1) : k + 1 \in 0..(Width - 1)
  BY Sizes
<1>2. \A k \in 0..(DataBits - 1) : r[k + 1] = w[k]
  BY <1>1, FrameOfWord
<1>3. w \in [0..(DataBits - 1) -> Bit]
  BY WordType
<1>4. QED
  BY <1>2, <1>3 DEF Payload

\* What a driver returns for a complete frame stands for the word, whether or not
\* it masks the stop bit.
LEMMA ReturnedWord ==
  ASSUME NEW w \in Words, NEW r \in Frames,
         \A k \in 0..(Width - 1) : r[k] = DataFrame(w)[k]
  PROVE  AsWord(Returned(r)) = w
<1>1. \A k \in 0..(Width - 1) : Returned(r)[k] = IF k < DataBits THEN w[k] ELSE 0
  <2>1. SUFFICES ASSUME NEW k \in 0..(Width - 1)
                 PROVE  Returned(r)[k] = IF k < DataBits THEN w[k] ELSE 0
    OBVIOUS
  <2>2. CASE k < DataBits
    <3>1. k \in 0..(DataBits - 1) /\ k + 1 \in 0..(Width - 1)
      BY <2>2, Sizes
    <3>2. r[k + 1] = w[k]
      BY <3>1, FrameOfWord
    <3>3. QED
      BY <2>2, <3>2 DEF Returned
  <2>3. CASE k = DataBits
    <3>1. k + 1 \in 0..(Width - 1) /\ k + 1 \notin 1..DataBits
      BY <2>3, Sizes
    <3>2. r[k + 1] = 0
      BY <3>1, FrameOfWord
    <3>3. ~(k < DataBits)
      BY <2>3, Sizes
    <3>4. QED
      BY <3>2, <3>3 DEF Returned
  <2>4. CASE ~(k < DataBits) /\ k # DataBits
    BY <2>4 DEF Returned
  <2>5. QED
    BY <2>2, <2>3, <2>4
<1>2. Returned(r) # NoWord
  BY ReturnedType, CodeAssumption DEF Frames
<1> DEFINE same == {v \in Words : \A k \in 0..(Width - 1) :
                      Returned(r)[k] = IF k < DataBits THEN v[k] ELSE 0}
<1>3. w \in same
  BY <1>1
<1>4. ASSUME NEW v \in same PROVE v = w
  <2>1. \A k \in 0..(DataBits - 1) : k \in 0..(Width - 1) /\ k < DataBits
    BY Sizes
  <2>2. \A k \in 0..(DataBits - 1) : v[k] = w[k]
    BY <1>1, <1>4, <2>1
  <2>3. v \in Words
    BY <1>4
  <2>4. QED
    BY <2>2, <2>3, SameWord
<1>5. AsWord(Returned(r)) = IF same = {} THEN Returned(r) ELSE CHOOSE v \in same : TRUE
  BY <1>2 DEF AsWord
<1> HIDE DEF same
<1>6. QED
  BY <1>3, <1>4, <1>5

-----------------------------------------------------------------------------
(* The edges: what the chip has done. *)

LEMMA BitPerformed ==
  ASSUME chip \in Chips, ClockFalls, clk = 1, chip.phase \in {"command", "load"},
         chip.n + 1 < IF chip.phase = "command" THEN CommandSize ELSE Width
  PROVE  performed' = performed /\ chip'.code = chip.code
<1>0. clk # 0 /\ chip.phase # "read"
  OBVIOUS
<1>1. chip.phase = "command" => chip.n + 1 # CommandSize
  BY Sizes DEF Chips
<1>2. chip.phase = "load" => chip.n + 1 # Width
  BY Sizes DEF Chips
<1>3. PICK b \in ChipLevels : chip' = [chip EXCEPT !.n = @ + 1, !.bits = TakeIn(b)]
                               /\ performed' = performed
  BY <1>1, <1>2, <1>0, Zenon DEF ClockFalls
<1>4. QED
  BY <1>3 DEF Chips

LEMMA CommandPerformed ==
  ASSUME chip \in Chips, d \in Bit, ClockFalls, clk = 1, ChipLevels = {d},
         chip.phase = "command", chip.n + 1 = CommandSize, code \in Codes,
         \A k \in 0..(CommandSize - 1) : TakeIn(d)[k] = code[k]
  PROVE  /\ code \in Loads => performed' = performed /\ chip'.code = code
         /\ code \in Reads => \E w \in Words : /\ performed' = [code |-> code, word |-> w]
                                               /\ chip'.out = ChipFrame(w)
         /\ code \in Simples => performed' = [code |-> code, word |-> NoWord]
<1> DEFINE c == [k \in 0..(CommandSize - 1) |-> TakeIn(d)[k]]
<1>1. code \in [0..(CommandSize - 1) -> Bit]
  BY CodeAssumption
<1>2. c = code
  BY <1>1
<1>3. Decode(d)
  BY Sizes DEF ClockFalls, Chips
<1>4. \/ /\ code \in Reads
         /\ \E w \in Words :
              /\ chip' = [Listening EXCEPT !.phase = "read", !.code = code, !.out = ChipFrame(w)]
              /\ performed' = [code |-> code, word |-> w]
      \/ /\ code \in Loads
         /\ chip' = [Listening EXCEPT !.phase = "load", !.code = code]
         /\ performed' = performed
      \/ /\ code \notin Reads \union Loads
         /\ performed' = [code |-> code, word |-> NoWord]
  BY <1>2, <1>3 DEF Decode
<1> HIDE DEF c
<1>5. ASSUME code \in Loads
      PROVE  performed' = performed /\ chip'.code = code
  <2>1. performed' = performed /\ chip' = [Listening EXCEPT !.phase = "load", !.code = code]
    BY <1>4, <1>5, CodeAssumption
  <2>2. QED
    BY <2>1 DEF Listening
<1>6. ASSUME code \in Reads
      PROVE  \E w \in Words : /\ performed' = [code |-> code, word |-> w]
                              /\ chip'.out = ChipFrame(w)
  <2>1. PICK w \in Words :
          /\ chip' = [Listening EXCEPT !.phase = "read", !.code = code, !.out = ChipFrame(w)]
          /\ performed' = [code |-> code, word |-> w]
    BY <1>4, <1>6, CodeAssumption
  <2>2. chip'.out = ChipFrame(w)
    BY <2>1 DEF Listening
  <2>3. QED
    BY <2>1, <2>2
<1>7. ASSUME code \in Simples
      PROVE  performed' = [code |-> code, word |-> NoWord]
  BY <1>4, <1>7, CodeAssumption
<1>8. QED
  BY <1>5, <1>6, <1>7

LEMMA WordPerformed ==
  ASSUME chip \in Chips, d \in Bit, ClockFalls, clk = 1, ChipLevels = {d},
         chip.phase = "load", chip.n + 1 = Width
  PROVE  performed' = [code |-> chip.code, word |-> Payload(TakeIn(d))]
<1>1. chip.phase # "command" /\ chip.phase # "read" /\ ~(chip.n + 1 < Width) /\ clk # 0
  BY Sizes DEF Chips
<1>2. (IF chip.phase = "command" THEN CommandSize ELSE Width) = Width
  BY <1>1
<1>3. \E b \in ChipLevels : performed' = [code |-> chip.code, word |-> Payload(TakeIn(b))]
  BY <1>1, <1>2, Zenon DEF ClockFalls
<1>4. QED
  BY <1>3

-----------------------------------------------------------------------------
(* The invariant holds initially and each step keeps it. *)

LEMMA Places ==
  /\ at \in Writing => at \notin Resting /\ at # "written" /\ at \notin Reading
  /\ at \in Reading => at \notin Resting /\ at # "written" /\ at \notin Writing
  /\ at \in Resting => at \notin Writing /\ at # "written" /\ at \notin Reading
  /\ "written" \notin Writing /\ "written" \notin Reading /\ "written" \notin Resting
  BY DEF Writing, Reading, Resting

\* Between commands nothing is said of the word on the line.
LEMMA RestKeeps == at' \in Resting => ChannelInv'
  BY DEF ChannelInv, ArgsInv, SentInv, DoneInv, HeardInv, Writing, Reading, Resting

LEMMA ChannelInit == Init => ChannelInv
  BY DEF Init, ChannelInv, ArgsInv, SentInv, DoneInv, HeardInv, Writing, Reading, Resting

LEMMA StartChannel ==
  ASSUME NEW c \in Codes, NEW w, LineInv, Start(c, w),
         c \in Loads => w \in Words, c \notin Loads => w = NoWord
  PROVE  ChannelInv'
<1>1. /\ at' = "bit" /\ code' = c /\ word' = w /\ result' = NoWord
      /\ performed' = None /\ frame' = "command"
  BY DEF Start
<1>2. QED
  BY <1>1 DEF ChannelInv, ArgsInv, SentInv, DoneInv, HeardInv, Writing, Reading, Resting

LEMMA WriteBitChannel ==
  ASSUME LineInv, ChannelInv, WriteBit
  PROVE  ChannelInv'
<1>1. /\ at = "bit" /\ at' = "rise"
      /\ UNCHANGED <<adapter, code, word, i, frame, shift, reg, result, chip, performed>>
  BY DEF WriteBit, driver, args
<1>2. QED
  BY <1>1 DEF ChannelInv, ArgsInv, SentInv, DoneInv, HeardInv, Writing, Reading, Resting

LEMMA WriteRiseChannel ==
  ASSUME LineInv, ChannelInv, WriteRise
  PROVE  ChannelInv'
<1>1. /\ at = "rise" /\ at' = "fall" /\ ClockRises
      /\ UNCHANGED <<adapter, code, word, i, frame, shift, reg, result>>
  BY DEF WriteRise, driver, args
<1>2. chip.phase # "read"
  BY <1>1 DEF LineInv, WriteInv
<1>3. chip' = chip /\ performed' = performed
  BY <1>1, <1>2 DEF ClockRises
<1>4. QED
  BY <1>1, <1>3 DEF ChannelInv, ArgsInv, SentInv, DoneInv, HeardInv, Writing, Reading, Resting

LEMMA WriteFallChannel ==
  ASSUME LineInv, ChannelInv, WriteFall
  PROVE  ChannelInv'
<1>1. /\ at = "fall" /\ at \in Writing /\ at \notin Resting
      /\ i \in 0..(FrameBits - 1) /\ chip.n = i /\ clk = 1 /\ d = shift[0]
      /\ chip.phase = IF frame = "command" THEN "command" ELSE "load"
      /\ code \in Codes /\ frame \in {"command", "data"}
      /\ shift \in Frames /\ d \in Bit /\ chip \in Chips
  BY Places DEF WriteFall, LineInv, WriteInv, CallInv, TypeOK, Chips, Frames, Writing,
                Resting
<1>2. ClockFalls /\ ChipLevels = {d}
  <2>1. chip.phase # "read"
    BY <1>1
  <2>2. QED
    BY <1>1, <2>1, DriverLevel DEF WriteFall, LineInv
<1>3. /\ shift' = ShiftIn(shift, 0) /\ i' = i + 1
      /\ at' = IF i + 1 < FrameBits THEN "bit" ELSE "written"
      /\ UNCHANGED <<adapter, code, word, frame, reg, result>> /\ FrameBits' = FrameBits
  BY DEF WriteFall, args, FrameBits
<1>4. performed = None
  BY <1>1 DEF ChannelInv, SentInv
<1>5. /\ code \in Loads => word \in Words
      /\ code \notin Loads => word = NoWord
      /\ result = NoWord
  BY <1>1 DEF ChannelInv, ArgsInv
<1>6. ArgsInv'
  BY <1>3, <1>5 DEF ArgsInv
<1>7. ASSUME frame = "data"
      PROVE  /\ code \in Loads /\ word \in Words /\ chip.code = code /\ chip.phase = "load"
             /\ \A k \in 0..i : TakeIn(d)[k] = DataFrame(word)[k]
             /\ FrameBits = Width
  <2>1. code \in Loads /\ word \in Words
    BY <1>1, <1>5, <1>7 DEF LineInv, CallInv, Resting
  <2>2. FrameBits = Width /\ i \in 0..(Width - 1)
    BY <1>1, <1>7 DEF FrameBits
  <2>3. /\ chip.code = code
        /\ \A k \in 0..(Width - 1) : k < i => chip.bits[k] = DataFrame(word)[k]
        /\ \A k \in 0..(Width - 1) : i + k < Width => shift[k] = DataFrame(word)[i + k]
    BY <1>1, <1>7 DEF ChannelInv, SentInv
  <2>4. d = DataFrame(word)[i]
    <3>1. 0 \in 0..(Width - 1) /\ i + 0 < Width /\ i + 0 = i
      BY <2>2, Sizes
    <3>2. QED
      BY <1>1, <2>3, <3>1
  <2>5. chip.bits \in Frames
    BY <1>1 DEF Chips
  <2>6. ASSUME NEW k \in 0..i PROVE TakeIn(d)[k] = DataFrame(word)[k]
    <3>1. k \in 0..(Width - 1) /\ (k < i \/ k = i)
      BY <2>2, Sizes
    <3>2. QED
      BY <1>1, <2>3, <2>4, <2>5, <3>1 DEF TakeIn, Frames
  <2>7. QED
    BY <1>1, <1>7, <2>1, <2>2, <2>3, <2>6
<1>8. CASE i + 1 < FrameBits
  <2>1. chip.phase \in {"command", "load"} /\ at' = "bit"
    BY <1>1, <1>3, <1>8
  <2>2. chip.n + 1 < IF chip.phase = "command" THEN CommandSize ELSE Width
    BY <1>1, <1>8 DEF FrameBits
  <2>3. performed' = None /\ chip'.code = chip.code /\ chip'.bits = TakeIn(d)
    BY <1>1, <1>2, <1>4, <2>1, <2>2, BitPerformed, ChipTakesBit DEF TakeIn
  <2>4. frame = "data" =>
          \A k \in 0..(Width - 1) : i + 1 + k < Width => ShiftIn(shift, 0)[k]
                                                       = DataFrame(word)[i + 1 + k]
    <3>1. SUFFICES ASSUME frame = "data", NEW k \in 0..(Width - 1), i + 1 + k < Width
                   PROVE  ShiftIn(shift, 0)[k] = DataFrame(word)[i + 1 + k]
      OBVIOUS
    <3>2. i \in Nat /\ k \in 0..(Width - 2) /\ k + 1 \in 0..(Width - 1)
          /\ i + (k + 1) < Width /\ i + (k + 1) = i + 1 + k
      BY <1>1, <1>7, <3>1, Sizes
    <3>3. ShiftIn(shift, 0)[k] = shift[k + 1]
      BY <1>1, <3>2, ShiftInType, BitValues
    <3>4. shift[k + 1] = DataFrame(word)[i + (k + 1)]
      BY <1>1, <3>1, <3>2 DEF ChannelInv, SentInv
    <3>5. QED
      BY <3>2, <3>3, <3>4
  <2>5. frame = "data" => /\ chip'.code = code
                          /\ \A k \in 0..(Width - 1) : k < i + 1 => chip'.bits[k]
                                                                  = DataFrame(word)[k]
    <3>1. SUFFICES ASSUME frame = "data", NEW k \in 0..(Width - 1), k < i + 1
                   PROVE  chip'.code = code /\ chip'.bits[k] = DataFrame(word)[k]
      BY <1>7, <2>3
    <3>2. k \in 0..i
      BY <1>1, <1>7, <3>1, Sizes
    <3>3. QED
      BY <1>7, <2>3, <3>1, <3>2
  <2>6. SentInv'
    BY <1>3, <2>1, <2>3, <2>4, <2>5 DEF SentInv
  <2>7. DoneInv' /\ HeardInv'
    BY <2>1 DEF DoneInv, HeardInv, Reading
  <2>8. QED
    BY <1>6, <2>6, <2>7 DEF ChannelInv
<1>9. CASE ~(i + 1 < FrameBits)
  <2>1. at' = "written" /\ i + 1 = FrameBits
    <3>1. FrameBits \in Nat
      BY Sizes DEF FrameBits
    <3>2. QED
      BY <1>1, <1>3, <1>9, <3>1
  <2>2. SentInv' /\ HeardInv'
    BY <2>1 DEF SentInv, HeardInv, Writing, Reading
  <2>3. CASE frame = "command"
    <3>1. chip.n + 1 = CommandSize /\ chip.phase = "command"
      BY <1>1, <2>1, <2>3 DEF FrameBits
    <3>2. \A k \in 0..(CommandSize - 1) : TakeIn(d)[k] = code[k]
      <4>1. \A k \in 0..(CommandSize - 1) : k < i + 1
        BY <1>1, <3>1, Sizes
      <4>2. QED
        BY <1>1, <2>3, <4>1, CommandTaken
    <3>3. /\ code \in Loads => performed' = performed /\ chip'.code = code
          /\ code \in Reads => \E w \in Words : /\ performed' = [code |-> code, word |-> w]
                                                /\ chip'.out = ChipFrame(w)
          /\ code \in Simples => performed' = [code |-> code, word |-> NoWord]
      BY <1>1, <1>2, <3>1, <3>2, CommandPerformed
    <3>4. code \in Simples => word = NoWord
      BY <1>5, CodeAssumption
    <3>5. DoneInv'
      BY <1>3, <1>4, <2>3, <3>3, <3>4 DEF DoneInv
    <3>6. QED
      BY <1>6, <2>2, <3>5 DEF ChannelInv
  <2>4. CASE frame = "data"
    <3>1. chip.n + 1 = Width /\ chip.phase = "load"
      BY <1>1, <1>7, <2>1, <2>4
    <3>2. performed' = [code |-> code, word |-> Payload(TakeIn(d))]
      BY <1>1, <1>2, <1>7, <2>4, <3>1, WordPerformed
    <3>3. TakeIn(d) \in Frames
      BY <1>1, <3>1, Sizes DEF TakeIn, Chips, Frames
    <3>4. Payload(TakeIn(d)) = word
      <4>1. \A k \in 0..(Width - 1) : k \in 0..i
        BY <1>1, <3>1, Sizes
      <4>2. QED
        BY <1>7, <2>4, <3>3, <4>1, PayloadOfFrame
    <3>5. DoneInv'
      BY <1>3, <2>4, <3>2, <3>4 DEF DoneInv
    <3>6. QED
      BY <1>6, <2>2, <3>5 DEF ChannelInv
  <2>5. QED
    BY <1>1, <2>3, <2>4
<1>10. QED
  BY <1>8, <1>9

LEMMA WrittenChannel ==
  ASSUME LineInv, ChannelInv, Written
  PROVE  ChannelInv'
<1>1. /\ at = "written" /\ d' = 0 /\ code \in Codes
      /\ UNCHANGED <<adapter, code, word, result, clk, c3, c5, chip, performed>>
      /\ frame \in {"command", "data"}
  BY DEF Written, args, LineInv, CallInv, TypeOK, Resting
<1>2. ArgsInv
  BY DEF ChannelInv
<1>3. ArgsInv'
  BY <1>1, <1>2 DEF ArgsInv, Resting
<1>4. CASE frame = "command" /\ code \in Loads
  <2>1. /\ frame' = "data" /\ shift' = DataFrame(word) /\ i' = 0 /\ at' = "bit"
        /\ performed = None /\ chip.code = code
    BY <1>1, <1>4, CodeAssumption DEF Written, ChannelInv, DoneInv
  <2>2. \A k \in 0..(Width - 1) : 0 + k = k /\ ~(k < 0)
    OBVIOUS
  <2>3. SentInv'
    BY <1>1, <2>1, <2>2 DEF SentInv
  <2>4. QED
    BY <1>3, <2>1, <2>3 DEF ChannelInv, DoneInv, HeardInv, Reading
<1>5. CASE frame = "command" /\ code \in Reads
  <2>1. reg' = Zeros /\ i' = 0 /\ at' = "readRise"
    BY <1>1, <1>5, CodeAssumption DEF Written
  <2>2. PICK w \in Words : performed = [code |-> code, word |-> w] /\ chip.out = ChipFrame(w)
    BY <1>1, <1>5 DEF ChannelInv, DoneInv
  <2>3. performed.code = code /\ performed.word = w
    BY <2>2
  <2>4. Sampled' = 0 /\ 0 \in 0..Width
    BY <2>1, Sizes DEF Sampled
  <2>5. HeardInv'
    BY <1>1, <2>1, <2>2, <2>3, <2>4 DEF HeardInv
  <2>6. QED
    BY <1>3, <2>1, <2>5 DEF ChannelInv, SentInv, DoneInv, Writing
<1>6. CASE frame = "data" \/ code \in Simples
  <2>1. frame = "data" => frame # "command"
    OBVIOUS
  <2>2. ~(frame = "command" /\ code \in Loads) /\ ~(frame = "command" /\ code \in Reads)
    BY <1>6, <2>1, CodeAssumption
  <2>3. at' \in Resting
    BY <2>2 DEF Written, Resting
  <2>4. QED
    BY <2>3, RestKeeps
<1>7. QED
  BY <1>1, <1>4, <1>5, <1>6 DEF Codes

\* The adapter turns round: nothing is sampled.
LEMMA TurnChannel ==
  ASSUME LineInv, ChannelInv, TurnToRead5 \/ TurnToRead3 \/ TurnBack3 \/ TurnBack5
  PROVE  ChannelInv'
<1>1. /\ at \in Reading /\ at # "read" /\ adapter /\ at' \in Reading /\ at' # "read"
      /\ UNCHANGED <<adapter, code, word, i, frame, shift, reg, result, d, chip, performed>>
  BY DEF TurnToRead5, TurnToRead3, TurnBack3, TurnBack5, LineInv, ReadInv, driver, args, Reading
<1>2. Sampled = i /\ Sampled' = i
  BY <1>1 DEF Sampled
<1>3. at \notin Resting /\ at' \notin Resting /\ at' \notin Writing /\ at' # "written"
  BY <1>1 DEF Reading, Resting, Writing
<1>4. ArgsInv' /\ HeardInv'
  BY <1>1, <1>2, <1>3 DEF ChannelInv, ArgsInv, HeardInv
<1>5. SentInv' /\ DoneInv'
  BY <1>3 DEF SentInv, DoneInv
<1>6. QED
  BY <1>4, <1>5 DEF ChannelInv

LEMMA ReadRiseChannel ==
  ASSUME LineInv, ChannelInv, ReadRise
  PROVE  ChannelInv'
<1>1. /\ at = "readRise" /\ at' \in {"sample", "back3", "readFall"}
      /\ at' = "readFall" => adapter
      /\ UNCHANGED <<adapter, code, word, i, frame, shift, reg, result, d>>
      /\ chip.phase = "read" /\ chip \in Chips /\ clk = 0
  BY DEF ReadRise, driver, args, LineInv, ReadInv, TypeOK, Chips, Frames, Resting
<1>2. chip'.out = chip.out /\ performed' = performed
  <2>1. chip' = [chip EXCEPT !.n = @ + 1] /\ performed' = performed
    BY <1>1 DEF ReadRise, ClockRises
  <2>2. QED
    BY <1>1, <2>1 DEF Chips
<1>3. Sampled = i /\ Sampled' = i
  BY <1>1 DEF Sampled
<1>4. /\ at \in Reading /\ at' \in Reading /\ at \notin Resting /\ at' \notin Resting
      /\ at' \notin Writing /\ at' # "written"
  BY <1>1 DEF Reading, Resting, Writing
<1>5. ArgsInv' /\ HeardInv'
  BY <1>1, <1>2, <1>3, <1>4 DEF ChannelInv, ArgsInv, HeardInv
<1>6. SentInv' /\ DoneInv'
  BY <1>4 DEF SentInv, DoneInv
<1>7. QED
  BY <1>5, <1>6 DEF ChannelInv

\* Each sample is the bit of that number of the chip's frame: the start bit and
\* the stop bit are the low latch of the port.
LEMMA SampledBit ==
  ASSUME LineInv, ChannelInv, at = "sample"
  PROVE  PortLevels = {ChipFrame(performed.word)[i]}
<1>1. /\ i \in 0..(Width - 1) /\ chip \in Chips /\ adapter \in BOOLEAN
      /\ c3 \in BOOLEAN /\ c5 \in BOOLEAN
  BY SizeAssumption DEF LineInv, TypeOK, ReadInv, Chips, Frames, Resting
<1>2. /\ d = 0 /\ performed.word \in Words
      /\ chip.phase = "read" => chip.out = ChipFrame(performed.word)
  BY DEF ChannelInv, HeardInv, Reading
<1>3. /\ ~adapter => chip.phase = "read" /\ chip.n = i + 1
      /\ adapter /\ i < Width - 1 => chip.phase = "read" /\ chip.n = i + 1
      /\ adapter /\ i = Width - 1 => chip = Listening
  BY DEF LineInv, ReadInv
<1>4. CASE i \in 1..DataBits
  <2>1. chip.phase = "read" /\ chip.n = i + 1 /\ chip.n - 1 = i
    BY <1>1, <1>3, <1>4, Sizes
  <2>2. Drives
    BY <1>4, <2>1, Sizes DEF Drives
  <2>3. adapter => ~c3 /\ c5
    BY <1>1, <1>4, Sizes DEF LineInv, DirectionInv
  <2>4. PortLevels = ChipLevels
    BY <1>1, <2>3 DEF PortLevels
  <2>5. QED
    BY <1>2, <2>1, <2>2, <2>4 DEF ChipLevels
<1>5. CASE i \notin 1..DataBits
  <2>1. ChipFrame(performed.word)[i] = 0
    BY <1>1, <1>2, <1>5, FrameOfWord
  <2>2. i = 0 \/ i = Width - 1
    BY <1>1, <1>5, Sizes
  <2>3. adapter => c3 /\ ~c5
    BY <2>2 DEF LineInv, DirectionInv
  <2>4. ~Drives
    BY <1>1, <1>3, <2>2, Sizes, ListeningType DEF Drives
  <2>5. PortLevels = {d}
    BY <1>1, <2>3, <2>4 DEF PortLevels, ChipLevels
  <2>6. QED
    BY <1>2, <2>1, <2>5
<1>6. QED
  BY <1>4, <1>5

\* One more bit in the register.
LEMMA OneMoreBit ==
  ASSUME NEW r \in Frames, NEW b \in Bit, NEW s \in 0..(Width - 1), NEW f \in Frames, b = f[s],
         \A k \in 0..(Width - 1) : k < s => r[Width - s + k] = f[k]
  PROVE  \A k \in 0..(Width - 1) : k < s + 1 => ShiftIn(r, b)[Width - (s + 1) + k] = f[k]
<1>1. SUFFICES ASSUME NEW k \in 0..(Width - 1), k < s + 1
               PROVE  ShiftIn(r, b)[Width - (s + 1) + k] = f[k]
  OBVIOUS
<1>2. CASE k = s
  <2>1. Width - (s + 1) + k = Width - 1 /\ Width - 1 \in 0..(Width - 1)
    BY <1>2, Sizes
  <2>2. ShiftIn(r, b)[Width - 1] = b
    BY <2>1 DEF ShiftIn
  <2>3. QED
    BY <1>2, <2>1, <2>2
<1>3. CASE k < s
  <2>1. /\ Width - (s + 1) + k \in 0..(Width - 2)
        /\ Width - (s + 1) + k + 1 = Width - s + k
    BY <1>3, Sizes
  <2>2. ShiftIn(r, b)[Width - (s + 1) + k] = r[Width - s + k]
    BY <2>1, ShiftInType
  <2>3. QED
    BY <1>3, <2>2
<1>4. QED
  BY <1>1, <1>2, <1>3

LEMMA SampleChannel ==
  ASSUME LineInv, ChannelInv, Sample
  PROVE  ChannelInv'
<1>1. /\ at = "sample" /\ i \in 0..(Width - 1) /\ reg \in Frames /\ adapter \in BOOLEAN
      /\ UNCHANGED <<adapter, code, word, frame, shift, result, d, chip, performed>>
  BY SizeAssumption DEF Sample, args, lines, LineInv, ReadInv, TypeOK, Frames, Resting
<1>2. Sampled = i /\ at \in Reading /\ at \notin Resting
  BY <1>1 DEF Sampled, Reading, Resting
<1>3. /\ d = 0 /\ performed.code = code /\ performed.word \in Words
      /\ performed = [code |-> performed.code, word |-> performed.word]
      /\ chip.phase = "read" => chip.out = ChipFrame(performed.word)
      /\ \A k \in 0..(Width - 1) : k < i => reg[Width - i + k] = ChipFrame(performed.word)[k]
  BY <1>2 DEF ChannelInv, HeardInv
<1>4. reg' = ShiftIn(reg, ChipFrame(performed.word)[i])
  BY <1>1, SampledBit DEF Sample
<1>5. ChipFrame(performed.word) \in Frames /\ ChipFrame(performed.word)[i] \in Bit
  BY <1>1, <1>3, DataFrameType DEF Frames
<1>6. \A k \in 0..(Width - 1) :
        k < i + 1 => reg'[Width - (i + 1) + k] = ChipFrame(performed.word)[k]
  BY <1>1, <1>3, <1>4, <1>5, OneMoreBit
<1>7. at' \in {"readFall", "read", "turn5", "readRise"} /\ Sampled' = i + 1
  <2>1. CASE ~adapter
    BY <1>1, <2>1 DEF Sample, Sampled
  <2>2. CASE adapter
    <3>1. /\ i' = i + 1
          /\ at' = IF i + 1 = Width THEN "read" ELSE IF i + 1 = 1 THEN "turn5" ELSE "readRise"
      BY <2>2 DEF Sample, NextBit
    <3>2. QED
      BY <1>1, <2>2, <3>1 DEF Sampled
  <2>3. QED
    BY <1>1, <2>1, <2>2
<1>8. i + 1 \in 0..Width
  BY <1>1, Sizes
<1>9. at' \in Reading /\ at' \notin Resting /\ at' \notin Writing /\ at' # "written"
  BY <1>7 DEF Reading, Resting, Writing
<1>10. HeardInv'
  BY <1>1, <1>3, <1>6, <1>7, <1>8 DEF HeardInv
<1>11. ArgsInv' /\ SentInv' /\ DoneInv'
  BY <1>1, <1>2, <1>9 DEF ChannelInv, ArgsInv, SentInv, DoneInv
<1>12. QED
  BY <1>10, <1>11 DEF ChannelInv

LEMMA ReadFallChannel ==
  ASSUME LineInv, ChannelInv, ReadFall
  PROVE  ChannelInv'
<1>1. /\ at = "readFall" /\ i \in 0..(Width - 1) /\ adapter \in BOOLEAN /\ clk = 1
      /\ chip.phase = "read" /\ chip \in Chips
      /\ UNCHANGED <<adapter, code, word, frame, shift, reg, result, d>>
  BY SizeAssumption DEF ReadFall, args, LineInv, ReadInv, TypeOK, Chips, Frames, Resting
<1>2. (chip' = chip \/ chip' = Listening) /\ performed' = performed
  BY <1>1 DEF ReadFall, ClockFalls
<1>3. Listening.phase # "read"
  BY ListeningType
<1>4. /\ at' \in {"sample", "read", "turn5", "readRise"}
      /\ Sampled' = Sampled
  <2>1. CASE ~adapter
    <3>1. i' = i + 1 /\ at' = IF i + 1 = Width THEN "read" ELSE "readRise"
      BY <2>1 DEF ReadFall, NextBit
    <3>2. QED
      BY <1>1, <2>1, <3>1 DEF Sampled
  <2>2. CASE adapter
    BY <1>1, <2>2 DEF ReadFall, Sampled
  <2>3. QED
    BY <1>1, <2>1, <2>2
<1>5. /\ at \in Reading /\ at \notin Resting
      /\ at' \in Reading /\ at' \notin Resting /\ at' \notin Writing /\ at' # "written"
  BY <1>1, <1>4 DEF Reading, Resting, Writing
<1>6. HeardInv'
  BY <1>1, <1>2, <1>3, <1>4, <1>5 DEF ChannelInv, HeardInv
<1>7. ArgsInv' /\ SentInv' /\ DoneInv'
  BY <1>1, <1>5 DEF ChannelInv, ArgsInv, SentInv, DoneInv
<1>8. QED
  BY <1>6, <1>7 DEF ChannelInv

LEMMA ChannelStep == LineInv /\ ChannelInv /\ [Next]_vars => ChannelInv'
<1>1. SUFFICES ASSUME LineInv, ChannelInv, [Next]_vars PROVE ChannelInv'
  OBVIOUS
<1>2. CASE StartAny
  <2>1. Loads \subseteq Codes /\ Reads \union Simples \subseteq Codes
    BY DEF Codes
  <2>2. \A c \in Reads \union Simples : c \notin Loads
    BY CodeAssumption
  <2>3. \A c \in Loads, w \in Words : Start(c, w) => ChannelInv'
    BY <1>1, <2>1, StartChannel
  <2>4. \A c \in Reads \union Simples : Start(c, NoWord) => ChannelInv'
    BY <1>1, <2>1, <2>2, StartChannel
  <2>5. QED
    BY <1>2, <2>3, <2>4 DEF StartAny
<1>3. CASE InitC3 \/ InitC5 \/ ResetData \/ ResetClk \/ Release \/ Reopen \/ ReadEnd
  <2>1. at' \in Resting
    BY <1>3 DEF InitC3, InitC5, ResetData, ResetClk, Release, Reopen, ReadEnd, Resting
  <2>2. QED
    BY <2>1, RestKeeps
<1>4. CASE TurnToRead5 \/ TurnToRead3 \/ TurnBack3 \/ TurnBack5
  BY <1>1, <1>4, TurnChannel
<1>5. CASE WriteBit \/ WriteRise \/ WriteFall \/ Written
  BY <1>1, <1>5, WriteBitChannel, WriteRiseChannel, WriteFallChannel, WrittenChannel
<1>6. CASE ReadRise \/ Sample \/ ReadFall
  BY <1>1, <1>6, ReadRiseChannel, SampleChannel, ReadFallChannel
<1>7. CASE UNCHANGED vars
  BY <1>1, <1>7 DEF ChannelInv, ArgsInv, SentInv, DoneInv, HeardInv, Sampled,
                    vars, driver, args, lines
<1>8. QED
  BY <1>1, <1>2, <1>3, <1>4, <1>5, <1>6, <1>7 DEF Next, Step

\* Both invariants hold in every behaviour.
LEMMA ChannelAlways == Spec => [](LineInv /\ ChannelInv)
<1>1. Init => LineInv /\ ChannelInv
  BY LineInit, ChannelInit
<1>2. (LineInv /\ ChannelInv) /\ [Next]_vars => (LineInv /\ ChannelInv)'
  BY LineStep, ChannelStep
<1>3. QED
  BY <1>1, <1>2, PTL DEF Spec

-----------------------------------------------------------------------------
(* The steps of the line are steps of the channel. *)

\* What the channel sees of the driver: its request and its answer.
Asked == IF at \in Resting THEN None ELSE [code |-> code, word |-> word]
Answer == AsWord(result)

\* Driver and channel are at the same point of a command.
LEMMA AskedValues ==
  ASSUME LineInv, ChannelInv
  PROVE  /\ at \in Resting => Asked = None
         /\ at \notin Resting => /\ Asked = [code |-> code, word |-> word]
                                 /\ Asked # None
                                 /\ Answer = NoWord
<1>1. ASSUME at \notin Resting
      PROVE  [code |-> code, word |-> word] # None /\ AsWord(result) = NoWord
  <2>1. code \in Codes /\ word \in Words \union {NoWord} /\ result = NoWord
    BY <1>1 DEF LineInv, CallInv, ChannelInv, ArgsInv, Resting
  <2>2. [code |-> code, word |-> word] \in [code : Codes, word : Words \union {NoWord}]
    BY <2>1
  <2>3. QED
    BY <2>1, <2>2, CodeAssumption DEF AsWord
<1>2. QED
  BY <1>1 DEF Asked, Answer

LEMMA ChannelInitial == Init => Channel!Init
<1>1. SUFFICES ASSUME Init PROVE Channel!Init
  OBVIOUS
<1>2. at = "init3" /\ performed = None /\ result = NoWord
  BY <1>1 DEF Init
<1>3. AsWord(result) = NoWord
  BY <1>2 DEF AsWord
<1>4. QED
  BY <1>2, <1>3 DEF Channel!Init, Resting

\* A step that the channel does not see.
LEMMA Unseen ==
  ASSUME UNCHANGED <<code, word, result, performed>>,
         at \in Resting <=> at' \in Resting
  PROVE  UNCHANGED Channel!vars
<1>1. Answer' = Answer /\ Asked' = Asked
  BY DEF Answer, AsWord, Asked
<1>2. QED
  BY <1>1 DEF Channel!vars, Answer, Asked

\* The call of execute_command.
LEMMA StartIssues ==
  ASSUME LineInv, StartAny
  PROVE  Channel!Issue
<1>1. PICK c \in Codes, w \in Words \union {NoWord} :
        Start(c, w) /\ [code |-> c, word |-> w] \in Channel!Commands
  <2>1. ASSUME NEW c \in Loads, NEW w \in Words, Start(c, w)
        PROVE  c \in Codes /\ [code |-> c, word |-> w] \in Channel!Commands
    BY <2>1 DEF Channel!Commands, Codes
  <2>2. ASSUME NEW c \in Reads \union Simples, Start(c, NoWord)
        PROVE  c \in Codes /\ [code |-> c, word |-> NoWord] \in Channel!Commands
    BY <2>2 DEF Channel!Commands, Codes
  <2>3. QED
    BY <2>1, <2>2 DEF StartAny
<1>2. /\ at = "idle" /\ at' = "bit" /\ code' = c /\ word' = w
      /\ result' = NoWord /\ performed' = None
  BY <1>1 DEF Start
<1>3. AsWord(result)' = NoWord
  BY <1>2 DEF AsWord
<1>4. QED
  BY <1>1, <1>2, <1>3 DEF Channel!Issue, Resting

\* The last bit of a command, or of the word of a load, reaches the chip.
LEMMA FallPerforms ==
  ASSUME LineInv, ChannelInv, WriteFall
  PROVE  Channel!Perform \/ UNCHANGED Channel!vars
<1>1. /\ at = "fall" /\ at' \in {"bit", "written"}
      /\ at \notin Resting /\ at' \notin Resting
      /\ UNCHANGED <<code, word, frame, result>>
      /\ code \in Codes /\ frame \in {"command", "data"}
  BY DEF WriteFall, args, Resting, LineInv, CallInv, TypeOK
<1>2. performed = None /\ (at' = "bit" => performed' = None)
  BY <1>1, WriteFallChannel DEF ChannelInv, SentInv, Writing
<1>3. CASE performed' = None
  BY <1>1, <1>2, <1>3, Unseen
<1>4. CASE performed' # None
  <2>1. at' = "written" /\ DoneInv'
    BY <1>1, <1>2, <1>4, WriteFallChannel DEF ChannelInv
  <2>2. ~(frame = "command" /\ code \in Loads)
    BY <1>1, <1>4, <2>1 DEF DoneInv
  <2>3. \E v \in IF code \in Reads THEN Words ELSE {word} :
          performed' = [code |-> code, word |-> v]
    <3>1. CASE frame = "command" /\ code \in Reads
      <4>1. PICK v \in Words : performed' = [code |-> code, word |-> v]
        BY <1>1, <2>1, <3>1 DEF DoneInv
      <4>2. QED
        BY <3>1, <4>1
    <3>2. CASE frame = "data" \/ code \in Simples
      <4>1. performed' = [code |-> code, word |-> word]
        BY <1>1, <2>1, <3>2 DEF DoneInv
      <4>2. code \notin Reads
        <5>1. frame = "data" => code \in Loads
          BY <1>1 DEF LineInv, CallInv, Resting
        <5>2. QED
          BY <3>2, <5>1, CodeAssumption
      <4>3. QED
        BY <4>1, <4>2
    <3>3. QED
      BY <1>1, <2>2, <3>1, <3>2 DEF Codes
  <2>4. /\ Asked = [code |-> code, word |-> word] /\ Asked # None /\ Asked' = Asked
        /\ Asked.code = code /\ Asked.word = word
        /\ Answer' = Answer
    <3>1. Asked = [code |-> code, word |-> word] /\ Asked # None
      BY <1>1, AskedValues
    <3>2. Asked' = Asked /\ Answer' = Answer
      BY <1>1 DEF Asked, Answer, AsWord
    <3>3. QED
      BY <3>1, <3>2
  <2>5. Channel!Perform
    BY <1>2, <2>3, <2>4 DEF Channel!Perform, Asked, Answer, Resting
  <2>6. QED
    BY <2>5
<1>5. QED
  BY <1>3, <1>4

\* write_serial_data ends; for a simple command or a load, so does execute_command.
LEMMA WrittenReturns ==
  ASSUME LineInv, ChannelInv, Written
  PROVE  Channel!Return \/ UNCHANGED Channel!vars
<1>1. /\ at = "written" /\ at \notin Resting
      /\ UNCHANGED <<code, word, result, performed>> /\ code \in Codes
  BY DEF Written, args, Resting, LineInv, CallInv
<1>2. CASE at' \in Resting
  <2>1. frame = "data" \/ code \in Simples
    BY <1>2 DEF Written, Resting
  <2>2. performed = [code |-> code, word |-> word]
    BY <1>1, <2>1 DEF ChannelInv, DoneInv
  <2>3. code \notin Reads
    <3>1. frame = "data" => code \in Loads
      BY <1>1 DEF LineInv, CallInv, Resting
    <3>2. QED
      BY <2>1, <3>1, CodeAssumption
  <2>4. Asked = [code |-> code, word |-> word] /\ Asked # None /\ Answer = NoWord
    BY <1>1, AskedValues
  <2>5. Asked' = None /\ Answer' = NoWord /\ Asked.code = code /\ performed # None
    BY <1>1, <1>2, <2>2, <2>4 DEF Asked, Answer, AsWord
  <2>6. QED
    BY <1>1, <2>3, <2>4, <2>5 DEF Channel!Return, Asked, Answer, Resting
<1>3. CASE at' \notin Resting
  BY <1>1, <1>3, Unseen
<1>4. QED
  BY <1>2, <1>3

\* read_serial_data ends: what it returns is the word the chip sent.
LEMMA ReadReturns ==
  ASSUME LineInv, ChannelInv, ReadEnd
  PROVE  Channel!Return
<1>1. /\ at = "read" /\ at' \in Resting /\ at \notin Resting /\ at \in Reading
      /\ result' = Returned(reg) /\ UNCHANGED <<adapter, performed>>
      /\ code \in Reads /\ reg \in Frames
  BY DEF ReadEnd, args, Resting, Reading, LineInv, CallInv, TypeOK, Frames
<1>2. /\ performed.code = code /\ performed.word \in Words
      /\ performed = [code |-> performed.code, word |-> performed.word]
      /\ \A k \in 0..(Width - 1) :
           k < Width => reg[Width - Width + k] = ChipFrame(performed.word)[k]
  BY <1>1 DEF ChannelInv, HeardInv, Sampled
<1>3. \A k \in 0..(Width - 1) : reg[k] = DataFrame(performed.word)[k]
  <2>1. \A k \in 0..(Width - 1) : k < Width /\ Width - Width + k = k
    BY Sizes
  <2>2. QED
    BY <1>2, <2>1, FrameOfWord
<1>4. AsWord(Returned(reg)) = performed.word
  BY <1>1, <1>2, <1>3, ReturnedWord
<1>5. Answer' = performed.word /\ Asked' = None
  BY <1>1, <1>4 DEF Answer, Asked, AsWord
<1>6. Asked = [code |-> code, word |-> word] /\ Asked # None /\ Asked.code = code
  BY <1>1, AskedValues
<1>7. performed # None
  BY <1>1, <1>2, CodeAssumption DEF Codes
<1>8. QED
  BY <1>1, <1>5, <1>6, <1>7 DEF Channel!Return, Asked, Answer, Resting

\* Every other step is not seen.
LEMMA OthersUnseen ==
  ASSUME LineInv, ChannelInv,
         \/ InitC3 \/ InitC5 \/ ResetData \/ ResetClk \/ Release \/ Reopen
         \/ WriteBit \/ WriteRise
         \/ TurnToRead5 \/ TurnToRead3 \/ TurnBack3 \/ TurnBack5
         \/ ReadRise \/ Sample \/ ReadFall
  PROVE  UNCHANGED Channel!vars
<1>1. UNCHANGED <<code, word, result>>
  BY DEF InitC3, InitC5, ResetData, ResetClk, Release, Reopen, WriteBit, WriteRise,
         TurnToRead5, TurnToRead3, TurnBack3, TurnBack5, ReadRise, Sample, ReadFall, driver, args
<1>2. at \in Resting <=> at' \in Resting
  BY DEF InitC3, InitC5, ResetData, ResetClk, Release, Reopen, WriteBit, WriteRise,
         TurnToRead5, TurnToRead3, TurnBack3, TurnBack5, ReadRise, Sample, ReadFall, NextBit, Resting
<1>3. performed' = performed
  <2>1. CASE ReadFall
    <3>1. clk = 1 /\ chip.phase = "read"
      BY <2>1 DEF ReadFall, LineInv, ReadInv
    <3>2. QED
      BY <2>1, <3>1 DEF ReadFall, ClockFalls
  <2>2. CASE ~ReadFall
    BY <2>2 DEF InitC3, InitC5, ResetData, ResetClk, Release, Reopen, WriteBit, WriteRise,
                TurnToRead5, TurnToRead3, TurnBack3, TurnBack5, ReadRise, Sample, ClockRises
  <2>3. QED
    BY <2>1, <2>2
<1>4. QED
  BY <1>1, <1>2, <1>3, Unseen

\* Each step of driver and chip is a step of the channel, or is not seen by it.
LEMMA ChannelSimulated ==
  LineInv /\ ChannelInv /\ [Next]_vars => [Channel!Next]_(Channel!vars)
<1>1. SUFFICES ASSUME LineInv, ChannelInv, [Next]_vars
               PROVE  Channel!Next \/ UNCHANGED Channel!vars
  OBVIOUS
<1>2. CASE StartAny
  BY <1>1, <1>2, StartIssues DEF Channel!Next
<1>3. CASE WriteFall \/ Written \/ ReadEnd
  BY <1>1, <1>3, FallPerforms, WrittenReturns, ReadReturns DEF Channel!Next
<1>4. CASE \/ InitC3 \/ InitC5 \/ ResetData \/ ResetClk \/ Release \/ Reopen
           \/ WriteBit \/ WriteRise
           \/ TurnToRead5 \/ TurnToRead3 \/ TurnBack3 \/ TurnBack5
           \/ ReadRise \/ Sample \/ ReadFall
  BY <1>1, <1>4, OthersUnseen
<1>5. CASE UNCHANGED vars
  <2>1. UNCHANGED <<code, word, result, performed>> /\ at' = at
    BY <1>5 DEF vars, driver, args
  <2>2. QED
    BY <2>1, Unseen
<1>6. QED
  BY <1>1, <1>2, <1>3, <1>4, <1>5 DEF Next, Step

\* execute_command is one command of CommandChannel (v1 and v2): the chip performs
\* the command and word that were sent, once, and a read returns the chip's word.
\* The safety part of ImplementsChannel; that it returns is left to TLC.
THEOREM DriverImplementsChannel == Spec => Channel!Spec
<1>1. Spec => [](LineInv /\ ChannelInv)
  BY ChannelAlways
<1>2. QED
  BY <1>1, ChannelInitial, ChannelSimulated, PTL DEF Spec, Channel!Spec
=============================================================================
