--------------------------- MODULE RequestExchange ---------------------------
(***************************************************************************)
(* One request from end to end: the hex file placed in a buffer (HexFile), *)
(* the request written (RequestFile), read by the programmer of v1 or v2   *)
(* (ProgramInfo), carried out, answered and read by the GUI.  The task of  *)
(* v1 is the subject of ProgramPic16f and appears here by its result; the  *)
(* one of v2 (Pic16fxxxProgrammer) runs step by step on the device.        *)
(***************************************************************************)
EXTENDS HexFile, ProgramInfo, Pic16fxxxProgrammer

CONSTANTS
  DeviceMetas,  \* the metadata of the devices
  Actions,      \* what a user may ask for: [op, area]
  HexFiles,     \* the files a user may give, as sequences of lines
  NoFile,       \* no file given
  Images        \* what the device in the socket may hold

ASSUME BitsAssumption == Bits \subseteq Nat
ASSUME ActionsAssumption ==
  Actions \subseteq [op : DOMAIN OperationLetter, area : {""} \union DOMAIN AreaLetter]
ASSUME HexFilesAssumption == HexFiles \subseteq Seq(HexLines) /\ NoFile \notin HexFiles

\* What the metadata of the GUI's resources, trimmed or not, have in common: the
\* program banks share no address; the addresses of the data memory, which is
\* programmed from 0 on, are addresses of the program memory too; the locations
\* of the configuration follow each other outside of it; 14 bits are enough.
MaxAddress == 16383
Addresses  == 0 .. MaxAddress
Layout(m) ==
  /\ \A j \in DOMAIN m.program, a \in Addresses :
       InBank(m.program[j], a) => \A k \in DOMAIN m.program \ {j} : ~InBank(m.program[k], a)
  /\ "p" \in m.areas =>
       \A j \in DOMAIN m.data, a \in Addresses :
         InBank(m.data[j], a) => \E k \in DOMAIN m.program : InBank(m.program[k], a)
  /\ "c" \in m.areas => m.config # <<>>
  /\ \A k \in DOMAIN m.config :
       /\ m.config[k].addr = m.config[1].addr + k - 1
       /\ \A j \in DOMAIN m.program : ~InBank(m.program[j], m.config[k].addr)
  /\ \A k \in DOMAIN m.program : m.program[k].start + m.program[k].length - 1 \in Addresses
  /\ \A k \in DOMAIN m.config : m.config[k].addr \in Addresses

ASSUME MetadataAssumption ==
  \A m \in DeviceMetas :
    m \in DeviceBufferMetadata /\ m.areas = {"p", "d", "c"} /\ Layout(m)

VARIABLES
  service,      \* "v1" or "v2"
  privileged,   \* does ioperm succeed? (v2)
  meta,         \* the metadata, trimmed to the action
  action,
  file,
  at,
  line,         \* the next line of the file
  buffer,       \* the DeviceBuffer of the GUI
  rest,         \* the text of the request not read yet
  info,         \* ProgramInfo of the programmer
  todo,         \* what is left of the task (v2)
  socket,       \* what the device held at first
  dev,          \* the device in the socket
  answer,       \* the lines of the answer
  shown         \* the buffer the page gets

guiVars  == <<meta, buffer, line>>
taskVars == <<todo, dev>>
inputs   == <<service, privileged, action, file, socket>>
vars == <<inputs, guiVars, at, rest, info, taskVars, answer, shown>>

Nothing == <<>>

\* Decimal numbers of the text and words of the device.
WordOf(n) == {b \in Bits : (n \div 2^b) % 2 = 1}
NumberOf(w) == FoldFunctionOnSet(LAMBDA x, y : x + y, 0, [b \in Bits |-> 2^b], w)

Init ==
  /\ service \in Versions
  /\ privileged \in BOOLEAN
  /\ meta \in DeviceMetas
  /\ action \in Actions
  /\ file \in HexFiles \union {NoFile}
  /\ service = "v1" => privileged
  \* The task of v2 takes the first bank of every area it is told of.
  /\ service = "v2" => action.area = ""
  /\ at = "start" /\ line = 1
  /\ buffer = Nothing /\ rest = Nothing /\ info = Nothing /\ todo = Nothing
  /\ answer = Nothing /\ shown = Nothing
  /\ socket \in Images
  /\ dev = [vpp |-> FALSE, vcc |-> FALSE, space |-> "user", pc |-> 0,
            latch |-> [mem |-> "program", word |-> {}],
            prog |-> socket.prog, data |-> socket.data, cfg |-> socket.cfg]

\* generateRequest up to the hex file: metadata, trim, empty buffer.
Start ==
  /\ at = "start"
  /\ meta' = TrimMetadata(meta, action.area)
  /\ buffer' = InitDeviceBuffer(meta')
  /\ at' = IF file = NoFile THEN "send" ELSE "hex"
  /\ UNCHANGED <<inputs, line, rest, info, taskVars, answer, shown>>

AtEOF == line <= Len(file) /\ ValidLine(file[line]) /\ EOFLine(file[line])

\* The packet of the next line and the buffer it makes; past the last line
\* readLine gives null, which is not a valid line.
Placed ==
  IF line > Len(file) THEN Failed
  ELSE LET packet == ReadPacket(file[line])
       IN IF packet.ok THEN UpdateBuffer(buffer, meta, packet) ELSE Failed

ReadHexLine ==
  /\ at = "hex" /\ ~AtEOF /\ Placed.ok
  /\ buffer' = Placed.buffer
  /\ line' = line + 1
  /\ UNCHANGED <<inputs, meta, at, rest, info, taskVars, answer, shown>>

\* Any exception of the reader or of the placement: the servlet sends nothing.
RefuseHexFile ==
  /\ at = "hex" /\ ~AtEOF /\ ~Placed.ok
  /\ at' = "refused"
  /\ UNCHANGED <<inputs, guiVars, rest, info, taskVars, answer, shown>>

EndHexFile ==
  /\ at = "hex" /\ AtEOF
  /\ at' = "send"
  /\ UNCHANGED <<inputs, guiVars, rest, info, taskVars, answer, shown>>

\* The request leaves the GUI and the programmer opens it.
SendRequest ==
  /\ at = "send"
  /\ rest' = FormatRequest(meta, action.op, buffer)
  /\ info' = EmptyInfo
  /\ at' = "read"
  /\ UNCHANGED <<inputs, guiVars, taskVars, answer, shown>>

ReadLetter ==
  /\ at = "read" /\ NextLetter(service, rest) # 0
  /\ LET r == ReadCase(service, rest, info)
     IN rest' = r.rest /\ info' = r.info
  /\ UNCHANGED <<inputs, guiVars, at, taskVars, answer, shown>>

\* The buffer of the programmer as the device sees it.
DeviceBuffer ==
  [program |-> [k \in DOMAIN info.program[1].data |-> WordOf(info.program[1].data[k])],
   data    |-> [k \in DOMAIN info.data[1].data |-> WordOf(info.data[1].data[k])],
   config  |-> [k \in DOMAIN info.config |->
                  [value |-> WordOf(info.config[k].value), read |-> info.config[k].read]]]

\* End of the file; without the port execute_programming_task returns at once.
StartTask ==
  /\ at = "read" /\ NextLetter(service, rest) = 0
  /\ at' = "task"
  /\ todo' = IF service = "v2" /\ privileged
               THEN TaskSteps(info.op, info.areas, Len(info.voltages), DeviceBuffer)
               ELSE Nothing
  /\ UNCHANGED <<inputs, guiVars, rest, info, dev, answer, shown>>

\* v1: the buffer is left alone (no port), or holds what the device holds after
\* the task, whatever that is; after "p" and "e" the operation is a read.
RunTaskV1 ==
  /\ at = "task" /\ service = "v1"
  /\ \E read \in BOOLEAN, image \in Images :
       LET Bank(banks, memory) ==
             [k \in DOMAIN banks |->
               [banks[k] EXCEPT !.data = [j \in DOMAIN @ |-> NumberOf(memory[j - 1])]]]
           Location(k) ==
             [info.config[k] EXCEPT !.value =
               NumberOf(IF info.config[k].read THEN image.cfg[k - 1] ELSE Erased)]
           after == IF read THEN [info EXCEPT !.op = "r",
                                    !.program = Bank(@, image.prog),
                                    !.data    = Bank(@, image.data),
                                    !.config  = [k \in DOMAIN @ |-> Location(k)]]
                            ELSE [info EXCEPT !.op = "r"]
       IN info' = after
  /\ at' = "write"
  /\ UNCHANGED <<inputs, guiVars, rest, taskVars, answer, shown>>

\* v2: the next step of the task.
RunStepV2 ==
  /\ at = "task" /\ service = "v2" /\ todo # Nothing
  /\ LET step == Head(todo)
         n    == NumberOf(WordOfStep(dev, step))
     IN /\ dev' = DeviceAfter(dev, step)
        /\ info' = IF step.do \notin {"fetch", "blank"} THEN info
                   ELSE CASE step.area = "p" -> [info EXCEPT !.program[1].data[step.k] = n]
                          [] step.area = "d" -> [info EXCEPT !.data[1].data[step.k] = n]
                          [] OTHER           -> [info EXCEPT !.config[step.k].value = n]
  /\ todo' = Tail(todo)
  /\ UNCHANGED <<inputs, guiVars, at, rest, answer, shown>>

\* pic16fxxx.c: the result of the task is not looked at.
EndTaskV2 ==
  /\ at = "task" /\ service = "v2" /\ todo = Nothing
  /\ at' = "write"
  /\ UNCHANGED <<inputs, guiVars, rest, info, taskVars, answer, shown>>

WriteAnswer ==
  /\ at = "write"
  /\ answer' = IF service = "v1" THEN WriteProgrammingInfo(info)
                                 ELSE WriteProgrammingInfoV2(info)
  /\ at' = "show"
  /\ UNCHANGED <<inputs, guiVars, rest, info, taskVars, shown>>

ShowAnswer ==
  /\ at = "show"
  /\ shown' = ParseResponse(answer)
  /\ at' = "shown"
  /\ UNCHANGED <<inputs, guiVars, rest, info, taskVars, answer>>

Finished == at \in {"refused", "shown"} /\ UNCHANGED vars

Next == \/ Start \/ ReadHexLine \/ RefuseHexFile \/ EndHexFile
        \/ SendRequest \/ ReadLetter \/ StartTask
        \/ RunTaskV1 \/ RunStepV2 \/ EndTaskV2
        \/ WriteAnswer \/ ShowAnswer \/ Finished
Spec == Init /\ [][Next]_vars

-----------------------------------------------------------------------------
(***************************************************************************)
(* Properties                                                              *)
(***************************************************************************)
Trimmed == at # "start"
Beyond  == at \in {"send", "read", "task", "write", "show", "shown"}

\* Every variable that has a value has one of its type.
TypeOK ==
  /\ at \in {"start", "hex", "refused", "send", "read", "task", "write", "show", "shown"}
  /\ service \in Versions /\ {privileged} \subseteq BOOLEAN
  /\ dev \in Device
  /\ info # Nothing => info \in ProgrammingInfo
  /\ Trimmed => /\ Len(buffer.program) = Len(meta.program)
                /\ Len(buffer.data) = Len(meta.data)
                /\ Len(buffer.config) = Len(meta.config)
                /\ \A k \in DOMAIN meta.program :
                     Len(buffer.program[k]) = meta.program[k].length

\* The lines of the file that count: those before the first end of file.
DataLines ==
  {k \in DOMAIN file : \A j \in 1 .. k : ~(ValidLine(file[j]) /\ EOFLine(file[j]))}

\* The words that a line names.  A file is in bytes; of an odd address the last
\* bit is lost, and 65535, a short of -1, becomes word 0.
StartWord(k) ==
  LET n == file[k].bytes[2] * 256 + file[k].bytes[3]
  IN IF n = 65535 THEN 0 ELSE n \div 2
NamedWords(k) == StartWord(k) .. StartWord(k) + (file[k].bytes[1] \div 2) - 1

\* What some lines of the file say of a word: the last that names it, or 0.
WordIn(lines, a) ==
  LET naming == {k \in lines : a \in NamedWords(k)}
  IN IF naming = {} THEN 0
     ELSE LET k == Max(naming)
              i == 5 + 2 * (a - StartWord(k))
          IN file[k].bytes[i] + 256 * file[k].bytes[i + 1]
FileWord(a) == WordIn(DataLines, a)

\* RawDataToBuffer puts every word of the file at its own address, low byte
\* first, the later of two lines winning, and leaves 0 everywhere else; a word
\* is kept as a short, negative from 32768 on.
HexPlaced ==
  Beyond /\ file # NoFile =>
    /\ \A k \in DOMAIN meta.program : \A j \in 1 .. meta.program[k].length :
         buffer.program[k][j] % 65536 = FileWord(meta.program[k].start + j - 1)
    /\ \A k \in DOMAIN meta.config :
         buffer.config[k] % 65536 = FileWord(meta.config[k].addr)
    /\ \A k \in DOMAIN meta.data : \A j \in 1 .. meta.data[k].length : buffer.data[k][j] = 0

\* A file the metadata of the action has room for: whole words, each line
\* inside one bank or inside the configuration locations.
WellFormed(k) ==
  /\ file[k].colon /\ file[k].digits /\ ~file[k].odd
  /\ Len(file[k].bytes) \in MinBytes .. MaxBytes
  /\ file[k].bytes[4] = 0
  /\ Len(file[k].bytes) >= file[k].bytes[1] + 4
  /\ file[k].bytes[1] % 2 = 0
  /\ Sum(file[k].bytes) % 256 = 0
Inside(k, first, length) ==
  {StartWord(k)} \union NamedWords(k) \subseteq first .. first + length - 1
HasRoom(k) ==
  \/ \E b \in DOMAIN meta.program : Inside(k, meta.program[b].start, meta.program[b].length)
  \/ meta.areas = {"p", "d", "c"} /\ Inside(k, meta.config[1].addr, Len(meta.config))
Acceptable ==
  /\ DataLines # DOMAIN file
  /\ \A k \in DataLines : WellFormed(k) /\ HasRoom(k)

\* A hex file is refused when, and only when, it is not one for this request:
\* a damaged line, no end, an address outside the device, a packet over the
\* end of a bank, an area the action left out; never is half a file sent.
HexJudged ==
  /\ at = "refused" => ~Acceptable
  /\ Beyond /\ file # NoFile => Acceptable

\* program_info.c understands a request the way DataFormatter meant it, though
\* it reads letters wherever they stand: operation, voltages, erase options,
\* banks, values and flags, with nothing of the heap left in them, and nothing
\* of the areas that the action leaves out.
RequestUnderstood ==
  at = "read" /\ NextLetter(service, rest) = 0 =>
    /\ info.op = OperationLetter[action.op] \/ (service = "v2" /\ action.op = "reset")
    /\ info.areas = <<"c", "p", "d">> /\ info.voltages = <<"n">>
    /\ service = "v1" => info.options = meta.options
    /\ action.area \notin {"", "program"} => info.program = <<>>
    /\ action.area \notin {"", "data"}    => info.data = <<>>
    /\ action.area \notin {"", "config"}  => info.config = <<>>
    /\ info.program = [k \in DOMAIN meta.program |->
         [start |-> meta.program[k].start, length |-> meta.program[k].length,
          data |-> [j \in DOMAIN buffer.program[k] |-> buffer.program[k][j] % 65536]]]
    /\ info.data = [k \in DOMAIN meta.data |->
         [start |-> meta.data[k].start, length |-> meta.data[k].length,
          data |-> buffer.data[k]]]
    /\ \A k \in DOMAIN meta.config :
         /\ info.config[k].addr  = meta.config[k].addr
         /\ info.config[k].value = buffer.config[k] % 65536
         /\ info.config[k].read  = meta.config[k].read
         /\ info.config[k].write = meta.config[k].write

\* DataFormatter shows the page what the programmer's buffer holds, whichever
\* version wrote the answer and although the answer is laid out differently
\* from the request.
AnswerUnderstood ==
  at = "shown" =>
    /\ shown.ok
    /\ shown.program = [k \in DOMAIN info.program |-> info.program[k].data]
    /\ shown.data    = [k \in DOMAIN info.data |-> info.data[k].data]
    /\ shown.config  = [k \in DOMAIN info.config |-> info.config[k].value]

Words(memory, n) == [k \in 1 .. n |-> NumberOf(memory[k - 1])]

\* The programmer of v2, run once on an open port: a read changes nothing in
\* the device and shows the whole of it, locations that cannot be read as
\* erased; every other operation leaves the device holding the buffer, in the
\* configuration memory the configuration word alone, as far as a word of the
\* device has bits for it; the device is left unpowered.
OneShotFaithful ==
  at = "shown" /\ service = "v2" /\ privileged =>
    /\ ~dev.vpp /\ ~dev.vcc
    /\ IF action.op = "read"
         THEN /\ <<dev.prog, dev.data, dev.cfg>> = <<socket.prog, socket.data, socket.cfg>>
              /\ shown.program = <<Words(socket.prog, ProgSize)>>
              /\ shown.data    = <<Words(socket.data, DataSize)>>
              /\ \A k \in DOMAIN meta.config :
                   shown.config[k] = NumberOf(IF meta.config[k].read THEN socket.cfg[k - 1]
                                                                     ELSE Erased)
         ELSE /\ dev.prog = [a \in 0 .. ProgSize - 1 |-> WordOf(buffer.program[1][a + 1])]
              /\ dev.data = [a \in 0 .. DataSize - 1 |-> WordOf(buffer.data[1][a + 1])]
              /\ dev.cfg = [socket.cfg EXCEPT ![ConfigWord] =
                              WordOf(buffer.config[ConfigWord + 1])]
=============================================================================
