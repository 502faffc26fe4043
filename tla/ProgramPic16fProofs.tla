------------------------- MODULE ProgramPic16fProofs -------------------------
(***************************************************************************)
(* Proofs about ProgramPic16f, for every size of the device, every set of  *)
(* requests and every number of crashes.                                   *)
(***************************************************************************)
EXTENDS ProgramPic16f, TLAPS

(***************************************************************************)
(* The device.                                                             *)
(***************************************************************************)

\* A command keeps the device a device and leaves its supply lines alone.
LEMMA ExecuteType ==
  ASSUME NEW d \in Device, NEW c \in Command
  PROVE  /\ Execute(d, c) \in Device
         /\ Execute(d, c).vpp = d.vpp
         /\ Execute(d, c).vcc = d.vcc
<1>1. CASE ~Listening(d)
  BY <1>1 DEF Execute
<1>2. CASE Listening(d)
  <2>1. Execute(d, c) = Obey(d, c)
    BY <1>2 DEF Execute
  <2>2. CASE c.cmd \in {"loadConfig", "loadProgram", "loadData"}
    <3>. DEFINE Latches == [mem: {"program", "data"}, word: Word]
    <3>1. [mem |-> "program", word |-> c.word] \in Latches /\ [mem |-> "data", word |-> c.word] \in Latches
      BY DEF Command
    <3>2. ASSUME NEW l \in Latches
          PROVE  LET e == [d EXCEPT !.latch = l]
                 IN  e \in Device /\ e.vpp = d.vpp /\ e.vcc = d.vcc
      BY DEF Device
    <3>3. ASSUME NEW l \in Latches
          PROVE  LET e == [d EXCEPT !.space = "config", !.pc = 0, !.latch = l]
                 IN  e \in Device /\ e.vpp = d.vpp /\ e.vcc = d.vcc
      BY DEF Device
    <3>. QED  BY <2>1, <2>2, <3>1, <3>2, <3>3 DEF Obey
  <2>7. CASE c.cmd = "increment"
    <3>1. Obey(d, c) = [d EXCEPT !.pc = d.pc + 1]
      BY <2>7 DEF Obey
    <3>. QED  BY <2>1, <3>1 DEF Device
  <2>3. ASSUME NEW only \in BOOLEAN
        PROVE  /\ Burn(d, only) \in Device
               /\ Burn(d, only).vpp = d.vpp
               /\ Burn(d, only).vcc = d.vcc
    <3>1. \A old, new \in Word : Burnt(old, new, only) \in Word
      BY DEF Burnt, Word
    <3>2. d.latch.word \in Word
      BY DEF Device
    <3>3. CASE Addressed(d) = "data" /\ d.pc \in 0 .. DataSize - 1
      BY <3>1, <3>2, <3>3 DEF Burn, Device, DataImage
    <3>4. CASE Addressed(d) = "cfg" /\ d.pc \in 0 .. CfgSize - 1
      BY <3>1, <3>2, <3>4 DEF Burn, Device, ConfigImage
    <3>5. CASE Addressed(d) = "prog" /\ d.pc \in 0 .. ProgSize - 1
      BY <3>1, <3>2, <3>5 DEF Burn, Device, ProgramImage
    <3>6. CASE /\ ~(Addressed(d) = "data" /\ d.pc \in 0 .. DataSize - 1)
               /\ ~(Addressed(d) = "cfg" /\ d.pc \in 0 .. CfgSize - 1)
               /\ ~(Addressed(d) = "prog" /\ d.pc \in 0 .. ProgSize - 1)
      BY <3>6 DEF Burn
    <3>. QED  BY <3>3, <3>4, <3>5, <3>6
  <2>4. CASE c.cmd \in {"eraseProgramCycle", "programOnly"}
    BY <2>1, <2>3, <2>4 DEF Obey
  <2>5. CASE c.cmd \in {"eraseProgram", "eraseData", "chipErase"}
    <3>1. /\ AllErased(d.prog) \in ProgramImage
          /\ AllErased(d.data) \in DataImage
          /\ AllErased(d.cfg) \in ConfigImage
      BY DEF AllErased, Device, ProgramImage, DataImage, ConfigImage, Word, Erased
    <3>. QED  BY <2>1, <2>5, <3>1 DEF Obey, EraseProgram, EraseData, ChipErase, Device
  <2>6. CASE c.cmd \in {"endProgramming", "setup1", "setup7"}
    BY <2>1, <2>6 DEF Obey
  <2>. QED  BY <2>2, <2>4, <2>5, <2>6, <2>7 DEF Command, CommandNames
<1>. QED  BY <1>1, <1>2

\* Commands are records of the right type, and so are the words read back.
LEMMA CommandTypes ==
  /\ \A n \in CommandNames : Simple(n) \in Command
  /\ \A n \in CommandNames : \A w \in Word : Load(n, w) \in Command
BY DEF Simple, Load, Command, Word

LEMMA ReadType ==
  ASSUME NEW d \in Device
  PROVE  ReadProgram(d) \in Word /\ ReadData(d) \in Word
<1>1. Unknown \in Word
  <2>1. \E w \in Word : TRUE
    BY DEF Word
  <2>. QED  BY <2>1 DEF Unknown
<1>2. ReadProgram(d) \in Word
  BY <1>1 DEF ReadProgram, Device, ConfigImage, ProgramImage
<1>3. ReadData(d) \in Word
  BY <1>1 DEF ReadData, Device, DataImage
<1>. QED  BY <1>2, <1>3

\* The supply lines.
LEMMA PowerType ==
  ASSUME NEW d \in Device
  PROVE  /\ VppUp(d) \in Device   /\ VppUp(d).vpp    /\ VppUp(d).vcc = d.vcc
         /\ VppDown(d) \in Device /\ ~VppDown(d).vpp /\ VppDown(d).vcc = d.vcc
         /\ VccUp(d) \in Device   /\ VccUp(d).vcc    /\ VccUp(d).vpp = d.vpp
         /\ VccDown(d) \in Device /\ ~VccDown(d).vcc /\ VccDown(d).vpp = d.vpp
         /\ ~d.vcc => VccUp(d).pc = 0 /\ VccUp(d).space = "user"
BY DEF Device, VppUp, VppDown, VccUp, VccDown
(***************************************************************************)
(* The command sequences.                                                  *)
(***************************************************************************)
LEMMA ScriptType ==
  ASSUME TypeOK
  PROVE  Script \in Seq(Command)
<1>1. req.protectDsblData \in Word /\ Erased \in Word /\ {} \in Word
  BY InputsAssumption DEF TypeOK, Request, Erased, Word
<1>2. ConfigValue(buf) \in Word
  <2>1. buf.stray \in Word /\ buf.config \in Buffers(CfgSize)
    BY DEF TypeOK, Buffer
  <2>2. PICK n \in 0 .. CfgSize : buf.config \in [0 .. n - 1 -> Word]
    BY <2>1 DEF Buffers
  <2>. QED  BY <2>1, <2>2 DEF ConfigValue
<1>3. Increments(ConfigWord) \in Seq(Command)
  BY CommandTypes DEF Increments, ConfigWord, CommandNames
<1>4. ASSUME NEW area \in {"p", "c", "d"}, NEW type \in Nat
      PROVE  BulkErase(type, area) \in Seq(Command)
  <2>1. BulkErase1(area) \in Seq(Command)
    BY <1>1, CommandTypes DEF BulkErase1, CommandNames
  <2>2. BulkErase2(area) \in Seq(Command)
    BY <1>1, CommandTypes DEF BulkErase2, CommandNames
  <2>. QED  BY <2>1, <2>2 DEF BulkErase
<1>5. ASSUME NEW w \in Word, NEW type \in Nat
      PROVE  DisableProtection(type, w) \in Seq(Command)
  <2>1. DisableProtection1(w) \in Seq(Command)
    BY CommandTypes DEF DisableProtection1, CommandNames
  <2>2. DisableProtection2(w) \in Seq(Command)
    BY <1>3, CommandTypes DEF DisableProtection2, CommandNames
  <2>3. DisableProtection3 \in Seq(Command)
    BY <1>1, CommandTypes DEF DisableProtection3, CommandNames
  <2>. HIDE DEF DisableProtection1, DisableProtection2, DisableProtection3
  <2>. QED  BY <2>1, <2>2, <2>3 DEF DisableProtection
<1>6. ASSUME NEW w \in Word
      PROVE  WriteConfig(w) \in Seq(Command)
  BY <1>1, <1>3, CommandTypes DEF WriteConfig, CommandNames
<1>7. req.bulkEraseType \in Nat /\ req.protectDsblType \in Nat
  BY InputsAssumption DEF TypeOK, Request
<1>. DEFINE Scripts ==
       {BulkErase(req.bulkEraseType, area) : area \in {"p", "c", "d"}}
       \cup {WriteConfig(ConfigValue(buf)),
             DisableProtection(req.protectDsblType, req.protectDsblData), <<>>}
<1>8. Script \in Scripts
  BY DEF Script
<1>9. \A s \in Scripts : s \in Seq(Command)
  <2>1. <<>> \in Seq(Command)
    OBVIOUS
  <2>. QED  BY <1>1, <1>2, <1>4, <1>5, <1>6, <1>7, <2>1
<1>. HIDE DEF Scripts
<1>. QED  BY <1>8, <1>9

\* The arrays of the buffer: their indices start at 0 and stay within the
\* device, and replacing an element keeps the array one.
LEMMA BufferElements ==
  ASSUME NEW n \in Nat, NEW f \in Buffers(n)
  PROVE  /\ \A a \in DOMAIN f : a \in 0 .. n - 1 /\ f[a] \in Word
         /\ \A a \in DOMAIN f, w \in Word : [f EXCEPT ![a] = w] \in Buffers(n)
<1>1. PICK m \in 0 .. n : f \in [0 .. m - 1 -> Word]
  BY DEF Buffers
<1>2. \A a \in DOMAIN f, w \in Word : [f EXCEPT ![a] = w] \in [0 .. m - 1 -> Word]
  BY <1>1
<1>. QED  BY <1>1, <1>2 DEF Buffers
(***************************************************************************)
(* Types and control.  One step of every action keeps both.                *)
(***************************************************************************)
LEMMA TypeInit == Init => TypeOK /\ ControlInv
<1>. SUFFICES ASSUME Init PROVE TypeOK /\ ControlInv
  OBVIOUS
<1>1. PICK m \in Images :
        dev = [vpp |-> FALSE, vcc |-> FALSE, space |-> "user", pc |-> 0,
               latch |-> [mem |-> "program", word |-> {}],
               prog |-> m.prog, data |-> m.data, cfg |-> m.cfg]
  BY DEF Init
<1>2. m \in Image /\ {} \in Word
  BY InputsAssumption DEF Word
<1>3. [mem |-> "program", word |-> {}] \in [mem: {"program", "data"}, word: Word]
  BY <1>2
<1>4. dev \in Device
  BY <1>1, <1>2, <1>3 DEF Device, Image
<1>5. buf \in Buffer
  <2>1. <<>> \in [0 .. 0 - 1 -> Word]
    OBVIOUS
  <2>2. \A n \in Nat : <<>> \in Buffers(n)
    BY <2>1 DEF Buffers
  <2>. QED  BY <1>2, <2>2, SizesAssumption DEF Init, Buffer, CfgSize
<1>6. req \in Requests /\ op \in {"r", "p", "e", "invalid"}
  BY InputsAssumption DEF Init, Request
<1>. QED
  BY <1>4, <1>5, <1>6, InputsAssumption
     DEF Init, TypeOK, ControlInv, Labels, Boot, Done, Commanding

\* The array of the current job is one of the buffer's, and its words fit.
LEMMA TargetType ==
  ASSUME TypeOK
  PROVE  /\ \A a \in DOMAIN Target : a \in Nat /\ Target[a] \in Word
         /\ \A a \in DOMAIN Target, w \in Word :
              /\ job = ProgramJob => [buf EXCEPT !.program[a] = w] \in Buffer
              /\ job = DataJob => [buf EXCEPT !.data[a] = w] \in Buffer
              /\ job \notin {ProgramJob, DataJob} => [buf EXCEPT !.config[a] = w] \in Buffer
<1>1. /\ buf.program \in Buffers(ProgSize)
      /\ buf.data \in Buffers(DataSize)
      /\ buf.config \in Buffers(CfgSize)
  BY DEF TypeOK, Buffer
<1>2. ProgSize \in Nat /\ DataSize \in Nat /\ CfgSize \in Nat
  BY SizesAssumption DEF CfgSize
<1>3. Target \in Buffers(ProgSize) \cup Buffers(DataSize) \cup Buffers(CfgSize)
  BY <1>1 DEF Target
<1>4. \A a \in DOMAIN Target : a \in Nat /\ Target[a] \in Word
  BY <1>2, <1>3, BufferElements
<1>5. \A a \in DOMAIN buf.program, w \in Word : [buf.program EXCEPT ![a] = w] \in Buffers(ProgSize)
  BY <1>1, <1>2, BufferElements
<1>6. \A a \in DOMAIN buf.data, w \in Word : [buf.data EXCEPT ![a] = w] \in Buffers(DataSize)
  BY <1>1, <1>2, BufferElements
<1>7. \A a \in DOMAIN buf.config, w \in Word : [buf.config EXCEPT ![a] = w] \in Buffers(CfgSize)
  BY <1>1, <1>2, BufferElements
<1>8. buf \in Buffer
  BY DEF TypeOK
<1>. QED
  BY <1>4, <1>5, <1>6, <1>7, <1>8 DEF Buffer, Target, ProgramJob, DataJob

LEMMA TypeStep == TypeOK /\ ControlInv /\ [Next]_vars => TypeOK' /\ ControlInv'
<1>. SUFFICES ASSUME TypeOK, ControlInv, [Next]_vars PROVE TypeOK' /\ ControlInv'
  OBVIOUS
<1>. USE DEF Boot, EraseConfig, EraseProg, EraseDataMem, ConfigJob, ProgramJob, DataJob, Done
<1>1. CASE ResetProgrammer
  BY <1>1 DEF ResetProgrammer, TypeOK, ControlInv, Labels, Commanding
<1>2. CASE Accept
  <2>1. PICK r \in Requests :
          /\ req' = r /\ op' = r.op
          /\ \E p \in (IF "p" \in r.areas \ r.banks THEN Buffers(ProgSize) ELSE {r.program}),
                d \in (IF "d" \in r.areas \ r.banks THEN Buffers(DataSize) ELSE {r.data}),
                s \in (IF "c" \in r.areas \ r.banks THEN Word ELSE {{}}) :
               buf' = [program |-> p, data |-> d, config |-> r.config, stray |-> s]
    BY <1>2 DEF Accept
  <2>2. r \in Request
    BY InputsAssumption
  <2>3. r.program \in Buffers(ProgSize) /\ r.data \in Buffers(DataSize)
        /\ r.config \in Buffers(CfgSize) /\ {} \in Word
    BY <2>2 DEF Request, Word
  <2>4. buf' \in Buffer
    BY <2>1, <2>3 DEF Buffer
  <2>5. op' \in {"r", "p", "e", "invalid"}
    BY <2>1, <2>2 DEF Request
  <2>. QED  BY <1>2, <2>1, <2>4, <2>5 DEF Accept, TypeOK, ControlInv, Labels, Commanding
<1>3. CASE StartTask
  BY <1>3 DEF StartTask, AfterTask, TypeOK, ControlInv, Labels, Commanding
<1>4. CASE SelectJob
  <2>1. Wanted(job) => job \in EraseConfig .. DataJob
    BY DEF Wanted
  <2>. QED  BY <1>4, <2>1 DEF SelectJob, TypeOK, ControlInv, Labels, Commanding
<1>5. CASE NextVoltage
  BY <1>5 DEF NextVoltage, TypeOK, ControlInv, Labels, Commanding
<1>6. CASE EndTask
  BY <1>6 DEF EndTask, AfterTask, TypeOK, ControlInv, Labels, Commanding
<1>7. CASE RiseVpp
  BY <1>7, PowerType DEF RiseVpp, TypeOK, ControlInv, Labels, Commanding
<1>8. CASE RiseVcc
  <2>1. /\ BodyOf(job) \in {"script", "load", "readLoad", "fallVpp"}
        /\ BodyOf(job) = "load" => job \in {ProgramJob, DataJob} /\ op = "p"
        /\ BodyOf(job) = "readLoad" => job \in {ConfigJob, ProgramJob, DataJob} /\ op = "r"
    BY DEF BodyOf
  <2>. QED  BY <1>8, <2>1, PowerType DEF RiseVcc, TypeOK, ControlInv, Labels, Commanding
<1>9. CASE FallVpp
  BY <1>9, PowerType DEF FallVpp, TypeOK, ControlInv, Labels, Commanding
<1>10. CASE FallVcc
  BY <1>10, PowerType DEF FallVcc, TypeOK, ControlInv, Labels, Commanding
<1>11. CASE ScriptStep
  <2>1. i < Len(Script) => Script[i + 1] \in Command
    BY ScriptType DEF TypeOK
  <2>2. dev' \in Device
    BY <1>11, <2>1, ExecuteType DEF ScriptStep, TypeOK
  <2>. QED  BY <1>11, <2>2 DEF ScriptStep, TypeOK, ControlInv, Labels, Commanding
<1>12. CASE ReadLoad
  <2>1. dev' \in Device
    BY <1>12, ExecuteType, CommandTypes DEF ReadLoad, TypeOK, CommandNames, Word
  <2>. QED  BY <1>12, <2>1 DEF ReadLoad, TypeOK, ControlInv, Labels, Commanding
<1>13. CASE ReadLocation
  <2>1. CASE i \in DOMAIN Target
    <3>1. dev' \in Device
      BY <1>13, <2>1, ExecuteType, CommandTypes DEF ReadLocation, TypeOK, CommandNames
    <3>2. buf' \in Buffer
      <4>1. ReadProgram(dev) \in Word /\ ReadData(dev) \in Word /\ Erased \in Word
        BY ReadType DEF TypeOK, Erased, Word
      <4>. QED  BY <1>13, <2>1, <4>1, TargetType DEF ReadLocation
    <3>. QED  BY <1>13, <2>1, <3>1, <3>2 DEF ReadLocation, TypeOK, ControlInv, Labels, Commanding
  <2>2. CASE i \notin DOMAIN Target
    BY <1>13, <2>2 DEF ReadLocation, TypeOK, ControlInv, Labels, Commanding
  <2>. QED  BY <2>1, <2>2
<1>14. CASE WriteLoad
  <2>1. CASE i \in DOMAIN Target
    <3>1. dev' \in Device
      <4>1. Target[i] \in Word
        BY <2>1, TargetType
      <4>2. /\ Load("loadProgram", Target[i]) \in Command
            /\ Load("loadData", Target[i]) \in Command
        BY <4>1, CommandTypes DEF CommandNames
      <4>. QED  BY <1>14, <2>1, <4>2, ExecuteType DEF WriteLoad, TypeOK
    <3>2. Target' = Target
      BY <1>14 DEF WriteLoad, Target
    <3>. QED  BY <1>14, <2>1, <3>1, <3>2 DEF WriteLoad, TypeOK, ControlInv, Labels, Commanding
  <2>2. CASE i \notin DOMAIN Target
    BY <1>14, <2>2 DEF WriteLoad, TypeOK, ControlInv, Labels, Commanding
  <2>. QED  BY <2>1, <2>2
<1>15. CASE ProgramLocation
  <2>1. dev' \in Device
    BY <1>15, ExecuteType, CommandTypes DEF ProgramLocation, TypeOK, CommandNames
  <2>2. Target' = Target
    BY <1>15 DEF ProgramLocation, Target
  <2>. QED  BY <1>15, <2>1, <2>2 DEF ProgramLocation, TypeOK, ControlInv, Labels, Commanding
<1>16. CASE WriteIncrement
  <2>1. dev' \in Device
    BY <1>16, ExecuteType, CommandTypes DEF WriteIncrement, TypeOK, CommandNames
  <2>. QED  BY <1>16, <2>1 DEF WriteIncrement, TypeOK, ControlInv, Labels, Commanding
<1>17. CASE Respond
  BY <1>17 DEF Respond, TypeOK, ControlInv, Labels, Commanding
<1>18. CASE Crash
  BY <1>18, InputsAssumption DEF Crash, TypeOK, ControlInv, Labels, Commanding
<1>19. CASE UNCHANGED vars
  BY <1>19 DEF vars, TypeOK, ControlInv, Target, Commanding
<1>. QED
  BY <1>1, <1>2, <1>3, <1>4, <1>5, <1>6, <1>7, <1>8, <1>9, <1>10, <1>11, <1>12,
     <1>13, <1>14, <1>15, <1>16, <1>17, <1>18, <1>19 DEF Next, Work
\* The variables keep their types in every behaviour of the service.
THEOREM TypeCorrect == Spec => []TypeOK
<1>. QED  BY TypeInit, TypeStep, PTL DEF Spec

(***************************************************************************)
(* Supply lines and addresses.                                             *)
(***************************************************************************)

\* What the commands of the write loops do to the counter and the latch of a
\* device that listens.
LEMMA LoadEffect ==
  ASSUME NEW d \in Device, NEW w \in Word, Listening(d)
  PROVE  /\ LET e == Execute(d, Load("loadProgram", w))
            IN  e.pc = d.pc /\ e.space = d.space /\ e.latch = [mem |-> "program", word |-> w]
         /\ LET e == Execute(d, Load("loadData", w))
            IN  e.pc = d.pc /\ e.space = d.space /\ e.latch = [mem |-> "data", word |-> w]
BY DEF Execute, Obey, Load, Device

LEMMA CycleEffect ==
  ASSUME NEW d \in Device, NEW n \in {"eraseProgramCycle", "programOnly", "endProgramming"}
  PROVE  Execute(d, Simple(n)).pc = d.pc /\ Execute(d, Simple(n)).space = d.space
<1>1. \A only \in BOOLEAN : Burn(d, only).pc = d.pc /\ Burn(d, only).space = d.space
  BY DEF Burn, Device
<1>. QED  BY <1>1 DEF Execute, Obey, Simple

LEMMA IncrementEffect ==
  ASSUME NEW d \in Device, Listening(d)
  PROVE  /\ Execute(d, Simple("increment")).pc = d.pc + 1
         /\ Execute(d, Simple("increment")).space = d.space
BY DEF Execute, Obey, Simple, Device

LEMMA SafetyInit == Init => SafetyInv
<1>. SUFFICES ASSUME Init PROVE SafetyInv
  OBVIOUS
<1>1. ~dev.vpp /\ ~dev.vcc /\ at = "boot"
  BY DEF Init
<1>. QED
  BY <1>1, TypeInit DEF SafetyInv, PowerInv, AddressInv, Commanding

LEMMA SafetyStep == SafetyInv /\ [Next]_vars => SafetyInv'
<1>. SUFFICES ASSUME SafetyInv, [Next]_vars PROVE SafetyInv'
  OBVIOUS
<1>. USE DEF Boot, EraseConfig, EraseProg, EraseDataMem, ConfigJob, ProgramJob, DataJob, Done
<1>1. TypeOK' /\ ControlInv'
  BY TypeStep DEF SafetyInv
<1>. SUFFICES PowerInv' /\ AddressInv'
  BY <1>1 DEF SafetyInv
<1>. USE DEF SafetyInv
<1>2. CASE ResetProgrammer
  BY <1>2 DEF ResetProgrammer, TypeOK, PowerInv, AddressInv, ControlInv, Commanding
<1>3. CASE Accept
  BY <1>3 DEF Accept, PowerInv, AddressInv, Commanding
<1>4. CASE StartTask
  BY <1>4 DEF StartTask, AfterTask, PowerInv, AddressInv, Commanding
<1>5. CASE SelectJob \/ NextVoltage \/ EndTask
  BY <1>5 DEF SelectJob, NextVoltage, EndTask, AfterTask, PowerInv, AddressInv,
              ControlInv, Commanding
<1>6. CASE RiseVpp
  BY <1>6, PowerType DEF RiseVpp, TypeOK, PowerInv, AddressInv, ControlInv, Commanding
<1>7. CASE RiseVcc
  <2>1. dev'.vpp /\ dev'.vcc /\ dev'.pc = 0 /\ dev'.space = "user"
    BY <1>7, PowerType DEF RiseVcc, TypeOK, PowerInv
  <2>2. at' \in {"script", "load", "readLoad", "fallVpp"} /\ i' = 0
    BY <1>7 DEF RiseVcc, BodyOf
  <2>. QED  BY <2>1, <2>2 DEF PowerInv, AddressInv, Commanding
<1>8. CASE FallVpp \/ FallVcc
  BY <1>8, PowerType DEF FallVpp, FallVcc, TypeOK, PowerInv, AddressInv, ControlInv, Commanding
<1>9. CASE ScriptStep
  <2>1. i < Len(Script) => Script[i + 1] \in Command
    BY ScriptType DEF TypeOK
  <2>2. dev'.vpp = dev.vpp /\ dev'.vcc = dev.vcc
    BY <1>9, <2>1, ExecuteType DEF ScriptStep, TypeOK
  <2>. QED  BY <1>9, <2>2 DEF ScriptStep, PowerInv, AddressInv, Commanding
<1>10. CASE ReadLoad \/ ReadLocation
  <2>. DEFINE Cmds == {Load("loadProgram", {}), Load("loadData", {}), Load("loadConfig", {}),
                       Simple("increment")}
  <2>1. dev' = dev \/ \E c \in Cmds : dev' = Execute(dev, c)
    BY <1>10 DEF ReadLoad, ReadLocation
  <2>2. Cmds \subseteq Command
    BY CommandTypes DEF CommandNames, Word
  <2>. HIDE DEF Cmds
  <2>3. dev'.vpp = dev.vpp /\ dev'.vcc = dev.vcc
    BY <2>1, <2>2, ExecuteType DEF TypeOK
  <2>. QED  BY <1>10, <2>3 DEF ReadLoad, ReadLocation, PowerInv, AddressInv, Commanding
<1>11. CASE WriteLoad
  <2>1. CASE i \notin DOMAIN Target
    BY <1>11, <2>1 DEF WriteLoad, PowerInv, AddressInv, Commanding
  <2>2. CASE i \in DOMAIN Target
    <3>1. Target[i] \in Word /\ Listening(dev) /\ job \in {ProgramJob, DataJob}
      BY <1>11, <2>2, TargetType DEF WriteLoad, PowerInv, ControlInv, Commanding, Listening
    <3>2. /\ Load("loadProgram", Target[i]) \in Command
          /\ Load("loadData", Target[i]) \in Command
      BY <3>1, CommandTypes DEF CommandNames
    <3>3. dev'.vpp = dev.vpp /\ dev'.vcc = dev.vcc
      BY <1>11, <2>2, <3>2, ExecuteType DEF WriteLoad, TypeOK
    <3>4. /\ dev'.space = "user" /\ dev'.pc = i
          /\ dev'.latch = [mem  |-> IF job = DataJob THEN "data" ELSE "program",
                           word |-> Target[i]]
      <4>1. dev.space = "user" /\ dev.pc = i
        BY <1>11 DEF WriteLoad, AddressInv
      <4>2. CASE job = ProgramJob
        <5>1. dev' = Execute(dev, Load("loadProgram", Target[i]))
          BY <1>11, <2>2, <4>2 DEF WriteLoad
        <5>2. dev'.pc = dev.pc /\ dev'.space = dev.space
              /\ dev'.latch = [mem |-> "program", word |-> Target[i]]
          BY <3>1, <5>1, LoadEffect DEF TypeOK
        <5>. QED  BY <4>1, <4>2, <5>2
      <4>3. CASE job = DataJob
        <5>1. dev' = Execute(dev, Load("loadData", Target[i]))
          BY <1>11, <2>2, <4>3 DEF WriteLoad
        <5>2. dev'.pc = dev.pc /\ dev'.space = dev.space
              /\ dev'.latch = [mem |-> "data", word |-> Target[i]]
          BY <3>1, <5>1, LoadEffect DEF TypeOK
        <5>. QED  BY <4>1, <4>3, <5>2
      <4>. QED  BY <3>1, <4>2, <4>3
    <3>5. Target' = Target /\ at' = "cycle" /\ i' = i /\ job' = job
      BY <1>11, <2>2 DEF WriteLoad, Target
    <3>. QED
      BY <1>11, <2>2, <3>3, <3>4, <3>5
         DEF WriteLoad, PowerInv, AddressInv, CyclesAddressed, Commanding
  <2>. QED  BY <2>1, <2>2
<1>12. CASE ProgramLocation
  <2>. DEFINE only == Execute(dev, Simple("programOnly"))
              ended == Execute(only, Simple("endProgramming"))
              full == Execute(dev, Simple("eraseProgramCycle"))
  <2>1. only \in Device /\ only.vpp = dev.vpp /\ only.vcc = dev.vcc
        /\ only.pc = dev.pc /\ only.space = dev.space
    BY ExecuteType, CommandTypes, CycleEffect DEF TypeOK, CommandNames
  <2>2. ended.vpp = dev.vpp /\ ended.vcc = dev.vcc /\ ended.pc = dev.pc /\ ended.space = dev.space
    <3>. HIDE DEF only
    <3>. QED  BY <2>1, ExecuteType, CommandTypes, CycleEffect DEF CommandNames
  <2>3. full.vpp = dev.vpp /\ full.vcc = dev.vcc /\ full.pc = dev.pc /\ full.space = dev.space
    BY ExecuteType, CommandTypes, CycleEffect DEF TypeOK, CommandNames
  <2>4. dev' = ended \/ dev' = full
    BY <1>12 DEF ProgramLocation
  <2>. HIDE DEF ended, full
  <2>. QED
    BY <1>12, <2>2, <2>3, <2>4 DEF ProgramLocation, PowerInv, AddressInv, Commanding
<1>13. CASE WriteIncrement
  <2>1. dev'.vpp = dev.vpp /\ dev'.vcc = dev.vcc
    BY <1>13, ExecuteType, CommandTypes DEF WriteIncrement, TypeOK, CommandNames
  <2>2. dev'.pc = dev.pc + 1 /\ dev'.space = dev.space
    BY <1>13, IncrementEffect DEF WriteIncrement, TypeOK, PowerInv, Commanding, Listening
  <2>. QED  BY <1>13, <2>1, <2>2 DEF WriteIncrement, PowerInv, AddressInv, Commanding
<1>14. CASE Respond
  BY <1>14 DEF Respond, PowerInv, AddressInv, Commanding
<1>15. CASE Crash
  BY <1>15 DEF Crash, PowerInv, AddressInv, Commanding
<1>16. CASE UNCHANGED vars
  BY <1>16 DEF vars, PowerInv, AddressInv, CyclesAddressed, Target, Commanding
<1>. QED
  BY <1>2, <1>3, <1>4, <1>5, <1>6, <1>7, <1>8, <1>9, <1>10, <1>11, <1>12, <1>13,
     <1>14, <1>15, <1>16 DEF Next, Work

LEMMA SafetyAlways == Spec => []SafetyInv
<1>. QED  BY SafetyInit, SafetyStep, PTL DEF Spec

\* No command is clocked into a device that is not in programming mode.
THEOREM EveryCommandHeard == Spec => []CommandsHeard
<1>1. SafetyInv => CommandsHeard
  BY DEF SafetyInv, PowerInv, CommandsHeard, Listening
<1>. QED  BY <1>1, SafetyAlways, PTL

\* A privileged process never leaves the device running its own firmware.
THEOREM FirmwareStopped == Spec => []NeverRunsFirmware
<1>1. SafetyInv => NeverRunsFirmware
  BY DEF SafetyInv, TypeOK, Labels, PowerInv, ControlInv, NeverRunsFirmware, Commanding
<1>. QED  BY <1>1, SafetyAlways, PTL

\* The device has no supply while a privileged service waits for a client,
\* whatever crashes came before.
THEOREM UnpoweredAtRest == Spec => []UnpoweredWhenWaiting
<1>1. SafetyInv => UnpoweredWhenWaiting
  BY DEF SafetyInv, PowerInv, UnpoweredWhenWaiting
<1>. QED  BY <1>1, SafetyAlways, PTL

\* Every programming cycle of a write loop burns the right word into the
\* right location.
THEOREM RightLocation == Spec => []CyclesAddressed
<1>1. SafetyInv => CyclesAddressed
  BY DEF SafetyInv, AddressInv, CyclesAddressed
<1>. QED  BY <1>1, SafetyAlways, PTL
=============================================================================
