---------------------- MODULE ProgramPic16fMemoryProofs ----------------------
(***************************************************************************)
(* What the programmer does to the memories of the device, for every size  *)
(* of them, every set of requests, any number of voltages and of deaths of *)
(* the process: reading changes nothing, a programming request leaves what *)
(* it asks for, an answer shows what the device holds, and so the          *)
(* programmer implements DeviceService.  The invariant follows one pass    *)
(* over the areas, location by location: what has been erased, written and *)
(* read so far.                                                            *)
(***************************************************************************)
EXTENDS ProgramPic16fProofs, ProgramPic16fService, SequenceTheorems

\* Inside execute_programming_task, after init_driver.
InTask == \/ at \in Commanding \cup {"select", "riseVpp", "riseVcc"}
          \/ at \in {"fallVpp", "fallVcc"} /\ job # Boot

\* This pass is through with job j; with location a of the loop of job j.
Finished(j) == \/ job > j
               \/ job = j /\ at \in {"fallVpp", "fallVcc"}
Passed(j, a) == \/ Finished(j)
                \/ job = j /\ at \in {"load", "cycle", "read"} /\ a < i
                \/ job = j /\ at = "inc" /\ a <= i

\* A bulk erase comes before the programming.
Bulk(r) == "c" \in r.areas /\ r.bulkEraseType \in {1, 2}

\* The lines rise for jobs the request wants, and a script is run by a job
\* that has one.
WantedInv ==
  /\ at \in Commanding \cup {"riseVpp", "riseVcc"} => Wanted(job)
  /\ at = "script" => BodyOf(job) = "script"

\* The operation is the request's, or the read back; what is written is what
\* the request brought.
RequestInv ==
  /\ op # req.op => op = "r" /\ req.op \in {"p", "e"}
  /\ op = "p" /\ (at = "start" \/ InTask) =>
       /\ buf.config = req.config
       /\ "p" \in req.areas \cap req.banks => buf.program = req.program
       /\ "d" \in req.areas \cap req.banks => buf.data = req.data

\* How far the command sequence of a programming task has come.
ScriptInv ==
  at = "script" /\ op = "p" =>
    /\ job = EraseProg /\ Bulk(req) =>
         /\ dev.space = "user"
         /\ i >= 1 => dev.latch = [mem |-> "program", word |-> Erased]
         /\ i >= 2 => \A a \in 0 .. ProgSize - 1 : dev.prog[a] = Erased
    /\ job = EraseDataMem /\ Bulk(req) =>
         /\ i >= 1 /\ req.bulkEraseType = 2 => dev.latch = [mem |-> "data", word |-> Erased]
         /\ i >= req.bulkEraseType => \A a \in 0 .. DataSize - 1 : dev.data[a] = Erased
    /\ job = ConfigJob =>
         /\ i >= 1 => dev.space = "config" /\ dev.pc = IF i <= ConfigWord THEN i - 1 ELSE ConfigWord
         /\ i >= ConfigWord + 2 => dev.latch = [mem |-> "program", word |-> ConfigValue(buf)]
         /\ i >= ConfigWord + 3 => dev.cfg[ConfigWord] = ConfigValue(buf)

\* After a bulk erase a location is erased until the loop comes to it.
EraseInv ==
  op = "p" /\ InTask /\ Bulk(req) =>
    /\ Finished(EraseProg) /\ job <= ProgramJob =>
         \A a \in 0 .. ProgSize - 1 : Passed(ProgramJob, a) \/ dev.prog[a] = Erased
    /\ Finished(EraseDataMem) /\ job <= DataJob =>
         \A a \in 0 .. DataSize - 1 : Passed(DataJob, a) \/ dev.data[a] = Erased

\* A word as a programming task has to leave it.
Programmed(old, new) == old \subseteq new /\ (WholeWords(req) => old = new)

\* The locations the loops of this pass have been through are programmed.
WriteInv ==
  op = "p" /\ InTask =>
    /\ "p" \in req.areas => \A a \in DOMAIN buf.program :
         Passed(ProgramJob, a) => Programmed(dev.prog[a], buf.program[a])
    /\ "d" \in req.areas => \A a \in DOMAIN buf.data :
         Passed(DataJob, a) => Programmed(dev.data[a], buf.data[a])
    /\ "c" \in req.areas /\ Finished(ConfigJob) => dev.cfg[ConfigWord] = ConfigValue(buf)

\* The locations the loops of this pass have been through were read, and the
\* counter of the device moves with the loop.
ReadInv ==
  op = "r" /\ InTask =>
    /\ at = "readLoad" => dev.pc = 0 /\ dev.space = "user"
    /\ at = "read" => /\ dev.pc = i
                      /\ dev.space = IF job = ConfigJob THEN "config" ELSE "user"
    /\ "p" \in req.areas => \A a \in DOMAIN buf.program :
         Passed(ProgramJob, a) => buf.program[a] = dev.prog[a]
    /\ "d" \in req.areas => \A a \in DOMAIN buf.data :
         Passed(DataJob, a) => buf.data[a] = dev.data[a]
    /\ "c" \in req.areas => \A a \in DOMAIN buf.config :
         Passed(ConfigJob, a) =>
           buf.config[a] = IF a \in req.readable THEN dev.cfg[a] ELSE Erased

\* What was programmed is still there when it is read back.
KeptInv ==
  op = "r" /\ req.op = "p" /\ privileged /\ (at \in {"start", "respond"} \/ InTask)
    => Fulfilled(req, Contents)

MemoryInv == /\ WantedInv /\ RequestInv /\ ScriptInv /\ EraseInv /\ WriteInv /\ ReadInv
             /\ KeptInv /\ ImageProgrammed /\ AnswerFaithful

(***************************************************************************)
(* What supply lines and commands do to the memories.                      *)
(***************************************************************************)
Same(d, e) == e.prog = d.prog /\ e.data = d.data /\ e.cfg = d.cfg

\* The power lines hold every memory.
LEMMA PowerKeeps ==
  ASSUME NEW d \in Device
  PROVE  Same(d, VppUp(d)) /\ Same(d, VppDown(d)) /\ Same(d, VccUp(d)) /\ Same(d, VccDown(d))
BY DEF Device, Same, VppUp, VppDown, VccUp, VccDown

Quiet == {"loadConfig", "loadProgram", "loadData", "increment", "endProgramming",
          "setup1", "setup7"}

\* So do the commands that neither burn nor erase.
LEMMA QuietKeeps ==
  ASSUME NEW d \in Device, NEW c, c.cmd \in Quiet
  PROVE  Same(d, Execute(d, c))
BY DEF Device, Same, Quiet, Execute, Obey

\* A burn changes the one location the latch and the counter name.
LEMMA BurnEffect ==
  ASSUME NEW d \in Device, NEW only \in BOOLEAN
  PROVE  LET e == Burn(d, only)
             w == d.latch.word
         IN /\ e.space = d.space /\ e.pc = d.pc /\ e.latch = d.latch
            /\ e.prog = IF Addressed(d) = "prog" /\ d.pc \in 0 .. ProgSize - 1
                          THEN [d.prog EXCEPT ![d.pc] = Burnt(d.prog[d.pc], w, only)] ELSE d.prog
            /\ e.data = IF Addressed(d) = "data" /\ d.pc \in 0 .. DataSize - 1
                          THEN [d.data EXCEPT ![d.pc] = Burnt(d.data[d.pc], w, only)] ELSE d.data
            /\ e.cfg = IF Addressed(d) = "cfg" /\ d.pc \in 0 .. CfgSize - 1
                         THEN [d.cfg EXCEPT ![d.pc] = Burnt(d.cfg[d.pc], w, only)] ELSE d.cfg
<1>1. CASE Addressed(d) = "data"
  BY <1>1 DEF Burn, Device
<1>2. CASE Addressed(d) = "cfg"
  BY <1>2 DEF Burn, Device
<1>3. CASE Addressed(d) = "prog"
  BY <1>3 DEF Burn, Device
<1>4. QED
  BY <1>1, <1>2, <1>3 DEF Addressed

\* program_location is one burn, of either kind.
LEMMA LocationBurnt ==
  ASSUME TypeOK, SafetyInv, ProgramLocation
  PROVE  dev' = Burn(dev, req.programmingType = 1)
<1>1. Listening(dev)
  BY DEF ProgramLocation, SafetyInv, PowerInv, Commanding, Listening
<1>2. CASE req.programmingType = 1
  <2>1. Execute(dev, Simple("programOnly")) = Burn(dev, TRUE)
    BY <1>1 DEF Execute, Obey, Simple
  <2>2. \A d : Execute(d, Simple("endProgramming")) = d
    BY DEF Execute, Obey, Simple
  <2>3. QED
    BY <1>2, <2>1, <2>2 DEF ProgramLocation
<1>3. CASE req.programmingType # 1
  BY <1>1, <1>3 DEF ProgramLocation, Execute, Obey, Simple
<1>4. QED
  BY <1>2, <1>3

\* A loop that finds no further location has been through all of them.
LEMMA LoopEnd ==
  ASSUME NEW n \in Nat, NEW f \in Buffers(n), NEW k \in Nat \ DOMAIN f
  PROVE  \A a \in DOMAIN f : a < k
<1>1. PICK m \in 0 .. n : f \in [0 .. m - 1 -> Word]
  BY DEF Buffers
<1>2. QED
  BY <1>1

\* The arrays of the buffer fit the device.
LEMMA BufferFits ==
  ASSUME TypeOK
  PROVE  /\ buf.program \in Buffers(ProgSize) /\ ProgSize \in Nat
         /\ buf.data \in Buffers(DataSize) /\ DataSize \in Nat
         /\ buf.config \in Buffers(CfgSize) /\ CfgSize \in Nat
         /\ \A a \in DOMAIN buf.program : a \in 0 .. ProgSize - 1 /\ buf.program[a] \in Word
         /\ \A a \in DOMAIN buf.data : a \in 0 .. DataSize - 1 /\ buf.data[a] \in Word
         /\ \A a \in DOMAIN buf.config : a \in 0 .. CfgSize - 1 /\ buf.config[a] \in Word
<1>1. /\ buf.program \in Buffers(ProgSize) /\ ProgSize \in Nat
      /\ buf.data \in Buffers(DataSize) /\ DataSize \in Nat
      /\ buf.config \in Buffers(CfgSize) /\ CfgSize \in Nat
  BY SizesAssumption DEF TypeOK, Buffer, CfgSize
<1>2. QED
  BY <1>1, BufferElements

(***************************************************************************)
(* The command sequences of a programming task.                            *)
(***************************************************************************)
\* What an erase sequence sends: the bulk erases its mode names (erase_device.c).
LEMMA EraseScripts ==
  ASSUME op = "p", req.bulkEraseType \in {1, 2}
  PROVE  /\ job = EraseProg /\ req.bulkEraseType = 1 =>
              Script = <<Load("loadProgram", Erased), Simple("eraseProgram")>>
         /\ job = EraseProg /\ req.bulkEraseType = 2 =>
              Script = <<Load("loadProgram", Erased), Simple("eraseProgram"),
                         Simple("eraseProgramCycle")>>
         /\ job = EraseDataMem /\ req.bulkEraseType = 1 => Script = <<Simple("eraseData")>>
         /\ job = EraseDataMem /\ req.bulkEraseType = 2 =>
              Script = <<Load("loadData", Erased), Simple("eraseData"),
                         Simple("eraseProgramCycle")>>
<1>1. CASE job = EraseProg
  <2>1. Script = BulkErase(req.bulkEraseType, "p")
    BY <1>1 DEF Script, EraseConfig, EraseProg, EraseDataMem, ConfigJob
  <2>2. QED
    BY <1>1, <2>1 DEF BulkErase, BulkErase1, BulkErase2, EraseProg, EraseDataMem
<1>2. CASE job = EraseDataMem
  <2>1. Script = BulkErase(req.bulkEraseType, "d")
    BY <1>2 DEF Script, EraseConfig, EraseProg, EraseDataMem, ConfigJob
  <2>2. QED
    BY <1>2, <2>1 DEF BulkErase, BulkErase1, BulkErase2, EraseProg, EraseDataMem
<1>3. QED
  BY <1>1, <1>2

\* What the configuration job sends, place by place: the walk to the
\* configuration word, the load, the burn (program_config_memory).
LEMMA ConfigScript ==
  ASSUME op = "p", job = ConfigJob
  PROVE  /\ Len(Script) = ConfigWord + 3
         /\ Script[1] = Load("loadConfig", {})
         /\ \A k \in 2 .. ConfigWord + 1 : Script[k] = Simple("increment")
         /\ Script[ConfigWord + 2] = Load("loadProgram", ConfigValue(buf))
         /\ Script[ConfigWord + 3] = Simple("eraseProgramCycle")
<1>. DEFINE v == ConfigValue(buf)
            A == <<Load("loadConfig", {})>>
            B == Increments(ConfigWord)
            C == <<Load("loadProgram", v), Simple("eraseProgramCycle")>>
            U == {Load("loadConfig", {}), Load("loadProgram", v), Simple("increment"),
                  Simple("eraseProgramCycle")}
<1>1. Script = A \o B \o C
  BY DEF Script, WriteConfig, EraseConfig, EraseProg, EraseDataMem, ConfigJob
<1>2. A \in Seq(U) /\ Len(A) = 1 /\ A[1] = Load("loadConfig", {})
  OBVIOUS
<1>3. /\ B \in Seq(U) /\ Len(B) = 7
      /\ \A k \in 1 .. 7 : B[k] = Simple("increment")
  BY DEF Increments, ConfigWord
<1>4. /\ C \in Seq(U) /\ Len(C) = 2
      /\ C[1] = Load("loadProgram", v) /\ C[2] = Simple("eraseProgramCycle")
  OBVIOUS
<1>. HIDE DEF A, B, C, U
<1>5. /\ A \o B \in Seq(U) /\ Len(A \o B) = 8
      /\ \A k \in 1 .. 8 : (A \o B)[k] = IF k <= 1 THEN A[k] ELSE B[k - 1]
  <2>1. /\ A \o B \in Seq(U) /\ Len(A \o B) = Len(A) + Len(B)
        /\ \A k \in 1 .. Len(A) + Len(B) :
             (A \o B)[k] = IF k <= Len(A) THEN A[k] ELSE B[k - Len(A)]
    BY <1>2, <1>3, ConcatProperties
  <2>2. QED
    BY <1>2, <1>3, <2>1
<1>6. /\ Len(A \o B \o C) = 10
      /\ \A k \in 1 .. 10 :
           (A \o B \o C)[k] = IF k <= 8 THEN (A \o B)[k] ELSE C[k - 8]
  <2>. DEFINE AB == A \o B
  <2>1. AB \in Seq(U) /\ Len(AB) = 8
    BY <1>5
  <2>. HIDE DEF AB
  <2>2. /\ Len(AB \o C) = Len(AB) + Len(C)
        /\ \A k \in 1 .. Len(AB) + Len(C) :
             (AB \o C)[k] = IF k <= Len(AB) THEN AB[k] ELSE C[k - Len(AB)]
    BY <1>4, <2>1, ConcatProperties
  <2>3. /\ Len(AB \o C) = 10
        /\ \A k \in 1 .. 10 : (AB \o C)[k] = IF k <= 8 THEN AB[k] ELSE C[k - 8]
    BY <1>4, <2>1, <2>2
  <2>4. QED
    BY <2>3 DEF AB
<1>7. QED
  BY <1>1, <1>2, <1>3, <1>4, <1>5, <1>6 DEF ConfigWord

(***************************************************************************)
(* The invariant, action by action.                                        *)
(***************************************************************************)
\* The programmer starts with nothing promised.
LEMMA MemoryInit == Init => MemoryInv
<1>1. SUFFICES ASSUME Init PROVE MemoryInv
  OBVIOUS
<1>2. at = "boot" /\ job = Boot /\ op = req.op
  BY <1>1 DEF Init
<1>3. ~InTask
  BY <1>2 DEF InTask, Commanding
<1>4. QED
  BY <1>2, <1>3
     DEF MemoryInv, WantedInv, RequestInv, ScriptInv, EraseInv, WriteInv, ReadInv, KeptInv,
         ImageProgrammed, AnswerFaithful, Commanding

\* A job that is not wanted leaves its area alone.
LEMMA SelectJobKeeps ==
  ASSUME SafetyInv, MemoryInv, SelectJob
  PROVE  MemoryInv'
<1>. USE DEF MemoryInv, SelectJob, Boot, EraseConfig, EraseProg, EraseDataMem,
   ConfigJob, ProgramJob,
             DataJob, Done
<1>1. Same(dev, dev') /\ Contents' = Contents
  BY PowerKeeps DEF SafetyInv, TypeOK, Same, Contents
<1>2. WantedInv'
  BY DEF SafetyInv, ControlInv, WantedInv, Wanted, BodyOf, Commanding
<1>3. RequestInv'
  BY DEF RequestInv, InTask, Commanding
<1>4. ScriptInv'
  BY <1>1 DEF ScriptInv, Commanding
<1>5. EraseInv'
  BY <1>1 DEF SafetyInv, TypeOK, ControlInv, EraseInv, Same, InTask, Finished, Passed,
     Bulk, Wanted, BodyOf, WantedInv, Commanding
<1>6. WriteInv'
  BY <1>1 DEF SafetyInv, TypeOK, ControlInv, WriteInv, Same, InTask, Finished, Passed,
     Programmed, Wanted, BodyOf, WantedInv, ConfigValue, Commanding
<1>7. ReadInv'
  BY <1>1 DEF SafetyInv, TypeOK, ControlInv, ReadInv, Same, InTask, Finished, Passed,
     Wanted, BodyOf, WantedInv, Commanding
<1>8. KeptInv'
  BY <1>1 DEF KeptInv, InTask, Commanding
<1>9. ImageProgrammed'
  BY DEF ImageProgrammed, BodyOf
<1>10. AnswerFaithful'
  BY DEF AnswerFaithful, BodyOf
<1>11. QED
  BY <1>2, <1>3, <1>4, <1>5, <1>6, <1>7, <1>8, <1>9, <1>10

\* The next pass starts from nothing done.
LEMMA NextVoltageKeeps ==
  ASSUME SafetyInv, MemoryInv, NextVoltage
  PROVE  MemoryInv'
<1>. USE DEF MemoryInv, NextVoltage, Boot, EraseConfig, EraseProg, EraseDataMem,
   ConfigJob, ProgramJob,
             DataJob, Done
<1>1. Same(dev, dev') /\ Contents' = Contents
  BY PowerKeeps DEF SafetyInv, TypeOK, Same, Contents
<1>2. WantedInv'
  BY DEF SafetyInv, ControlInv, WantedInv, Wanted, BodyOf, Commanding
<1>3. RequestInv'
  BY DEF RequestInv, InTask, Commanding
<1>4. ScriptInv'
  BY <1>1 DEF ScriptInv, Commanding
<1>5. EraseInv'
  BY <1>1 DEF SafetyInv, TypeOK, ControlInv, EraseInv, Same, InTask, Finished, Passed,
     Bulk, Wanted, BodyOf, WantedInv, Commanding
<1>6. WriteInv'
  BY <1>1 DEF SafetyInv, TypeOK, ControlInv, WriteInv, Same, InTask, Finished, Passed,
     Programmed, Wanted, BodyOf, WantedInv, ConfigValue, Commanding
<1>7. ReadInv'
  BY <1>1 DEF SafetyInv, TypeOK, ControlInv, ReadInv, Same, InTask, Finished, Passed,
     Wanted, BodyOf, WantedInv, Commanding
<1>8. KeptInv'
  BY <1>1 DEF KeptInv, InTask, Commanding
<1>9. ImageProgrammed'
  BY DEF ImageProgrammed, BodyOf
<1>10. AnswerFaithful'
  BY DEF AnswerFaithful, BodyOf
<1>11. QED
  BY <1>2, <1>3, <1>4, <1>5, <1>6, <1>7, <1>8, <1>9, <1>10

\* Nothing moves but the line.
LEMMA RiseVppKeeps ==
  ASSUME SafetyInv, MemoryInv, RiseVpp
  PROVE  MemoryInv'
<1>. USE DEF MemoryInv, RiseVpp, Boot, EraseConfig, EraseProg, EraseDataMem,
   ConfigJob, ProgramJob,
             DataJob, Done
<1>1. Same(dev, dev') /\ Contents' = Contents
  BY PowerKeeps DEF SafetyInv, TypeOK, Same, Contents
<1>2. WantedInv'
  BY DEF SafetyInv, ControlInv, WantedInv, Wanted, BodyOf, Commanding
<1>3. RequestInv'
  BY DEF RequestInv, InTask, Commanding
<1>4. ScriptInv'
  BY <1>1 DEF ScriptInv, Commanding
<1>5. EraseInv'
  BY <1>1 DEF SafetyInv, TypeOK, ControlInv, EraseInv, Same, InTask, Finished, Passed,
     Bulk, Wanted, BodyOf, WantedInv, Commanding
<1>6. WriteInv'
  BY <1>1 DEF SafetyInv, TypeOK, ControlInv, WriteInv, Same, InTask, Finished, Passed,
     Programmed, Wanted, BodyOf, WantedInv, ConfigValue, Commanding
<1>7. ReadInv'
  BY <1>1 DEF SafetyInv, TypeOK, ControlInv, ReadInv, Same, InTask, Finished, Passed,
     Wanted, BodyOf, WantedInv, Commanding
<1>8. KeptInv'
  BY <1>1 DEF KeptInv, InTask, Commanding
<1>9. ImageProgrammed'
  BY DEF ImageProgrammed, BodyOf
<1>10. AnswerFaithful'
  BY DEF AnswerFaithful, BodyOf
<1>11. QED
  BY <1>2, <1>3, <1>4, <1>5, <1>6, <1>7, <1>8, <1>9, <1>10

\* The loop of the job is at its start.
LEMMA RiseVccKeeps ==
  ASSUME SafetyInv, MemoryInv, RiseVcc
  PROVE  MemoryInv'
<1>. USE DEF MemoryInv, RiseVcc, Boot, EraseConfig, EraseProg, EraseDataMem,
   ConfigJob, ProgramJob,
             DataJob, Done
<1>1. Same(dev, dev') /\ Contents' = Contents
  BY PowerKeeps DEF SafetyInv, TypeOK, Same, Contents
<1>2. /\ dev'.pc = 0 /\ dev'.space = "user" /\ i' = 0
      /\ op = "p" => at' \in {"script", "load"}
      /\ op = "r" => at' = "readLoad"
  BY PowerType DEF SafetyInv, TypeOK, PowerInv, ControlInv, WantedInv, Wanted, BodyOf
<1>3. WantedInv'
  BY DEF SafetyInv, ControlInv, WantedInv, Wanted, BodyOf, Commanding
<1>4. RequestInv'
  BY DEF RequestInv, InTask, Commanding
<1>5. ScriptInv'
  BY <1>1, <1>2 DEF ScriptInv, Bulk, ConfigWord, Commanding
<1>6. EraseInv'
  BY <1>1, <1>2 DEF SafetyInv, TypeOK, ControlInv, EraseInv, Same, InTask, Finished,
     Passed, Bulk, Wanted, BodyOf, WantedInv, Commanding
<1>7. WriteInv'
  BY <1>1, <1>2, BufferFits DEF SafetyInv, TypeOK, ControlInv, WriteInv, Same, InTask,
     Finished, Passed, Programmed, ConfigValue, Commanding
<1>8. ReadInv'
  BY <1>1, <1>2, BufferFits DEF SafetyInv, TypeOK, ControlInv, ReadInv, Same, InTask,
     Finished, Passed, Commanding
<1>9. KeptInv'
  BY <1>1, <1>2 DEF KeptInv, InTask, Commanding
<1>10. ImageProgrammed'
  BY DEF ImageProgrammed, BodyOf
<1>11. AnswerFaithful'
  BY DEF AnswerFaithful, BodyOf
<1>12. QED
  BY <1>3, <1>4, <1>5, <1>6, <1>7, <1>8, <1>9, <1>10, <1>11

\* Nothing moves but the line.
LEMMA FallVppKeeps ==
  ASSUME SafetyInv, MemoryInv, FallVpp
  PROVE  MemoryInv'
<1>. USE DEF MemoryInv, FallVpp, Boot, EraseConfig, EraseProg, EraseDataMem,
   ConfigJob, ProgramJob,
             DataJob, Done
<1>1. Same(dev, dev') /\ Contents' = Contents
  BY PowerKeeps DEF SafetyInv, TypeOK, Same, Contents
<1>2. WantedInv'
  BY DEF SafetyInv, ControlInv, WantedInv, Wanted, BodyOf, Commanding
<1>3. RequestInv'
  BY DEF RequestInv, InTask, Commanding
<1>4. ScriptInv'
  BY <1>1 DEF ScriptInv, Commanding
<1>5. EraseInv'
  BY <1>1 DEF SafetyInv, TypeOK, ControlInv, EraseInv, Same, InTask, Finished, Passed,
     Bulk, Wanted, BodyOf, WantedInv, Commanding
<1>6. WriteInv'
  BY <1>1 DEF SafetyInv, TypeOK, ControlInv, WriteInv, Same, InTask, Finished, Passed,
     Programmed, Wanted, BodyOf, WantedInv, ConfigValue, Commanding
<1>7. ReadInv'
  BY <1>1 DEF SafetyInv, TypeOK, ControlInv, ReadInv, Same, InTask, Finished, Passed,
     Wanted, BodyOf, WantedInv, Commanding
<1>8. KeptInv'
  BY <1>1 DEF KeptInv, InTask, Commanding
<1>9. ImageProgrammed'
  BY DEF ImageProgrammed, BodyOf
<1>10. AnswerFaithful'
  BY DEF AnswerFaithful, BodyOf
<1>11. QED
  BY <1>2, <1>3, <1>4, <1>5, <1>6, <1>7, <1>8, <1>9, <1>10

\* The job is finished.
LEMMA FallVccKeeps ==
  ASSUME SafetyInv, MemoryInv, FallVcc
  PROVE  MemoryInv'
<1>. USE DEF MemoryInv, FallVcc, Boot, EraseConfig, EraseProg, EraseDataMem,
   ConfigJob, ProgramJob,
             DataJob, Done
<1>1. Same(dev, dev') /\ Contents' = Contents
  BY PowerKeeps DEF SafetyInv, TypeOK, Same, Contents
<1>2. WantedInv'
  BY DEF SafetyInv, ControlInv, WantedInv, Wanted, BodyOf, Commanding
<1>3. RequestInv'
  BY DEF RequestInv, InTask, Commanding
<1>4. ScriptInv'
  BY <1>1 DEF ScriptInv, Commanding
<1>5. EraseInv'
  BY <1>1 DEF SafetyInv, TypeOK, ControlInv, EraseInv, Same, InTask, Finished, Passed,
     Bulk, Wanted, BodyOf, WantedInv, Commanding
<1>6. WriteInv'
  BY <1>1 DEF SafetyInv, TypeOK, ControlInv, WriteInv, Same, InTask, Finished, Passed,
     Programmed, Wanted, BodyOf, WantedInv, ConfigValue, Commanding
<1>7. ReadInv'
  BY <1>1 DEF SafetyInv, TypeOK, ControlInv, ReadInv, Same, InTask, Finished, Passed,
     Wanted, BodyOf, WantedInv, Commanding
<1>8. KeptInv'
  BY <1>1 DEF KeptInv, InTask, Commanding
<1>9. ImageProgrammed'
  BY DEF ImageProgrammed, BodyOf
<1>10. AnswerFaithful'
  BY DEF AnswerFaithful, BodyOf
<1>11. QED
  BY <1>2, <1>3, <1>4, <1>5, <1>6, <1>7, <1>8, <1>9, <1>10

\* No task runs.
LEMMA ResetProgrammerKeeps ==
  ASSUME SafetyInv, MemoryInv, ResetProgrammer
  PROVE  MemoryInv'
<1>. USE DEF MemoryInv, ResetProgrammer, Boot, EraseConfig, EraseProg, EraseDataMem,
   ConfigJob, ProgramJob,
             DataJob, Done
<1>1. Same(dev, dev') /\ Contents' = Contents
  BY PowerKeeps DEF SafetyInv, TypeOK, Same, Contents
<1>2. ~InTask'
  BY DEF SafetyInv, ControlInv, InTask, Commanding
<1>3. WantedInv'
  BY DEF SafetyInv, ControlInv, WantedInv, Wanted, BodyOf, Commanding
<1>4. RequestInv'
  BY <1>2 DEF RequestInv, InTask
<1>5. ScriptInv'
  BY <1>1, <1>2 DEF ScriptInv, Commanding
<1>6. EraseInv'
  BY <1>1, <1>2 DEF SafetyInv, TypeOK, ControlInv, EraseInv, Same, InTask, Finished,
     Passed, Bulk, Wanted, BodyOf, WantedInv, Commanding
<1>7. WriteInv'
  BY <1>1, <1>2 DEF SafetyInv, TypeOK, ControlInv, WriteInv, Same, InTask, Finished,
     Passed, Programmed, Wanted, BodyOf, WantedInv, ConfigValue, Commanding
<1>8. ReadInv'
  BY <1>1, <1>2 DEF SafetyInv, TypeOK, ControlInv, ReadInv, Same, InTask, Finished,
     Passed, Wanted, BodyOf, WantedInv, Commanding
<1>9. KeptInv'
  BY <1>1, <1>2 DEF KeptInv, InTask, Commanding
<1>10. ImageProgrammed'
  BY DEF ImageProgrammed, BodyOf
<1>11. AnswerFaithful'
  BY DEF AnswerFaithful, BodyOf
<1>12. QED
  BY <1>3, <1>4, <1>5, <1>6, <1>7, <1>8, <1>9, <1>10, <1>11

\* A pass starts from nothing done.
LEMMA StartTaskKeeps ==
  ASSUME SafetyInv, MemoryInv, StartTask
  PROVE  MemoryInv'
<1>. USE DEF MemoryInv, StartTask, Boot, EraseConfig, EraseProg, EraseDataMem,
   ConfigJob, ProgramJob,
             DataJob, Done
<1>1. Same(dev, dev') /\ Contents' = Contents
  BY PowerKeeps DEF SafetyInv, TypeOK, Same, Contents
<1>2. \/ /\ privileged /\ op' = op
         /\ at' = "select" /\ job' = EraseConfig
      \/ /\ ~privileged /\ ~privileged' /\ at' \in {"start", "respond"}
         /\ op' # op => op \in {"p", "e"} /\ op' = "r"
  BY DEF AfterTask
<1>3. WantedInv'
  BY <1>2 DEF WantedInv, Commanding
<1>4. RequestInv'
  BY <1>2 DEF RequestInv, InTask, Commanding
<1>5. ScriptInv'
  BY <1>2 DEF ScriptInv, Commanding
<1>6. EraseInv'
  BY <1>2 DEF EraseInv, InTask, Finished, Commanding
<1>7. WriteInv'
  BY <1>2 DEF WriteInv, InTask, Finished, Passed, Commanding
<1>8. ReadInv'
  BY <1>2 DEF ReadInv, InTask, Finished, Passed, Commanding
<1>9. KeptInv'
  BY <1>1, <1>2 DEF KeptInv, InTask, Commanding
<1>10. ImageProgrammed'
  BY <1>2 DEF ImageProgrammed
<1>11. AnswerFaithful'
  BY <1>2 DEF AnswerFaithful
<1>12. QED
  BY <1>3, <1>4, <1>5, <1>6, <1>7, <1>8, <1>9, <1>10, <1>11

\* Everything the request lists has been done.
LEMMA EndTaskKeeps ==
  ASSUME SafetyInv, MemoryInv, EndTask
  PROVE  MemoryInv'
<1>. USE DEF MemoryInv, EndTask, Boot, EraseConfig, EraseProg, EraseDataMem,
   ConfigJob, ProgramJob,
             DataJob, Done
<1>1. Same(dev, dev') /\ Contents' = Contents
  BY PowerKeeps DEF SafetyInv, TypeOK, Same, Contents
<1>2. InTask /\ ~InTask' /\ \A j \in EraseConfig .. DataJob : Finished(j)
  BY DEF InTask, Finished, AfterTask, Commanding
<1>3. \/ op \in {"p", "e"} /\ op' = "r" /\ at' = "start"
      \/ op \notin {"p", "e"} /\ op' = op /\ at' = "respond"
  BY DEF AfterTask
<1>4. WantedInv'
  BY <1>3 DEF WantedInv, Commanding
<1>5. RequestInv'
  BY <1>2, <1>3 DEF RequestInv, SafetyInv, TypeOK
<1>6. ScriptInv'
  BY <1>3 DEF ScriptInv
<1>7. EraseInv'
  BY <1>2 DEF EraseInv
<1>8. WriteInv'
  BY <1>2 DEF WriteInv
<1>9. ReadInv'
  BY <1>2 DEF ReadInv
<1>10. KeptInv'
  <2>1. CASE op = "p"
    <3>1. op = "p" /\ InTask /\ req' = req /\ req \in Requests
      BY <1>2, <2>1 DEF SafetyInv, TypeOK
    <3>2. /\ "p" \in req.areas /\ "p" \notin req.banks => req.program = <<>>
          /\ "d" \in req.areas /\ "d" \notin req.banks => req.data = <<>>
      BY <3>1, InputsAssumption
    <3>3. "p" \in req.areas => Holds(dev.prog, req.program, req)
      BY <1>2, <3>1, <3>2 DEF RequestInv, WriteInv, Passed, Programmed, Holds
    <3>4. "d" \in req.areas => Holds(dev.data, req.data, req)
      BY <1>2, <3>1, <3>2 DEF RequestInv, WriteInv, Passed, Programmed, Holds
    <3>5. "c" \in req.areas /\ ConfigWord \in DOMAIN req.config
            => dev.cfg[ConfigWord] = req.config[ConfigWord]
      BY <1>2, <3>1 DEF RequestInv, WriteInv, ConfigValue
    <3>6. QED
      BY <1>1, <3>1, <3>3, <3>4, <3>5 DEF KeptInv, Fulfilled, Contents
  <2>2. CASE op # "p"
    BY <1>1, <1>2, <1>3, <2>2 DEF KeptInv, RequestInv
  <2>3. QED
    BY <2>1, <2>2
<1>11. ImageProgrammed'
  <2>1. CASE op = "p"
    BY <1>1, <1>2, <1>3, <2>1
       DEF ImageProgrammed, WriteInv, Passed, Programmed, Holds, Same, ConfigValue
  <2>2. CASE op # "p"
    BY <1>3, <2>2 DEF ImageProgrammed, RequestInv
  <2>3. QED
    BY <2>1, <2>2
<1>12. AnswerFaithful'
  <2>1. CASE op = "r"
    BY <1>1, <1>2, <1>3, <2>1
       DEF AnswerFaithful, ReadInv, Passed, Mirrors, MirrorsConfig, Same
  <2>2. CASE op # "r"
    BY <1>3, <2>2 DEF AnswerFaithful
  <2>3. QED
    BY <2>1, <2>2
<1>13. QED
  BY <1>4, <1>5, <1>6, <1>7, <1>8, <1>9, <1>10, <1>11, <1>12

\* What is to be written is what the request brought.
LEMMA AcceptKeeps ==
  ASSUME SafetyInv, MemoryInv, Accept
  PROVE  MemoryInv'
<1>. USE DEF MemoryInv, Accept, Boot, EraseConfig, EraseProg, EraseDataMem, ConfigJob,
   ProgramJob,
             DataJob, Done
<1>1. WantedInv'
  BY DEF SafetyInv, ControlInv, WantedInv, Wanted, BodyOf, Commanding
<1>2. RequestInv'
  BY DEF RequestInv, InTask, Commanding
<1>3. ScriptInv'
  BY DEF ScriptInv, Commanding
<1>4. EraseInv'
  BY DEF SafetyInv, TypeOK, ControlInv, EraseInv, Same, InTask, Finished, Passed,
     Bulk, Wanted, BodyOf, WantedInv, Commanding
<1>5. WriteInv'
  BY DEF SafetyInv, TypeOK, ControlInv, WriteInv, Same, InTask, Finished, Passed,
     Programmed, Wanted, BodyOf, WantedInv, ConfigValue, Commanding
<1>6. ReadInv'
  BY DEF SafetyInv, TypeOK, ControlInv, ReadInv, Same, InTask, Finished, Passed,
     Wanted, BodyOf, WantedInv, Commanding
<1>7. KeptInv'
  BY DEF KeptInv, InTask, Commanding
<1>8. ImageProgrammed'
  BY DEF ImageProgrammed, BodyOf
<1>9. AnswerFaithful'
  BY DEF AnswerFaithful, BodyOf
<1>10. QED
  BY <1>1, <1>2, <1>3, <1>4, <1>5, <1>6, <1>7, <1>8, <1>9

\* No task runs.
LEMMA RespondKeeps ==
  ASSUME SafetyInv, MemoryInv, Respond
  PROVE  MemoryInv'
<1>. USE DEF MemoryInv, Respond, Boot, EraseConfig, EraseProg, EraseDataMem,
   ConfigJob, ProgramJob,
             DataJob, Done
<1>1. WantedInv'
  BY DEF SafetyInv, ControlInv, WantedInv, Wanted, BodyOf, Commanding
<1>2. RequestInv'
  BY DEF RequestInv, InTask, Commanding
<1>3. ScriptInv'
  BY DEF ScriptInv, Commanding
<1>4. EraseInv'
  BY DEF SafetyInv, TypeOK, ControlInv, EraseInv, Same, InTask, Finished, Passed,
     Bulk, Wanted, BodyOf, WantedInv, Commanding
<1>5. WriteInv'
  BY DEF SafetyInv, TypeOK, ControlInv, WriteInv, Same, InTask, Finished, Passed,
     Programmed, Wanted, BodyOf, WantedInv, ConfigValue, Commanding
<1>6. ReadInv'
  BY DEF SafetyInv, TypeOK, ControlInv, ReadInv, Same, InTask, Finished, Passed,
     Wanted, BodyOf, WantedInv, Commanding
<1>7. KeptInv'
  BY DEF KeptInv, InTask, Commanding
<1>8. ImageProgrammed'
  BY DEF ImageProgrammed, BodyOf
<1>9. AnswerFaithful'
  BY DEF AnswerFaithful, BodyOf
<1>10. QED
  BY <1>1, <1>2, <1>3, <1>4, <1>5, <1>6, <1>7, <1>8, <1>9

\* The task is gone.
LEMMA CrashKeeps ==
  ASSUME SafetyInv, MemoryInv, Crash
  PROVE  MemoryInv'
<1>. USE DEF MemoryInv, Crash, Boot, EraseConfig, EraseProg, EraseDataMem, ConfigJob,
   ProgramJob,
             DataJob, Done
<1>1. WantedInv'
  BY DEF SafetyInv, ControlInv, WantedInv, Wanted, BodyOf, Commanding
<1>2. RequestInv'
  BY DEF RequestInv, InTask, Commanding
<1>3. ScriptInv'
  BY DEF ScriptInv, Commanding
<1>4. EraseInv'
  BY DEF SafetyInv, TypeOK, ControlInv, EraseInv, Same, InTask, Finished, Passed,
     Bulk, Wanted, BodyOf, WantedInv, Commanding
<1>5. WriteInv'
  BY DEF SafetyInv, TypeOK, ControlInv, WriteInv, Same, InTask, Finished, Passed,
     Programmed, Wanted, BodyOf, WantedInv, ConfigValue, Commanding
<1>6. ReadInv'
  BY DEF SafetyInv, TypeOK, ControlInv, ReadInv, Same, InTask, Finished, Passed,
     Wanted, BodyOf, WantedInv, Commanding
<1>7. KeptInv'
  BY DEF KeptInv, InTask, Commanding
<1>8. ImageProgrammed'
  BY DEF ImageProgrammed, BodyOf
<1>9. AnswerFaithful'
  BY DEF AnswerFaithful, BodyOf
<1>10. QED
  BY <1>1, <1>2, <1>3, <1>4, <1>5, <1>6, <1>7, <1>8, <1>9

\* The counter is where the loop starts.
LEMMA ReadLoadKeeps ==
  ASSUME SafetyInv, MemoryInv, ReadLoad
  PROVE  MemoryInv'
<1>. USE DEF MemoryInv, ReadLoad, Boot, EraseConfig, EraseProg, EraseDataMem,
   ConfigJob, ProgramJob,
             DataJob, Done
<1>1. Same(dev, dev') /\ Contents' = Contents
  <2>1. PICK c \in {Load("loadProgram", {}), Load("loadData", {}), Load("loadConfig", {})} :
          dev' = Execute(dev, c)
    OBVIOUS
  <2>2. c.cmd \in Quiet
    BY DEF Load, Quiet
  <2>3. QED
    BY <2>1, <2>2, QuietKeeps DEF SafetyInv, TypeOK, Same, Contents
<1>2. dev'.pc = 0 /\ dev'.space = IF job = ConfigJob THEN "config" ELSE "user"
  <2>1. /\ dev.pc = 0 /\ dev.space = "user" /\ Listening(dev) /\ {} \in Word
        /\ job \in {ConfigJob, ProgramJob, DataJob}
    BY DEF SafetyInv, ControlInv, PowerInv, ReadInv, InTask, Commanding, Listening, Word
  <2>2. QED
    BY <2>1, LoadEffect DEF SafetyInv, TypeOK, Device, Execute, Obey, Load
<1>3. WantedInv'
  BY DEF SafetyInv, ControlInv, WantedInv, Wanted, BodyOf, Commanding
<1>4. RequestInv'
  BY DEF RequestInv, InTask, Commanding
<1>5. ScriptInv'
  BY <1>1, <1>2 DEF ScriptInv, Commanding
<1>6. EraseInv'
  BY <1>1, <1>2 DEF SafetyInv, TypeOK, ControlInv, EraseInv, Same, InTask, Finished,
     Passed, Bulk, Wanted, BodyOf, WantedInv, Commanding
<1>7. WriteInv'
  BY <1>1, <1>2 DEF SafetyInv, TypeOK, ControlInv, WriteInv, Same, InTask, Finished,
     Passed, Programmed, Wanted, BodyOf, WantedInv, ConfigValue, Commanding
<1>8. ReadInv'
  BY <1>1, <1>2, BufferFits DEF SafetyInv, ControlInv, ReadInv, Same, InTask,
     Finished, Passed, Commanding
<1>9. KeptInv'
  BY <1>1, <1>2 DEF KeptInv, InTask, Commanding
<1>10. ImageProgrammed'
  BY DEF ImageProgrammed, BodyOf
<1>11. AnswerFaithful'
  BY DEF AnswerFaithful, BodyOf
<1>12. QED
  BY <1>3, <1>4, <1>5, <1>6, <1>7, <1>8, <1>9, <1>10, <1>11

\* The loop goes on to the next location.
LEMMA WriteIncrementKeeps ==
  ASSUME SafetyInv, MemoryInv, WriteIncrement
  PROVE  MemoryInv'
<1>. USE DEF MemoryInv, WriteIncrement, Boot, EraseConfig, EraseProg, EraseDataMem,
   ConfigJob, ProgramJob,
             DataJob, Done
<1>1. Same(dev, dev') /\ Contents' = Contents
  <2>1. Simple("increment").cmd \in Quiet
    BY DEF Simple, Quiet
  <2>2. QED
    BY <2>1, QuietKeeps DEF SafetyInv, TypeOK, Same, Contents
<1>2. WantedInv'
  BY DEF SafetyInv, ControlInv, WantedInv, Wanted, BodyOf, Commanding
<1>3. RequestInv'
  BY DEF RequestInv, InTask, Commanding
<1>4. ScriptInv'
  BY <1>1 DEF ScriptInv, Commanding
<1>5. EraseInv'
  BY <1>1 DEF SafetyInv, TypeOK, ControlInv, EraseInv, Same, InTask, Finished, Passed,
     Bulk, Wanted, BodyOf, WantedInv, Commanding
<1>6. WriteInv'
  BY <1>1, BufferFits DEF SafetyInv, TypeOK, WriteInv, Same, InTask, Finished, Passed,
     Programmed, ConfigValue, Commanding
<1>7. ReadInv'
  BY <1>1 DEF SafetyInv, TypeOK, ControlInv, ReadInv, Same, InTask, Finished, Passed,
     Wanted, BodyOf, WantedInv, Commanding
<1>8. KeptInv'
  BY <1>1 DEF KeptInv, InTask, Commanding
<1>9. ImageProgrammed'
  BY DEF ImageProgrammed, BodyOf
<1>10. AnswerFaithful'
  BY DEF AnswerFaithful, BodyOf
<1>11. QED
  BY <1>2, <1>3, <1>4, <1>5, <1>6, <1>7, <1>8, <1>9, <1>10

\* The loop goes on, or has been through all locations.
LEMMA WriteLoadKeeps ==
  ASSUME SafetyInv, MemoryInv, WriteLoad
  PROVE  MemoryInv'
<1>. USE DEF MemoryInv, WriteLoad, Boot, EraseConfig, EraseProg, EraseDataMem,
   ConfigJob, ProgramJob,
             DataJob, Done
<1>1. Same(dev, dev') /\ Contents' = Contents
  <2>1. CASE i \in DOMAIN Target
    <3>1. PICK c \in {Load("loadProgram", Target[i]), Load("loadData", Target[i])} :
            dev' = Execute(dev, c)
      BY <2>1
    <3>2. c.cmd \in Quiet
      BY DEF Load, Quiet
    <3>3. QED
      BY <3>1, <3>2, QuietKeeps DEF SafetyInv, TypeOK, Same, Contents
  <2>2. CASE i \notin DOMAIN Target
    BY <2>2 DEF Same, Contents
  <2>3. QED
    BY <2>1, <2>2
<1>2. WantedInv'
  BY DEF SafetyInv, ControlInv, WantedInv, Wanted, BodyOf, Commanding
<1>3. RequestInv'
  BY DEF RequestInv, InTask, Commanding
<1>4. ScriptInv'
  BY <1>1 DEF ScriptInv, Commanding
<1>5. EraseInv'
  BY <1>1 DEF SafetyInv, TypeOK, ControlInv, EraseInv, Same, InTask, Finished, Passed,
     Bulk, Wanted, BodyOf, WantedInv, Commanding
<1>6. WriteInv'
  <2>1. CASE i \in DOMAIN Target
    BY <1>1, <2>1, BufferFits DEF SafetyInv, ControlInv, WriteInv, Same, InTask,
       Finished, Passed, Programmed, ConfigValue, Commanding
  <2>2. CASE i \notin DOMAIN Target
    <3>1. job \in {ProgramJob, DataJob} /\ InTask /\ i \in Nat
      BY DEF SafetyInv, TypeOK, ControlInv, InTask, Commanding
    <3>2. /\ job = ProgramJob => \A a \in DOMAIN buf.program : a < i
          /\ job = DataJob => \A a \in DOMAIN buf.data : a < i
      BY <2>2, <3>1, BufferFits, LoopEnd DEF SafetyInv, Target
    <3>3. QED
      BY <1>1, <2>2, <3>1, <3>2 DEF WriteInv, Same, Finished, Passed, Programmed,
         ConfigValue
  <2>3. QED
    BY <2>1, <2>2
<1>7. ReadInv'
  BY <1>1 DEF SafetyInv, TypeOK, ControlInv, ReadInv, Same, InTask, Finished, Passed,
     Wanted, BodyOf, WantedInv, Commanding
<1>8. KeptInv'
  BY <1>1 DEF KeptInv, InTask, Commanding
<1>9. ImageProgrammed'
  BY DEF ImageProgrammed, BodyOf
<1>10. AnswerFaithful'
  BY DEF AnswerFaithful, BodyOf
<1>11. QED
  BY <1>2, <1>3, <1>4, <1>5, <1>6, <1>7, <1>8, <1>9, <1>10

\* The location just read agrees with the device, and the counter goes on.
LEMMA ReadLocationKeeps ==
  ASSUME SafetyInv, MemoryInv, ReadLocation
  PROVE  MemoryInv'
<1>. USE DEF MemoryInv, Boot, EraseConfig, EraseProg, EraseDataMem, ConfigJob,
   ProgramJob,
             DataJob, Done
<1>1. /\ op = "r" /\ op' = "r" /\ job \in {ConfigJob, ProgramJob, DataJob}
      /\ at = "read" /\ at' \in {"read", "fallVpp"} /\ InTask /\ InTask' /\ i \in Nat
      /\ UNCHANGED <<req, job, privileged>>
  BY DEF ReadLocation, SafetyInv, TypeOK, ControlInv, InTask, Commanding
<1>2. Same(dev, dev') /\ Contents' = Contents
  <2>1. Simple("increment").cmd \in Quiet
    BY DEF Simple, Quiet
  <2>2. QED
    BY <2>1, QuietKeeps DEF ReadLocation, SafetyInv, TypeOK, Same, Contents
<1>3. ReadInv'
  <2>1. CASE i \notin DOMAIN Target
    <3>1. /\ job = ProgramJob => \A a \in DOMAIN buf.program : a < i
          /\ job = DataJob => \A a \in DOMAIN buf.data : a < i
          /\ job = ConfigJob => \A a \in DOMAIN buf.config : a < i
      BY <1>1, <2>1, BufferFits, LoopEnd DEF SafetyInv, Target
    <3>2. at' = "fallVpp" /\ buf' = buf
      BY <2>1 DEF ReadLocation
    <3>3. QED
      BY <1>1, <1>2, <3>1, <3>2 DEF ReadInv, Same, Finished, Passed
  <2>2. CASE i \in DOMAIN Target
    <3>1. /\ dev.pc = i /\ dev.space = IF job = ConfigJob THEN "config" ELSE "user"
          /\ Listening(dev) /\ dev \in Device
      BY <1>1 DEF SafetyInv, TypeOK, PowerInv, ReadInv, Commanding, Listening
    <3>2. dev'.pc = i + 1 /\ dev'.space = dev.space /\ at' = "read" /\ i' = i + 1
      BY <2>2, <3>1, IncrementEffect DEF ReadLocation
    <3>3. CASE job = ProgramJob
      <4>1. i \in DOMAIN buf.program /\ buf' = [buf EXCEPT !.program[i] = ReadProgram(dev)]
        BY <2>2, <3>3 DEF ReadLocation, Target
      <4>2. ReadProgram(dev) = dev.prog[i]
        BY <3>1, <3>3, <4>1, BufferFits DEF ReadProgram, SafetyInv
      <4>3. /\ buf'.program = [buf.program EXCEPT ![i] = dev.prog[i]]
            /\ buf'.data = buf.data /\ buf'.config = buf.config
        BY <4>1, <4>2 DEF SafetyInv, TypeOK, Buffer
      <4>4. \A a \in DOMAIN buf.program : a \in Nat
        BY BufferFits DEF SafetyInv
      <4>5. QED
        BY <1>1, <1>2, <3>1, <3>2, <3>3, <4>3, <4>4 DEF ReadInv, Same, Finished, Passed
    <3>4. CASE job = DataJob
      <4>1. i \in DOMAIN buf.data /\ buf' = [buf EXCEPT !.data[i] = ReadData(dev)]
        BY <2>2, <3>4 DEF ReadLocation, Target
      <4>2. ReadData(dev) = dev.data[i]
        BY <3>1, <3>4, <4>1, BufferFits DEF ReadData, SafetyInv
      <4>3. /\ buf'.data = [buf.data EXCEPT ![i] = dev.data[i]]
            /\ buf'.program = buf.program /\ buf'.config = buf.config
        BY <4>1, <4>2 DEF SafetyInv, TypeOK, Buffer
      <4>4. \A a \in DOMAIN buf.data : a \in Nat
        BY BufferFits DEF SafetyInv
      <4>5. QED
        BY <1>1, <1>2, <3>1, <3>2, <3>4, <4>3, <4>4 DEF ReadInv, Same, Finished, Passed
    <3>5. CASE job = ConfigJob
      <4>. DEFINE w == IF i \in req.readable THEN ReadProgram(dev) ELSE Erased
      <4>1. i \in DOMAIN buf.config /\ buf' = [buf EXCEPT !.config[i] = w]
        BY <2>2, <3>5 DEF ReadLocation, Target
      <4>2. w = IF i \in req.readable THEN dev.cfg[i] ELSE Erased
        BY <3>1, <3>5, <4>1, BufferFits DEF ReadProgram, SafetyInv
      <4>. HIDE DEF w
      <4>3. /\ buf'.config = [buf.config EXCEPT ![i] = w]
            /\ buf'.program = buf.program /\ buf'.data = buf.data
        BY <4>1 DEF SafetyInv, TypeOK, Buffer
      <4>4. \A a \in DOMAIN buf.config : a \in Nat
        BY BufferFits DEF SafetyInv
      <4>5. QED
        BY <1>1, <1>2, <3>1, <3>2, <3>5, <4>2, <4>3, <4>4
           DEF ReadInv, Same, Finished, Passed
    <3>6. QED
      BY <1>1, <3>3, <3>4, <3>5
  <2>3. QED
    BY <2>1, <2>2
<1>4. WantedInv' /\ RequestInv'
  BY <1>1 DEF WantedInv, Wanted, RequestInv, Commanding
<1>5. ScriptInv' /\ EraseInv' /\ WriteInv' /\ ImageProgrammed' /\ AnswerFaithful'
  BY <1>1 DEF ScriptInv, EraseInv, WriteInv, ImageProgrammed, AnswerFaithful
<1>6. KeptInv'
  BY <1>1, <1>2 DEF KeptInv
<1>7. QED
  BY <1>3, <1>4, <1>5, <1>6

\* The burn leaves the word of the buffer in the location of the loop, and every
\* other location as it was.
LEMMA ProgramLocationKeeps ==
  ASSUME SafetyInv, MemoryInv, ProgramLocation
  PROVE  MemoryInv'
<1>. USE DEF MemoryInv, Boot, EraseConfig, EraseProg, EraseDataMem, ConfigJob,
   ProgramJob,
             DataJob, Done
<1>. DEFINE only == req.programmingType = 1
<1>1. /\ op = "p" /\ op' = "p" /\ job \in {ProgramJob, DataJob}
      /\ at = "cycle" /\ at' = "inc" /\ InTask /\ InTask' /\ i \in Nat
      /\ UNCHANGED <<req, buf, job, i, privileged>>
  BY DEF ProgramLocation, SafetyInv, TypeOK, ControlInv, InTask, Commanding
<1>2. /\ i \in DOMAIN Target /\ dev \in Device
      /\ dev.space = "user" /\ dev.pc = i
      /\ dev.latch = [mem |-> IF job = DataJob THEN "data" ELSE "program", word |-> Target[i]]
  BY <1>1 DEF SafetyInv, TypeOK, AddressInv, CyclesAddressed
<1>3. dev' = Burn(dev, only) /\ only \in BOOLEAN
  BY LocationBurnt DEF SafetyInv
<1>. HIDE DEF only
<1>4. dev'.cfg = dev.cfg
  BY <1>1, <1>2, <1>3, BurnEffect DEF Addressed
<1>5. ASSUME job = ProgramJob PROVE EraseInv' /\ WriteInv'
  <2>1. i \in DOMAIN buf.program /\ Target[i] = buf.program[i]
    BY <1>2, <1>5 DEF Target
  <2>2. /\ dev'.prog = [dev.prog EXCEPT ![i] = Burnt(dev.prog[i], buf.program[i], only)]
        /\ dev'.data = dev.data
    <3>1. /\ Addressed(dev) = "prog" /\ dev.pc \in 0 .. ProgSize - 1
          /\ dev.pc = i /\ dev.latch.word = buf.program[i]
      BY <1>2, <1>5, <2>1, BufferFits DEF Addressed, SafetyInv
    <3>2. QED
      BY <1>2, <1>3, <3>1, BurnEffect
  <2>3. Programmed(dev'.prog[i], buf.program[i])
    <3>1. i \in 0 .. ProgSize - 1 /\ buf.program[i] \in Word
      BY <2>1, BufferFits DEF SafetyInv
    <3>2. dev'.prog[i] = IF only THEN dev.prog[i] \cap buf.program[i] ELSE buf.program[i]
      BY <1>2, <2>2, <3>1 DEF Burnt, Device, ProgramImage
    <3>3. Bulk(req) => dev.prog[i] = Erased
      BY <1>1, <1>5, <3>1 DEF EraseInv, Finished, Passed
    <3>4. QED
      BY <3>1, <3>2, <3>3 DEF only, Programmed, WholeWords, Bulk, Word, Erased
  <2>4. EraseInv'
    BY <1>1, <1>2, <1>5, <2>2 DEF EraseInv, Finished, Passed, Device, ProgramImage
  <2>5. WriteInv'
    <3>1. \A a \in DOMAIN buf.program : a \in 0 .. ProgSize - 1
      BY BufferFits DEF SafetyInv
    <3>2. QED
      BY <1>1, <1>2, <1>4, <1>5, <2>2, <2>3, <3>1
         DEF WriteInv, Finished, Passed, Programmed, ConfigValue, Device, ProgramImage
  <2>6. QED
    BY <2>4, <2>5
<1>6. ASSUME job = DataJob PROVE EraseInv' /\ WriteInv'
  <2>1. i \in DOMAIN buf.data /\ Target[i] = buf.data[i]
    BY <1>2, <1>6 DEF Target
  <2>2. /\ dev'.data = [dev.data EXCEPT ![i] = Burnt(dev.data[i], buf.data[i], only)]
        /\ dev'.prog = dev.prog
    <3>1. /\ Addressed(dev) = "data" /\ dev.pc \in 0 .. DataSize - 1
          /\ dev.pc = i /\ dev.latch.word = buf.data[i]
      BY <1>2, <1>6, <2>1, BufferFits DEF Addressed, SafetyInv
    <3>2. QED
      BY <1>2, <1>3, <3>1, BurnEffect
  <2>3. Programmed(dev'.data[i], buf.data[i])
    <3>1. i \in 0 .. DataSize - 1 /\ buf.data[i] \in Word
      BY <2>1, BufferFits DEF SafetyInv
    <3>2. dev'.data[i] = IF only THEN dev.data[i] \cap buf.data[i] ELSE buf.data[i]
      BY <1>2, <2>2, <3>1 DEF Burnt, Device, DataImage
    <3>3. Bulk(req) => dev.data[i] = Erased
      BY <1>1, <1>6, <3>1 DEF EraseInv, Finished, Passed
    <3>4. QED
      BY <3>1, <3>2, <3>3 DEF only, Programmed, WholeWords, Bulk, Word, Erased
  <2>4. EraseInv'
    BY <1>1, <1>2, <1>6, <2>2 DEF EraseInv, Finished, Passed, Device, DataImage
  <2>5. WriteInv'
    <3>1. \A a \in DOMAIN buf.data : a \in 0 .. DataSize - 1
      BY BufferFits DEF SafetyInv
    <3>2. QED
      BY <1>1, <1>2, <1>4, <1>6, <2>2, <2>3, <3>1
         DEF WriteInv, Finished, Passed, Programmed, ConfigValue, Device, DataImage
  <2>6. QED
    BY <2>4, <2>5
<1>7. WantedInv' /\ RequestInv'
  BY <1>1 DEF WantedInv, Wanted, RequestInv, Commanding
<1>8. ScriptInv' /\ ReadInv' /\ KeptInv' /\ ImageProgrammed' /\ AnswerFaithful'
  BY <1>1 DEF ScriptInv, ReadInv, KeptInv, ImageProgrammed, AnswerFaithful
<1>9. QED
  BY <1>1, <1>5, <1>6, <1>7, <1>8

(***************************************************************************)
(* The command sequences.                                                  *)
(***************************************************************************)
\* A full burn of the addressed location, as one command does it.
LEMMA BurnWhole ==
  ASSUME NEW d \in Device, Listening(d)
  PROVE  LET e == Execute(d, Simple("eraseProgramCycle"))
             w == d.latch.word
         IN /\ e.space = d.space /\ e.pc = d.pc /\ e.latch = d.latch
            /\ e.prog = IF Addressed(d) = "prog" /\ d.pc \in 0 .. ProgSize - 1
                          THEN [d.prog EXCEPT ![d.pc] = w] ELSE d.prog
            /\ e.data = IF Addressed(d) = "data" /\ d.pc \in 0 .. DataSize - 1
                          THEN [d.data EXCEPT ![d.pc] = w] ELSE d.data
            /\ e.cfg = IF Addressed(d) = "cfg" /\ d.pc \in 0 .. CfgSize - 1
                         THEN [d.cfg EXCEPT ![d.pc] = w] ELSE d.cfg
<1>1. Execute(d, Simple("eraseProgramCycle")) = Burn(d, FALSE)
  BY DEF Execute, Obey, Simple
<1>2. \A old, new : Burnt(old, new, FALSE) = new
  BY DEF Burnt
<1>3. CASE Addressed(d) = "data"
  BY <1>1, <1>3 DEF Burn, Burnt, Device
<1>4. CASE Addressed(d) = "cfg"
  BY <1>1, <1>4 DEF Burn, Burnt, Device
<1>5. CASE Addressed(d) = "prog"
  BY <1>1, <1>5 DEF Burn, Burnt, Device
<1>6. QED
  BY <1>3, <1>4, <1>5 DEF Addressed

\* Loading the configuration puts the counter at its start.
LEMMA LoadWord ==
  ASSUME NEW d \in Device, NEW w \in Word, Listening(d)
  PROVE  LET e == Execute(d, Load("loadConfig", w))
         IN e.pc = 0 /\ e.space = "config" /\ Same(d, e)
BY DEF Execute, Obey, Load, Device, Same

\* What the bulk erases do to each memory.
LEMMA EraseEffect ==
  ASSUME NEW d \in Device, Listening(d)
  PROVE  /\ LET e == Execute(d, Simple("eraseProgram"))
            IN /\ e.space = d.space /\ e.latch = d.latch /\ e.data = d.data
               /\ \A a \in 0 .. ProgSize - 1 : e.prog[a] = Erased
         /\ LET e == Execute(d, Simple("eraseData"))
            IN /\ e.space = d.space /\ e.latch = d.latch /\ e.prog = d.prog
               /\ \A a \in 0 .. DataSize - 1 : e.data[a] = Erased
BY DEF Execute, Obey, Simple, Device, EraseProgram, EraseData, AllErased,
   ProgramImage, DataImage

\* The program memory is erased by the second command, and stays so.
LEMMA EraseProgStep ==
  ASSUME SafetyInv, ScriptInv, at = "script", op = "p", job = EraseProg, Bulk(req),
         i < Len(Script), dev' = Execute(dev, Script[i + 1])
  PROVE  /\ dev'.space = "user" /\ dev'.latch = [mem |-> "program", word |-> Erased]
         /\ i >= 1 => \A a \in 0 .. ProgSize - 1 : dev'.prog[a] = Erased
<1>. USE DEF EraseConfig, EraseProg, EraseDataMem, ConfigJob
<1>1. dev \in Device /\ Listening(dev) /\ Erased \in Word /\ i \in Nat
  BY DEF SafetyInv, TypeOK, PowerInv, Commanding, Listening, Erased, Word
<1>2. /\ dev.space = "user"
      /\ i >= 1 => dev.latch = [mem |-> "program", word |-> Erased]
      /\ i >= 2 => \A a \in 0 .. ProgSize - 1 : dev.prog[a] = Erased
  BY DEF ScriptInv
<1>3. \/ i = 0 /\ dev' = Execute(dev, Load("loadProgram", Erased))
      \/ i = 1 /\ dev' = Execute(dev, Simple("eraseProgram"))
      \/ i = 2 /\ dev' = Execute(dev, Simple("eraseProgramCycle"))
  BY <1>1, EraseScripts DEF Bulk
<1>4. CASE i = 0
  <2>1. dev' = Execute(dev, Load("loadProgram", Erased))
    BY <1>3, <1>4
  <2>2. QED
    <3>1. dev'.space = dev.space /\ dev'.latch = [mem |-> "program", word |-> Erased]
      BY <1>1, <2>1 DEF Execute, Obey, Load, Device
    <3>2. QED
      BY <1>2, <1>4, <3>1
<1>5. CASE i = 1
  BY <1>1, <1>2, <1>3, <1>5, EraseEffect
<1>6. CASE i = 2
  <2>1. dev' = Execute(dev, Simple("eraseProgramCycle"))
    BY <1>3, <1>6
  <2>2. /\ dev'.space = dev.space /\ dev'.latch = dev.latch
        /\ dev'.prog = IF dev.pc \in 0 .. ProgSize - 1
                         THEN [dev.prog EXCEPT ![dev.pc] = Erased] ELSE dev.prog
    <3>1. Addressed(dev) = "prog" /\ dev.latch.word = Erased
      BY <1>2, <1>6 DEF Addressed
    <3>2. QED
      BY <1>1, <2>1, <3>1, BurnWhole
  <2>3. QED
    BY <1>1, <1>2, <1>6, <2>2 DEF Device, ProgramImage
<1>7. QED
  BY <1>3, <1>4, <1>5, <1>6

\* The data memory is erased by the command that says so, and stays so; the
\* program memory is not touched.
LEMMA EraseDataStep ==
  ASSUME SafetyInv, ScriptInv, at = "script", op = "p", job = EraseDataMem, Bulk(req),
         i < Len(Script), dev' = Execute(dev, Script[i + 1])
  PROVE  /\ dev'.prog = dev.prog
         /\ req.bulkEraseType = 2 => dev'.latch = [mem |-> "data", word |-> Erased]
         /\ i + 1 >= req.bulkEraseType => \A a \in 0 .. DataSize - 1 : dev'.data[a] = Erased
<1>. USE DEF EraseConfig, EraseProg, EraseDataMem, ConfigJob
<1>1. dev \in Device /\ Listening(dev) /\ Erased \in Word /\ i \in Nat
  BY DEF SafetyInv, TypeOK, PowerInv, Commanding, Listening, Erased, Word
<1>2. /\ i >= 1 /\ req.bulkEraseType = 2 => dev.latch = [mem |-> "data", word |-> Erased]
      /\ i >= req.bulkEraseType => \A a \in 0 .. DataSize - 1 : dev.data[a] = Erased
  BY DEF ScriptInv
<1>3. CASE req.bulkEraseType = 1
  <2>1. Script = <<Simple("eraseData")>>
    BY <1>3, EraseScripts
  <2>2. i = 0 /\ dev' = Execute(dev, Simple("eraseData"))
    BY <1>1, <2>1
  <2>3. QED
    BY <1>1, <1>3, <2>2, EraseEffect
<1>4. CASE req.bulkEraseType = 2
  <2>1. \/ i = 0 /\ dev' = Execute(dev, Load("loadData", Erased))
        \/ i = 1 /\ dev' = Execute(dev, Simple("eraseData"))
        \/ i = 2 /\ dev' = Execute(dev, Simple("eraseProgramCycle"))
    BY <1>1, <1>4, EraseScripts
  <2>2. CASE i = 0
    <3>1. /\ dev' = Execute(dev, Load("loadData", Erased))
          /\ Load("loadData", Erased).cmd \in Quiet
      BY <2>1, <2>2 DEF Load, Quiet
    <3>2. dev'.latch = [mem |-> "data", word |-> Erased]
      BY <1>1, <3>1 DEF Execute, Obey, Load, Device
    <3>3. dev'.prog = dev.prog
      BY <1>1, <3>1, QuietKeeps DEF Same
    <3>4. QED
      BY <1>4, <2>2, <3>2, <3>3
  <2>3. CASE i = 1
    BY <1>1, <1>2, <1>4, <2>1, <2>3, EraseEffect
  <2>4. CASE i = 2
    <3>1. dev' = Execute(dev, Simple("eraseProgramCycle"))
      BY <2>1, <2>4
    <3>2. /\ dev'.prog = dev.prog /\ dev'.latch = dev.latch
          /\ dev'.data = IF dev.pc \in 0 .. DataSize - 1
                           THEN [dev.data EXCEPT ![dev.pc] = Erased] ELSE dev.data
      <4>1. Addressed(dev) = "data" /\ dev.latch.word = Erased
        BY <1>2, <1>4, <2>4 DEF Addressed
      <4>2. QED
        BY <1>1, <3>1, <4>1, BurnWhole
    <3>3. QED
      BY <1>1, <1>2, <1>4, <2>4, <3>2 DEF Device, DataImage
  <2>5. QED
    BY <2>1, <2>2, <2>3, <2>4
<1>5. QED
  BY <1>3, <1>4 DEF Bulk

\* The counter walks to the configuration word, which is then burned; the
\* other memories are not touched.
LEMMA ConfigStep ==
  ASSUME SafetyInv, ScriptInv, at = "script", op = "p", job = ConfigJob,
         i < Len(Script), dev' = Execute(dev, Script[i + 1])
  PROVE  /\ dev'.prog = dev.prog /\ dev'.data = dev.data
         /\ dev'.space = "config"
         /\ dev'.pc = IF i + 1 <= ConfigWord THEN i ELSE ConfigWord
         /\ i + 1 >= ConfigWord + 2 => dev'.latch = [mem |-> "program", word |-> ConfigValue(buf)]
         /\ i + 1 >= ConfigWord + 3 => dev'.cfg[ConfigWord] = ConfigValue(buf)
<1>. USE DEF ConfigWord
<1>1. dev \in Device /\ Listening(dev) /\ {} \in Word /\ i \in 0 .. 9
  <2>1. Len(Script) = 10
    BY ConfigScript
  <2>2. QED
    BY <2>1 DEF SafetyInv, TypeOK, PowerInv, Commanding, Listening, Word
<1>2. /\ i >= 1 => dev.space = "config" /\ dev.pc = IF i <= 7 THEN i - 1 ELSE 7
      /\ i >= 9 => dev.latch = [mem |-> "program", word |-> ConfigValue(buf)]
  BY DEF ScriptInv
<1>3. ConfigValue(buf) \in Word
  BY BufferFits DEF ConfigValue, SafetyInv, TypeOK, Buffer
<1>4. CASE i = 0
  <2>1. dev' = Execute(dev, Load("loadConfig", {}))
    BY <1>4, ConfigScript
  <2>2. QED
    BY <1>1, <1>4, <2>1, LoadWord DEF Same
<1>5. CASE i \in 1 .. 7
  <2>1. dev' = Execute(dev, Simple("increment")) /\ Simple("increment").cmd \in Quiet
    <3>1. i + 1 \in 2 .. 8
      BY <1>5
    <3>2. Script[i + 1] = Simple("increment")
      BY <3>1, ConfigScript
    <3>3. QED
      BY <3>2 DEF Simple, Quiet
  <2>2. dev'.pc = dev.pc + 1 /\ dev'.space = dev.space
    BY <1>1, <2>1, IncrementEffect
  <2>3. dev'.prog = dev.prog /\ dev'.data = dev.data
    BY <1>1, <2>1, QuietKeeps DEF Same
  <2>4. QED
    BY <1>2, <1>5, <2>2, <2>3
<1>6. CASE i = 8
  <2>1. /\ dev' = Execute(dev, Load("loadProgram", ConfigValue(buf)))
        /\ Load("loadProgram", ConfigValue(buf)).cmd \in Quiet
    BY <1>6, ConfigScript DEF Load, Quiet
  <2>2. /\ dev'.pc = dev.pc /\ dev'.space = dev.space
        /\ dev'.latch = [mem |-> "program", word |-> ConfigValue(buf)]
    BY <1>1, <2>1 DEF Execute, Obey, Load, Device
  <2>3. dev'.prog = dev.prog /\ dev'.data = dev.data
    BY <1>1, <2>1, QuietKeeps DEF Same
  <2>4. QED
    BY <1>2, <1>6, <2>2, <2>3
<1>7. CASE i = 9
  <2>1. dev' = Execute(dev, Simple("eraseProgramCycle"))
    BY <1>7, ConfigScript
  <2>2. /\ dev'.pc = dev.pc /\ dev'.space = dev.space /\ dev'.latch = dev.latch
        /\ dev'.prog = dev.prog /\ dev'.data = dev.data
        /\ dev'.cfg = [dev.cfg EXCEPT ![7] = ConfigValue(buf)]
    <3>1. /\ Addressed(dev) = "cfg" /\ dev.latch.word = ConfigValue(buf)
          /\ dev.pc = 7 /\ 7 \in 0 .. CfgSize - 1
      BY <1>2, <1>7 DEF Addressed, CfgSize
    <3>2. QED
      BY <1>1, <2>1, <3>1, BurnWhole
  <2>3. QED
    BY <1>1, <1>2, <1>7, <2>2 DEF Device, ConfigImage, CfgSize
<1>8. QED
  BY <1>1, <1>4, <1>5, <1>6, <1>7

\* An erasing task promises nothing here; a programming task is as far as its
\* sequence.
LEMMA ScriptStepKeeps ==
  ASSUME SafetyInv, MemoryInv, ScriptStep
  PROVE  MemoryInv'
<1>. USE DEF MemoryInv, Boot, EraseConfig, EraseProg, EraseDataMem, ConfigJob,
   ProgramJob,
             DataJob, Done
<1>1. /\ at = "script" /\ op \in {"p", "e"} /\ i \in Nat
      /\ op = "p" => job \in {EraseConfig, EraseProg, EraseDataMem, ConfigJob}
      /\ InTask /\ at' \in {"script", "fallVpp"} /\ InTask'
      /\ UNCHANGED <<req, op, buf, job, privileged>>
  BY DEF ScriptStep, SafetyInv, TypeOK, ControlInv, WantedInv, Wanted, BodyOf, InTask,
     Commanding
<1>2. \/ /\ i < Len(Script) /\ dev' = Execute(dev, Script[i + 1])
         /\ i' = i + 1 /\ at' = "script"
      \/ i >= Len(Script) /\ dev' = dev /\ at' = "fallVpp"
  <2>1. Len(Script) \in Nat
    BY ScriptType DEF SafetyInv
  <2>2. QED
    BY <1>1, <2>1 DEF ScriptStep
<1>3. WantedInv' /\ RequestInv'
  BY <1>1 DEF WantedInv, Wanted, BodyOf, RequestInv, Commanding
<1>4. ReadInv' /\ KeptInv' /\ ImageProgrammed' /\ AnswerFaithful'
  BY <1>1 DEF ReadInv, KeptInv, ImageProgrammed, AnswerFaithful
<1>5. ScriptInv'
  <2>1. SUFFICES ASSUME at' = "script", op = "p" PROVE ScriptInv'
    BY <1>1 DEF ScriptInv
  <2>2. i < Len(Script) /\ dev' = Execute(dev, Script[i + 1]) /\ i' = i + 1
    BY <1>2, <2>1
  <2>3. ASSUME job = EraseProg, Bulk(req)
        PROVE  /\ dev'.space = "user" /\ dev'.latch = [mem |-> "program", word |-> Erased]
               /\ i' >= 2 => \A a \in 0 .. ProgSize - 1 : dev'.prog[a] = Erased
    BY <1>1, <2>1, <2>2, <2>3, EraseProgStep
  <2>4. ASSUME job = EraseDataMem, Bulk(req)
        PROVE  /\ req.bulkEraseType = 2 => dev'.latch = [mem |-> "data", word |-> Erased]
               /\ i' >= req.bulkEraseType => \A a \in 0 .. DataSize - 1 : dev'.data[a] = Erased
    BY <1>1, <2>1, <2>2, <2>4, EraseDataStep
  <2>5. ASSUME job = ConfigJob
        PROVE  /\ dev'.space = "config"
               /\ dev'.pc = IF i' <= ConfigWord THEN i' - 1 ELSE ConfigWord
               /\ i' >= ConfigWord + 2
                    => dev'.latch = [mem |-> "program", word |-> ConfigValue(buf)]
               /\ i' >= ConfigWord + 3 => dev'.cfg[ConfigWord] = ConfigValue(buf)
    BY <1>1, <2>1, <2>2, <2>5, ConfigStep
  <2>6. ConfigValue(buf)' = ConfigValue(buf) /\ Bulk(req)' = Bulk(req)
    BY <1>1 DEF ConfigValue
  <2>7. QED
    BY <1>1, <2>3, <2>4, <2>5, <2>6 DEF ScriptInv
<1>6. EraseInv'
  <2>1. SUFFICES ASSUME op = "p", Bulk(req) PROVE EraseInv'
    BY <1>1 DEF EraseInv
  <2>2. CASE at' = "script"
    <3>1. job \in {EraseDataMem, ConfigJob} => dev'.prog = dev.prog
      BY <1>1, <1>2, <2>1, <2>2, EraseDataStep, ConfigStep
    <3>2. job = ConfigJob => dev'.data = dev.data
      BY <1>1, <1>2, <2>1, <2>2, ConfigStep
    <3>3. QED
      BY <1>1, <2>1, <2>2, <3>1, <3>2 DEF EraseInv, Finished, Passed
  <2>3. CASE at' = "fallVpp"
    <3>1. dev' = dev /\ i >= Len(Script)
      BY <1>2, <2>3
    <3>2. job = EraseProg => i >= 2
      BY <1>1, <2>1, <3>1, EraseScripts DEF Bulk
    <3>3. job = EraseDataMem => i >= req.bulkEraseType
      <4>1. SUFFICES ASSUME job = EraseDataMem PROVE i >= req.bulkEraseType
        OBVIOUS
      <4>2. CASE req.bulkEraseType = 1
        <5>1. Script = <<Simple("eraseData")>>
          BY <2>1, <4>1, <4>2, EraseScripts
        <5>2. Len(Script) = 1
          BY <5>1
        <5>3. QED
          BY <1>1, <3>1, <4>2, <5>2
      <4>3. CASE req.bulkEraseType = 2
        <5>1. Script = <<Load("loadData", Erased), Simple("eraseData"),
                         Simple("eraseProgramCycle")>>
          BY <2>1, <4>1, <4>3, EraseScripts
        <5>2. Len(Script) = 3
          BY <5>1
        <5>3. QED
          BY <1>1, <3>1, <4>3, <5>2
      <4>4. QED
        BY <2>1, <4>2, <4>3 DEF Bulk
    <3>4. QED
      BY <1>1, <2>1, <2>3, <3>1, <3>2, <3>3 DEF EraseInv, ScriptInv, Finished, Passed
  <2>4. QED
    BY <1>1, <2>2, <2>3
<1>7. WriteInv'
  <2>1. SUFFICES ASSUME op = "p" PROVE WriteInv'
    BY <1>1 DEF WriteInv
  <2>2. CASE at' = "script"
    BY <1>1, <2>1, <2>2 DEF WriteInv, Finished, Passed
  <2>3. CASE at' = "fallVpp"
    <3>1. dev' = dev /\ i >= Len(Script)
      BY <1>2, <2>3
    <3>2. job = ConfigJob => i >= ConfigWord + 3
      BY <2>1, <3>1, ConfigScript
    <3>3. ConfigValue(buf)' = ConfigValue(buf)
      BY <1>1 DEF ConfigValue
    <3>4. QED
      BY <1>1, <2>1, <2>3, <3>1, <3>2, <3>3 DEF WriteInv, ScriptInv, Finished, Passed
  <2>4. QED
    BY <1>1, <2>2, <2>3
<1>8. QED
  BY <1>3, <1>4, <1>5, <1>6, <1>7

-----------------------------------------------------------------------------
\* Every step of the programmer keeps the invariant.
LEMMA MemoryStep == SafetyInv /\ MemoryInv /\ [Next]_vars => MemoryInv'
<1>1. SUFFICES ASSUME SafetyInv, MemoryInv, [Next]_vars PROVE MemoryInv'
  OBVIOUS
<1>2. CASE Work
  BY <1>1, <1>2, ResetProgrammerKeeps, StartTaskKeeps, SelectJobKeeps, NextVoltageKeeps,
     EndTaskKeeps, RiseVppKeeps, RiseVccKeeps, FallVppKeeps, FallVccKeeps, ScriptStepKeeps,
     ReadLoadKeeps, ReadLocationKeeps, WriteLoadKeeps, ProgramLocationKeeps,
     WriteIncrementKeeps, RespondKeeps DEF Work
<1>3. CASE Accept \/ Crash
  BY <1>1, <1>3, AcceptKeeps, CrashKeeps
<1>4. CASE UNCHANGED vars
  BY <1>1, <1>4
     DEF vars, MemoryInv, WantedInv, RequestInv, ScriptInv, EraseInv, WriteInv, ReadInv,
         KeptInv, ImageProgrammed, AnswerFaithful, InTask, Finished, Passed, Programmed,
         Contents, ConfigValue, Wanted, BodyOf
<1>5. QED
  BY <1>1, <1>2, <1>3, <1>4 DEF Next

\* The invariant holds in every behaviour.
LEMMA MemoryAlways == Spec => [](SafetyInv /\ MemoryInv)
<1>1. Init => SafetyInv /\ MemoryInv
  BY SafetyInit, MemoryInit
<1>2. SafetyInv /\ MemoryInv /\ [Next]_vars => (SafetyInv /\ MemoryInv)'
  BY SafetyStep, MemoryStep
<1>3. QED
  BY <1>1, <1>2, PTL DEF Spec

\* When a programming task ends, every area the request lists holds what the
\* request asked for, location by location, whatever the device held before and
\* however many voltages were run (execute_programming_task).
THEOREM DeviceProgrammed == Spec => []ImageProgrammed
<1>1. MemoryInv => ImageProgrammed
  BY DEF MemoryInv
<1>2. QED
  BY <1>1, MemoryAlways, PTL

\* The answer of a service that may use the port shows what the device holds
\* (read_program_memory, read_data_memory, read_config_memory).
THEOREM AnswerShowsDevice == Spec => []AnswerFaithful
<1>1. MemoryInv => AnswerFaithful
  BY DEF MemoryInv
<1>2. QED
  BY <1>1, MemoryAlways, PTL

-----------------------------------------------------------------------------
\* Which step changes which memory, for which request.
Changes ==
  /\ op \notin {"p", "e"} => Same(dev, dev')
  /\ dev'.prog # dev.prog => op = "e" \/ req.areas \cap {"c", "p"} # {}
  /\ dev'.data # dev.data => op = "e" \/ req.areas \cap {"c", "d"} # {}
  /\ dev'.cfg # dev.cfg => "c" \in req.areas
  /\ ~Same(dev, dev') => /\ privileged /\ InTask /\ InTask' /\ op' = op
                         /\ UNCHANGED <<req, buf, privileged>>
                         /\ op = "e" => "c" \in req.areas

\* Only scripts, which come with the configuration area, and the burns of the
\* write loops change a memory.
LEMMA ChangesStep == SafetyInv /\ MemoryInv /\ [Next]_vars => Changes
<1>1. SUFFICES ASSUME SafetyInv, MemoryInv, [Next]_vars PROVE Changes
  OBVIOUS
<1>. USE DEF Boot, EraseConfig, EraseProg, EraseDataMem, ConfigJob, ProgramJob,
   DataJob, Done
<1>2. ASSUME Same(dev, dev') PROVE Changes
  BY <1>2 DEF Changes, Same
<1>3. CASE ScriptStep
  <2>1. /\ op \in {"p", "e"} /\ "c" \in req.areas /\ privileged /\ InTask /\ InTask'
        /\ op' = op /\ UNCHANGED <<req, buf, privileged>>
    BY <1>1, <1>3
       DEF ScriptStep, SafetyInv, ControlInv, MemoryInv, WantedInv, Wanted, BodyOf, InTask, Commanding
  <2>2. QED
    BY <2>1 DEF Changes
<1>4. CASE ProgramLocation
  <2>1. /\ op = "p" /\ op' = op /\ privileged /\ InTask /\ InTask'
        /\ UNCHANGED <<req, buf, privileged>>
        /\ job \in {ProgramJob, DataJob} /\ Wanted(job)
    BY <1>1, <1>4
       DEF ProgramLocation, SafetyInv, ControlInv, MemoryInv, WantedInv, InTask, Commanding
  <2>2. /\ dev \in Device /\ dev.space = "user"
        /\ dev.latch.mem = IF job = DataJob THEN "data" ELSE "program"
    BY <1>1, <1>4 DEF ProgramLocation, SafetyInv, TypeOK, AddressInv, CyclesAddressed
  <2>3. /\ Addressed(dev) = IF job = DataJob THEN "data" ELSE "prog"
        /\ dev' = Burn(dev, req.programmingType = 1)
    BY <1>1, <1>4, <2>2, LocationBurnt DEF Addressed, SafetyInv
  <2>4. /\ dev'.cfg = dev.cfg
        /\ job # DataJob => dev'.data = dev.data
        /\ job = DataJob => dev'.prog = dev.prog
    BY <2>2, <2>3, BurnEffect
  <2>5. job = ProgramJob => dev'.data = dev.data /\ "p" \in req.areas
    BY <2>1, <2>4 DEF Wanted
  <2>6. job = DataJob => dev'.prog = dev.prog /\ "d" \in req.areas
    BY <2>1, <2>4 DEF Wanted
  <2>7. QED
    BY <2>1, <2>4, <2>5, <2>6 DEF Changes
<1>5. CASE RiseVpp \/ RiseVcc \/ FallVpp \/ FallVcc
  BY <1>1, <1>2, <1>5, PowerKeeps DEF RiseVpp, RiseVcc, FallVpp, FallVcc, SafetyInv,
     TypeOK
<1>6. CASE ReadLoad
  <2>1. PICK c \in {Load("loadProgram", {}), Load("loadData", {}), Load("loadConfig", {})} :
          dev' = Execute(dev, c)
    BY <1>6 DEF ReadLoad
  <2>2. c.cmd \in Quiet
    BY DEF Load, Quiet
  <2>3. QED
    BY <1>1, <1>2, <2>1, <2>2, QuietKeeps DEF SafetyInv, TypeOK
<1>7. CASE ReadLocation \/ WriteIncrement
  <2>1. Simple("increment").cmd \in Quiet
    BY DEF Simple, Quiet
  <2>2. dev' = dev \/ dev' = Execute(dev, Simple("increment"))
    BY <1>7 DEF ReadLocation, WriteIncrement
  <2>3. Same(dev, dev')
    BY <1>1, <2>1, <2>2, QuietKeeps DEF SafetyInv, TypeOK, Same
  <2>4. QED
    BY <1>2, <2>3
<1>8. CASE WriteLoad
  <2>1. dev' = dev \/ \E c \in {Load("loadProgram", Target[i]), Load("loadData", Target[i])} :
                        dev' = Execute(dev, c)
    BY <1>8 DEF WriteLoad
  <2>2. \A c \in {Load("loadProgram", Target[i]), Load("loadData", Target[i])} : c.cmd \in Quiet
    BY DEF Load, Quiet
  <2>3. Same(dev, dev')
    BY <1>1, <2>1, <2>2, QuietKeeps DEF SafetyInv, TypeOK, Same
  <2>4. QED
    BY <1>2, <2>3
<1>9. CASE \/ ResetProgrammer \/ StartTask \/ SelectJob \/ NextVoltage \/ EndTask
           \/ Respond \/ Accept \/ Crash \/ UNCHANGED vars
  <2>1. dev' = dev
    BY <1>9
       DEF ResetProgrammer, StartTask, SelectJob, NextVoltage, EndTask, Respond, Accept, Crash, vars
  <2>2. QED
    BY <1>2, <2>1 DEF Same
<1>10. QED
  BY <1>1, <1>3, <1>4, <1>5, <1>6, <1>7, <1>8, <1>9 DEF Next, Work

\* A reading task changes nothing in the device, and a programming task reaches a
\* memory only through its area or the bulk erase of the configuration area
\* (execute_programming_task, erase_device.c).
THEOREM MemoryOnlyThroughAreas == Spec => MemoryKept
<1>1. SafetyInv /\ MemoryInv /\ [Next]_vars =>
        [/\ op \notin {"p", "e"} =>
              dev'.prog = dev.prog /\ dev'.data = dev.data /\ dev'.cfg = dev.cfg
         /\ dev'.prog # dev.prog => op = "e" \/ req.areas \cap {"c", "p"} # {}
         /\ dev'.data # dev.data => op = "e" \/ req.areas \cap {"c", "d"} # {}
         /\ dev'.cfg # dev.cfg => "c" \in req.areas]_vars
  BY ChangesStep DEF Changes, Same
<1>2. QED
  BY <1>1, MemoryAlways, PTL DEF Spec, MemoryKept

-----------------------------------------------------------------------------
(***************************************************************************)
(* The programmer implements DeviceService.                                *)
(***************************************************************************)
\* The first state of the programmer is one of the abstract service.
LEMMA ServiceInit == Init => Service!Init
<1>1. SUFFICES ASSUME Init PROVE Service!Init
  OBVIOUS
<1>2. PICK m \in Images :
        dev = [vpp |-> FALSE, vcc |-> FALSE, space |-> "user", pc |-> 0,
               latch |-> [mem |-> "program", word |-> {}],
               prog |-> m.prog, data |-> m.data, cfg |-> m.cfg]
  BY <1>1 DEF Init
<1>3. Contents \in Image
  BY <1>2, InputsAssumption DEF Contents, Image
<1>4. Phase = "down" /\ ServiceAnswer = {}
  BY <1>1 DEF Init, Phase, ServiceAnswer
<1>5. QED
  BY <1>1, <1>3, <1>4 DEF Init, Service!Init, Service!NoAnswer

\* The phases of the abstract service.
LEMMA PhaseOf ==
  ASSUME SafetyInv
  PROVE  /\ at = "boot" => Phase = "down"
         /\ at \in {"fallVpp", "fallVcc"} /\ job = Boot => Phase = "down"
         /\ at = "accept" => Phase = "waiting"
         /\ at = "respond" => Phase = "answering"
         /\ InTask \/ at = "start" => Phase = "working"
         /\ at # "respond" => ServiceAnswer = {}
         /\ at = "respond" => ServiceAnswer = {buf}
BY DEF Phase, ServiceAnswer, InTask, Commanding, SafetyInv, ControlInv, Boot

\* What ends a task: the read back of a programming or erasing task, or the answer.
LEMMA AnswerRefines ==
  ASSUME SafetyInv, MemoryInv, SafetyInv', MemoryInv', StartTask \/ EndTask,
         at' = "respond"
  PROVE  Service!Answer
<1>1. /\ at = "start" \/ InTask
      /\ op' = op /\ op \notin {"p", "e"}
      /\ UNCHANGED <<dev, req, buf, privileged>>
  BY DEF StartTask, EndTask, AfterTask, InTask, Commanding
<1>2. Phase = "working" /\ Phase' = "answering" /\ ServiceAnswer' = {buf}
  <2>1. Phase = "working"
    BY <1>1, PhaseOf
  <2>2. Phase' = "answering" /\ ServiceAnswer' = {buf'}
    BY DEF Phase, ServiceAnswer
  <2>3. QED
    BY <1>1, <2>1, <2>2
<1>3. Contents' = Contents
  BY <1>1 DEF Contents
<1>4. privileged /\ req.op # "invalid" => Reflects(buf, req, Contents)
  <2>1. SUFFICES ASSUME privileged, req.op # "invalid" PROVE Reflects(buf, req, Contents)
    OBVIOUS
  <2>2. op = "r" /\ op' = "r"
    <3>1. op \in {"r", "p", "e", "invalid"}
      BY DEF SafetyInv, TypeOK
    <3>2. op # req.op => op = "r"
      BY DEF MemoryInv, RequestInv
    <3>3. QED
      BY <1>1, <2>1, <3>1, <3>2
  <2>3. AnswerFaithful'
    BY DEF MemoryInv
  <2>4. QED
    BY <1>1, <2>1, <2>2, <2>3 DEF AnswerFaithful, Reflects, Contents
<1>5. privileged /\ req.op = "p" => Fulfilled(req, Contents)
  <2>1. req.op = "p" => op = "r"
    BY <1>1 DEF MemoryInv, RequestInv
  <2>2. QED
    BY <1>1, <2>1 DEF MemoryInv, KeptInv
<1>6. QED
  BY <1>1, <1>2, <1>3, <1>4, <1>5 DEF Service!Answer, Service!NoAnswer

\* The burns and scripts of a task are changes of the abstract service.
LEMMA ChangeRefines ==
  ASSUME SafetyInv, MemoryInv, SafetyInv', [Next]_vars, ~Same(dev, dev')
  PROVE  Service!Change
<1>1. Changes
  BY ChangesStep
<1>2. /\ privileged /\ InTask /\ InTask' /\ UNCHANGED <<req, buf, privileged>>
      /\ op \in {"p", "e"} /\ (op = "e" => "c" \in req.areas)
      /\ dev'.prog # dev.prog => op = "e" \/ req.areas \cap {"c", "p"} # {}
      /\ dev'.data # dev.data => op = "e" \/ req.areas \cap {"c", "d"} # {}
      /\ dev'.cfg # dev.cfg => "c" \in req.areas
  BY <1>1 DEF Changes
<1>3. req.op \in {"p", "e"}
  BY <1>2 DEF MemoryInv, RequestInv
<1>4. Phase = "working" /\ Phase' = "working"
  <2>1. Phase = "working"
    BY <1>2, PhaseOf
  <2>2. Phase' = "working"
    BY <1>2 DEF Phase, InTask, Commanding, SafetyInv, ControlInv, Boot
  <2>3. QED
    BY <2>1, <2>2
<1>5. ServiceAnswer = {} /\ ServiceAnswer' = {}
  BY <1>4 DEF Phase, ServiceAnswer
<1>6. Contents' \in Image
  BY DEF SafetyInv, TypeOK, Contents, Image, Device
<1>7. /\ Contents'.prog # Contents.prog => req.areas \cap {"c", "p"} # {}
      /\ Contents'.data # Contents.data => req.areas \cap {"c", "d"} # {}
      /\ Contents'.cfg # Contents.cfg => req.areas \cap {"c", "c"} # {}
  BY <1>2 DEF Contents
<1>8. QED
  BY <1>2, <1>3, <1>4, <1>5, <1>6, <1>7 DEF Service!Change, Service!MayChange

\* Every other step is one of the abstract service's, or is not seen by it.
LEMMA ServiceStep ==
  SafetyInv /\ MemoryInv /\ SafetyInv' /\ MemoryInv' /\ [Next]_vars
    => [Service!Next]_(Service!vars)
<1>1. SUFFICES ASSUME SafetyInv, MemoryInv, SafetyInv', MemoryInv', [Next]_vars
               PROVE  Service!Next \/ UNCHANGED Service!vars
  BY DEF Service!vars
<1>2. CASE ~Same(dev, dev')
  BY <1>1, <1>2, ChangeRefines DEF Service!Next
<1>3. CASE Same(dev, dev')
  <2>1. Contents' = Contents
    BY <1>3 DEF Same, Contents
  <2>2. CASE ResetProgrammer
    <3>1. CASE privileged
      <4>1. at = "boot" /\ at' = "fallVpp" /\ job' = Boot
        BY <1>1, <2>2, <3>1 DEF ResetProgrammer, SafetyInv, ControlInv
      <4>2. QED
        BY <2>1, <2>2, <4>1 DEF ResetProgrammer, Phase, ServiceAnswer, Service!vars
    <3>2. CASE ~privileged
      BY <2>1, <2>2, <3>2
         DEF ResetProgrammer, Phase, ServiceAnswer, Service!Recover, Service!Next
    <3>3. QED
      BY <3>1, <3>2
  <2>3. CASE Accept
    BY <2>1, <2>3 DEF Accept, Phase, ServiceAnswer, Service!Take, Service!Next
  <2>4. CASE (StartTask \/ EndTask) /\ at' = "respond"
    BY <1>1, <2>4, AnswerRefines DEF Service!Next
  <2>5. CASE (StartTask \/ EndTask) /\ at' # "respond"
    BY <2>1, <2>5
       DEF StartTask, EndTask, AfterTask, Phase, ServiceAnswer, Service!vars
  <2>6. CASE SelectJob \/ NextVoltage \/ RiseVpp
    BY <2>1, <2>6
       DEF SelectJob, NextVoltage, RiseVpp, Phase, ServiceAnswer, Service!vars
  <2>7. CASE RiseVcc
    <3>1. at = "riseVcc" /\ at' \in {"script", "load", "readLoad", "fallVpp"} /\ job # Boot
      BY <1>1, <2>7 DEF RiseVcc, BodyOf, SafetyInv, ControlInv, EraseConfig, DataJob,
         Boot
    <3>2. QED
      BY <2>1, <2>7, <3>1 DEF RiseVcc, Phase, ServiceAnswer, Service!vars
  <2>8. CASE FallVpp
    BY <2>1, <2>8 DEF FallVpp, Phase, ServiceAnswer, Service!vars
  <2>9. CASE FallVcc
    <3>1. CASE job = Boot
      BY <2>1, <2>9, <3>1
         DEF FallVcc, Phase, ServiceAnswer, Service!Recover, Service!Next
    <3>2. CASE job # Boot
      BY <2>1, <2>9, <3>2 DEF FallVcc, Phase, ServiceAnswer, Service!vars
    <3>3. QED
      BY <3>1, <3>2
  <2>10. CASE \/ ScriptStep \/ ReadLoad \/ ReadLocation \/ WriteLoad \/ ProgramLocation
              \/ WriteIncrement
    <3>1. /\ at \in Commanding /\ at' \in Commanding \cup {"fallVpp"} /\ job # Boot
          /\ UNCHANGED <<req, job, privileged>>
      BY <1>1, <2>10
         DEF ScriptStep, ReadLoad, ReadLocation, WriteLoad, ProgramLocation, WriteIncrement,
             SafetyInv, ControlInv, Commanding, EraseConfig, DataJob, Boot
    <3>2. QED
      BY <2>1, <3>1 DEF Commanding, Phase, ServiceAnswer, Service!vars
  <2>11. CASE Respond
    BY <2>1, <2>11
       DEF Respond, Phase, ServiceAnswer, Service!Deliver, Service!NoAnswer, Service!Next
  <2>12. CASE Crash
    BY <2>1, <2>12
       DEF Crash, Phase, ServiceAnswer, Service!Die, Service!NoAnswer, Service!Next
  <2>13. CASE UNCHANGED vars
    BY <2>13 DEF vars, Contents, Phase, ServiceAnswer, Service!vars
  <2>14. QED
    BY <1>1, <2>2, <2>3, <2>4, <2>5, <2>6, <2>7, <2>8, <2>9, <2>10, <2>11, <2>12, <2>13
       DEF Next, Work
<1>4. QED
  BY <1>2, <1>3

\* The programmer keeps the promise of DeviceService, step by step: whatever
\* requests came before and wherever the process died, a reading request leaves the
\* device as it was, no memory changes that the request does not entitle it to, and
\* no answer goes out before the device holds, and the answer shows, what it has to.
THEOREM ProgrammerImplementsService == Spec => ImplementsService
<1>1. Init => Service!Init
  BY ServiceInit
<1>2. SafetyInv /\ MemoryInv /\ (SafetyInv /\ MemoryInv)' /\ [Next]_vars
        => [Service!Next]_(Service!vars)
  BY ServiceStep
<1>3. QED
  BY <1>1, <1>2, MemoryAlways, PTL DEF Spec, ImplementsService, Service!Spec
=============================================================================
