---------------------------- MODULE ProgramPic16f ----------------------------
(***************************************************************************)
(* The programmer service of pic_programmer_v1: main/pic16fxxx_programmer.c*)
(* (accept a request, run it, answer), modules/program_pic16f.c (the task: *)
(* bulk erase, configuration, program and data areas, each between         *)
(* init_HVP_mode and reset_device) and modules/erase_device.c (the command *)
(* sequences of each kind of erase).  The grain is one supply line change, *)
(* or one command, or one iteration of a read loop per step; the process   *)
(* may die between any two steps and be started again.                     *)
(***************************************************************************)
EXTENDS PicDevice

CONSTANTS
  Requests,    \* the requests that clients send (after parsing)
  Images,      \* what the device in the socket may hold when the service starts
  MaxCrashes   \* bound on the number of times the process dies

Areas == {"c", "p", "d"}

(***************************************************************************)
(* A parsed request (ProgramInfo).  areas are the letters of the "a=" line,*)
(* banks the letters whose count is not 0; a listed letter without a bank  *)
(* leaves a malloc(0) block in the buffer.                                 *)
(***************************************************************************)
Buffers(limit) == UNION {[0 .. n - 1 -> Word] : n \in 0 .. limit}

Request ==
  [ op: {"r", "p", "e", "invalid"}, areas: SUBSET Areas, banks: SUBSET Areas,
    voltages: Nat \ {0},
    programmingType: Nat, bulkEraseType: Nat,
    protectDsblType: Nat, protectDsblData: Word,
    program: Buffers(ProgSize), data: Buffers(DataSize), config: Buffers(CfgSize),
    readable: SUBSET (0 .. CfgSize - 1) ]

Image == [prog: ProgramImage, data: DataImage, cfg: ConfigImage]

ASSUME InputsAssumption ==
  /\ Requests \subseteq Request
  /\ \A r \in Requests :
       /\ "p" \notin r.banks => r.program = <<>>
       /\ "d" \notin r.banks => r.data = <<>>
       /\ "c" \notin r.banks => r.config = <<>>
  /\ Images \subseteq Image
  /\ MaxCrashes \in Nat

VARIABLES
  dev,         \* the device in the socket
  privileged,  \* does ioperm succeed for this process?
  at,          \* where the process is
  req,         \* the request as it was parsed
  op,          \* info.operation
  buf,         \* info.buffer, and the word found behind an empty configuration
  job,         \* which of the seven areas loops is running (Boot, 1 .. 6, Done)
  volt,        \* idxVoltage + 1
  i,           \* location, or command of the current sequence
  crashes      \* how often the process has died

vars == <<dev, privileged, at, req, op, buf, job, volt, i, crashes>>

\* Jobs of one pass over the voltages, in the order of execute_programming_task.
Boot         == 0
EraseConfig  == 1
EraseProg    == 2
EraseDataMem == 3
ConfigJob    == 4
ProgramJob   == 5
DataJob      == 6
Done         == 7

Labels == {"boot", "accept", "start", "select", "riseVpp", "riseVcc", "script",
           "readLoad", "read", "load", "cycle", "inc", "fallVpp", "fallVcc",
           "respond"}

-----------------------------------------------------------------------------
(***************************************************************************)
(* erase_device.c: the command sequences.                                  *)
(***************************************************************************)
BulkErase1(area) ==
  CASE area = "p" -> <<Load("loadProgram", Erased), Simple("eraseProgram")>>
    [] area = "c" -> <<Load("loadConfig", Erased), Simple("eraseProgram")>>
    [] OTHER      -> <<Simple("eraseData")>>

\* Variant: the data area is loaded and cycled but never bulk erased.
BulkErase2NoDataErase(area) ==
  CASE area = "p" -> <<Load("loadProgram", Erased), Simple("eraseProgram"),
                       Simple("eraseProgramCycle")>>
    [] area = "c" -> <<Load("loadConfig", Erased), Simple("eraseProgram"),
                       Simple("eraseProgramCycle")>>
    [] OTHER      -> <<Load("loadData", Erased), Simple("eraseProgramCycle")>>

BulkErase2(area) ==
  CASE area = "p" -> <<Load("loadProgram", Erased), Simple("eraseProgram"),
                       Simple("eraseProgramCycle")>>
    [] area = "c" -> <<Load("loadConfig", Erased), Simple("eraseProgram"),
                       Simple("eraseProgramCycle")>>
    [] OTHER      -> <<Load("loadData", Erased), Simple("eraseData"),
                       Simple("eraseProgramCycle")>>

BulkErase(type, area) ==
  CASE type = 1 -> BulkErase1(area)
    [] type = 2 -> BulkErase2(area)
    [] OTHER    -> <<>>

Increments(n) == [k \in 1 .. n |-> Simple("increment")]

DisableProtection1(w) ==
  <<Load("loadConfig", w), Simple("eraseProgram"),
    Load("loadConfig", w), Simple("eraseProgram"),
    Load("loadConfig", w), Simple("eraseData")>>

DisableProtection2(w) ==
  <<Load("loadConfig", w)>> \o Increments(ConfigWord) \o
  <<Simple("setup1"), Simple("setup7"), Simple("eraseProgramCycle"),
    Simple("setup1"), Simple("setup7")>>

DisableProtection3 == <<Load("loadConfig", Erased), Simple("chipErase")>>

\* The switch of disable_code_protection has no break: every type also runs
\* the sequences of the types after it.
DisableProtection(type, w) ==
  CASE type = 1 -> DisableProtection1(w) \o DisableProtection2(w) \o DisableProtection3
    [] type = 2 -> DisableProtection2(w) \o DisableProtection3
    [] type = 3 -> DisableProtection3
    [] OTHER    -> <<>>

(***************************************************************************)
(* program_pic16f.c, write_config_memory: only the eighth location is      *)
(* written, whatever the length of the array it is read from.              *)
(***************************************************************************)
ConfigValue(b) == IF ConfigWord \in DOMAIN b.config THEN b.config[ConfigWord] ELSE b.stray

\* Variant: one increment short of the configuration word.
WriteConfigShort(value) ==
  <<Load("loadConfig", {})>> \o Increments(ConfigWord - 1) \o
  <<Load("loadProgram", value), Simple("eraseProgramCycle")>>

WriteConfig(value) ==
  <<Load("loadConfig", {})>> \o Increments(ConfigWord) \o
  <<Load("loadProgram", value), Simple("eraseProgramCycle")>>

\* The fixed command sequence of a job that has one.
Script ==
  CASE job = EraseConfig  -> BulkErase(req.bulkEraseType, "c")
    [] job = EraseProg    -> BulkErase(req.bulkEraseType, "p")
    [] job = EraseDataMem -> BulkErase(req.bulkEraseType, "d")
    [] job = ConfigJob /\ op = "p" -> WriteConfig(ConfigValue(buf))
    [] job = ConfigJob /\ op = "e" -> DisableProtection(req.protectDsblType, req.protectDsblData)
    [] OTHER -> <<>>

\* Variant: the erase jobs run whatever the operation is.
WantedAnyOperation(j) ==
  CASE j \in {EraseConfig, EraseProg, EraseDataMem, ConfigJob} -> "c" \in req.areas
    [] j = ProgramJob -> "p" \in req.areas
    [] j = DataJob    -> "d" \in req.areas
    [] OTHER          -> FALSE

\* Does the task run this job?  The three erase jobs hang on the 'c' area.
Wanted(j) ==
  CASE j \in {EraseConfig, EraseProg, EraseDataMem} -> "c" \in req.areas /\ op = "p"
    [] j = ConfigJob  -> "c" \in req.areas
    [] j = ProgramJob -> "p" \in req.areas
    [] j = DataJob    -> "d" \in req.areas
    [] OTHER          -> FALSE

\* The switch on the operation inside a job.
BodyOf(j) ==
  CASE j \in {EraseConfig, EraseProg, EraseDataMem} -> "script"
    [] j = ConfigJob /\ op \in {"p", "e"} -> "script"
    [] j \in {ProgramJob, DataJob} /\ op = "p" -> "load"
    [] j \in {ConfigJob, ProgramJob, DataJob} /\ op = "r" -> "readLoad"
    [] OTHER -> "fallVpp"

-----------------------------------------------------------------------------
Init ==
  /\ \E m \in Images :
       dev = [vpp |-> FALSE, vcc |-> FALSE, space |-> "user", pc |-> 0,
              latch |-> [mem |-> "program", word |-> {}],
              prog |-> m.prog, data |-> m.data, cfg |-> m.cfg]
  /\ privileged \in BOOLEAN
  /\ at = "boot"
  /\ req \in Requests
  /\ op = req.op
  /\ buf = [program |-> <<>>, data |-> <<>>, config |-> <<>>, stray |-> {}]
  /\ job = Boot
  /\ volt = 1
  /\ i = 0
  /\ crashes = 0

\* Variant: the service starts without resetting the device.
ResetProgrammerSkipped ==
  /\ at = "boot"
  /\ at' = "accept"
  /\ UNCHANGED <<dev, privileged, req, op, buf, job, volt, i, crashes>>

\* reset_programmer at start-up: without port access it gives up at once.
ResetProgrammer ==
  /\ at = "boot"
  /\ at' = IF privileged THEN "fallVpp" ELSE "accept"
  /\ UNCHANGED <<dev, privileged, req, op, buf, job, volt, i, crashes>>

\* main accepts a client and program_device parses its request.  A bank that
\* lives in a malloc(0) block holds whatever was in the heap.
Accept ==
  /\ at = "accept"
  /\ \E r \in Requests :
       /\ req' = r
       /\ op' = r.op
       /\ \E p \in (IF "p" \in r.areas \ r.banks THEN Buffers(ProgSize) ELSE {r.program}),
             d \in (IF "d" \in r.areas \ r.banks THEN Buffers(DataSize) ELSE {r.data}),
             s \in (IF "c" \in r.areas \ r.banks THEN Word ELSE {{}}) :
            buf' = [program |-> p, data |-> d, config |-> r.config, stray |-> s]
  /\ at' = "start"
  /\ UNCHANGED <<dev, privileged, job, volt, i, crashes>>

\* Variant: the buffer that was written is sent back as if it had been read.
AfterTaskNoReadBack ==
  at' = "respond" /\ op' = IF op \in {"p", "e"} THEN "r" ELSE op

\* program_device after a task: the device is read back, then the answer
\* goes out.  The result of the task is not looked at.
AfterTask ==
  IF op \in {"p", "e"} THEN op' = "r" /\ at' = "start"
                       ELSE op' = op /\ at' = "respond"

\* Entry of execute_programming_task: init_driver, or return its error.
StartTask ==
  /\ at = "start"
  /\ IF privileged
       THEN at' = "select" /\ job' = EraseConfig /\ volt' = 1 /\ UNCHANGED op
       ELSE AfterTask /\ UNCHANGED <<job, volt>>
  /\ UNCHANGED <<dev, privileged, req, buf, i, crashes>>

\* Variant: the loop over the areas runs once too often.
SelectJobPastEnd ==
  /\ at = "select"
  /\ IF Wanted(job) THEN at' = "riseVpp" /\ job' = job
                    ELSE at' = "select"  /\ job' = job + 1
  /\ UNCHANGED <<dev, privileged, req, op, buf, volt, i, crashes>>

\* The loops over voltages and areas.
SelectJob ==
  /\ at = "select" /\ job # Done
  /\ IF Wanted(job) THEN at' = "riseVpp" /\ job' = job
                    ELSE at' = "select"  /\ job' = job + 1
  /\ UNCHANGED <<dev, privileged, req, op, buf, volt, i, crashes>>

NextVoltage ==
  /\ at = "select" /\ job = Done /\ volt < req.voltages
  /\ volt' = volt + 1
  /\ job' = EraseConfig
  /\ UNCHANGED <<dev, privileged, at, req, op, buf, i, crashes>>

EndTask ==
  /\ at = "select" /\ job = Done /\ volt = req.voltages
  /\ AfterTask
  /\ UNCHANGED <<dev, privileged, req, buf, job, volt, i, crashes>>

-----------------------------------------------------------------------------
(***************************************************************************)
(* init_HVP_mode and reset_device, one line at a time.                     *)
(***************************************************************************)
\* Variants: VPP is not raised; VCC is raised in its place.
RiseVppForgotten ==
  /\ at = "riseVpp"
  /\ at' = "riseVcc"
  /\ UNCHANGED <<dev, privileged, req, op, buf, job, volt, i, crashes>>

RiseVccFirst ==
  /\ at = "riseVpp"
  /\ dev' = VccUp(dev)
  /\ at' = "riseVcc"
  /\ UNCHANGED <<privileged, req, op, buf, job, volt, i, crashes>>

RiseVpp ==
  /\ at = "riseVpp"
  /\ dev' = VppUp(dev)
  /\ at' = "riseVcc"
  /\ UNCHANGED <<privileged, req, op, buf, job, volt, i, crashes>>

RiseVcc ==
  /\ at = "riseVcc"
  /\ dev' = VccUp(dev)
  /\ at' = BodyOf(job)
  /\ i' = 0
  /\ UNCHANGED <<privileged, req, op, buf, job, volt, crashes>>

FallVpp ==
  /\ at = "fallVpp"
  /\ dev' = VppDown(dev)
  /\ at' = "fallVcc"
  /\ UNCHANGED <<privileged, req, op, buf, job, volt, i, crashes>>

FallVcc ==
  /\ at = "fallVcc"
  /\ dev' = VccDown(dev)
  /\ IF job = Boot THEN at' = "accept" /\ job' = job
                   ELSE at' = "select" /\ job' = job + 1
  /\ UNCHANGED <<privileged, req, op, buf, volt, i, crashes>>

-----------------------------------------------------------------------------
\* One command of a fixed sequence.
ScriptStep ==
  /\ at = "script"
  /\ IF i < Len(Script)
       THEN dev' = Execute(dev, Script[i + 1]) /\ i' = i + 1 /\ at' = at
       ELSE at' = "fallVpp" /\ UNCHANGED <<dev, i>>
  /\ UNCHANGED <<privileged, req, op, buf, job, volt, crashes>>

\* The array the loops of the current job run over.
Target == CASE job = ProgramJob -> buf.program
            [] job = DataJob    -> buf.data
            [] OTHER            -> buf.config

\* The load command that opens a read loop (with a zero word).
ReadLoad ==
  /\ at = "readLoad"
  /\ dev' = Execute(dev, CASE job = ProgramJob -> Load("loadProgram", {})
                           [] job = DataJob    -> Load("loadData", {})
                           [] OTHER            -> Load("loadConfig", {}))
  /\ at' = "read"
  /\ i' = 0
  /\ UNCHANGED <<privileged, req, op, buf, job, volt, crashes>>

\* One iteration of read_program_memory, read_data_memory, read_config_memory.
ReadLocation ==
  /\ at = "read"
  /\ IF i \in DOMAIN Target
       THEN /\ buf' = CASE job = ProgramJob -> [buf EXCEPT !.program[i] = ReadProgram(dev)]
                        [] job = DataJob    -> [buf EXCEPT !.data[i] = ReadData(dev)]
                        [] OTHER -> [buf EXCEPT !.config[i] =
                                       IF i \in req.readable THEN ReadProgram(dev) ELSE Erased]
            /\ dev' = Execute(dev, Simple("increment"))
            /\ i' = i + 1
            /\ at' = at
       ELSE at' = "fallVpp" /\ UNCHANGED <<dev, buf, i>>
  /\ UNCHANGED <<privileged, req, op, job, volt, crashes>>

\* write_program_memory and write_data_memory: load, burn, increment.
WriteLoad ==
  /\ at = "load"
  /\ IF i \in DOMAIN Target
       THEN /\ dev' = Execute(dev, IF job = ProgramJob THEN Load("loadProgram", Target[i])
                                                       ELSE Load("loadData", Target[i]))
            /\ at' = "cycle"
       ELSE at' = "fallVpp" /\ UNCHANGED dev
  /\ UNCHANGED <<privileged, req, op, buf, job, volt, i, crashes>>

\* program_location
ProgramLocation ==
  /\ at = "cycle"
  /\ dev' = IF req.programmingType = 1
              THEN Execute(Execute(dev, Simple("programOnly")), Simple("endProgramming"))
              ELSE Execute(dev, Simple("eraseProgramCycle"))
  /\ at' = "inc"
  /\ UNCHANGED <<privileged, req, op, buf, job, volt, i, crashes>>

\* Variants: the device is not told to go on; neither device nor loop go on.
WriteIncrementHostOnly ==
  /\ at = "inc"
  /\ i' = i + 1
  /\ at' = "load"
  /\ UNCHANGED <<dev, privileged, req, op, buf, job, volt, crashes>>

WriteIncrementLost ==
  /\ at = "inc"
  /\ at' = "load"
  /\ UNCHANGED <<dev, privileged, req, op, buf, job, volt, i, crashes>>

WriteIncrement ==
  /\ at = "inc"
  /\ dev' = Execute(dev, Simple("increment"))
  /\ i' = i + 1
  /\ at' = "load"
  /\ UNCHANGED <<privileged, req, op, buf, job, volt, crashes>>

\* write_response_file and close; the loop of main goes back to accept.
Respond ==
  /\ at = "respond"
  /\ at' = "accept"
  /\ UNCHANGED <<dev, privileged, req, op, buf, job, volt, i, crashes>>

\* The process dies (killed, restarted, SIGPIPE, a wild pointer) and starts
\* again; the lines of the port and the device keep their state.
Crash ==
  /\ crashes < MaxCrashes
  /\ crashes' = crashes + 1
  /\ at' = "boot"
  /\ job' = Boot
  /\ privileged' \in BOOLEAN
  /\ UNCHANGED <<dev, req, op, buf, volt, i>>

\* What the process does by itself once a client has been accepted.
Work ==
  \/ ResetProgrammer \/ StartTask \/ SelectJob \/ NextVoltage \/ EndTask
  \/ RiseVpp \/ RiseVcc \/ FallVpp \/ FallVcc \/ ScriptStep
  \/ ReadLoad \/ ReadLocation \/ WriteLoad \/ ProgramLocation \/ WriteIncrement
  \/ Respond

Next == Work \/ Accept \/ Crash

Spec     == Init /\ [][Next]_vars
FairSpec == Spec /\ WF_vars(Work)
-----------------------------------------------------------------------------
(***************************************************************************)
(* Properties.                                                             *)
(***************************************************************************)
Buffer == [ program: Buffers(ProgSize), data: Buffers(DataSize),
            config: Buffers(CfgSize), stray: Word ]

\* Every variable keeps its type; in particular the device's counter and
\* memories stay within the modelled device.
TypeOK ==
  /\ dev \in Device
  /\ privileged \in BOOLEAN
  /\ at \in Labels
  /\ req \in Requests
  /\ op \in {"r", "p", "e", "invalid"}
  /\ buf \in Buffer
  /\ job \in Boot .. Done
  /\ volt \in Nat
  /\ i \in Nat
  /\ crashes \in 0 .. MaxCrashes

\* Labels between init_HVP_mode and reset_device, where commands are clocked,
\* and all labels of execute_programming_task.
Commanding == {"script", "readLoad", "read", "load", "cycle", "inc"}

\* execute_command is only reached with the device in programming mode: no
\* command of a task is lost on a device that is not listening.
CommandsHeard == at \in Commanding => Listening(dev)

\* The device runs its own firmware when it has VCC without VPP: for the 10 ms
\* that reset_device waits between fall_vpp and fall_vcc.  At any other time that
\* happens only if the process died there and has not yet reset the programmer.
NeverRunsFirmware ==
  (dev.vcc /\ ~dev.vpp /\ privileged) => at = "fallVcc" \/ at = "boot" \/ job = Boot

\* While the service waits for a client the device has no supply, also after
\* any crash and restart of a process that may use the port.
UnpoweredWhenWaiting ==
  at = "accept" /\ privileged => ~dev.vpp /\ ~dev.vcc

\* Each programming cycle of the write loops burns the word of the buffer
\* into the location of the same index, of the memory the loop is about.
CyclesAddressed ==
  at = "cycle" =>
    /\ dev.space = "user" /\ dev.pc = i /\ i \in DOMAIN Target
    /\ dev.latch = [mem  |-> IF job = DataJob THEN "data" ELSE "program",
                    word |-> Target[i]]

\* Does a program task leave the whole word, or can it only clear bits of
\* what was there?
WholeWords(r) == r.programmingType # 1
                 \/ ("c" \in r.areas /\ r.bulkEraseType \in {1, 2})

Holds(image, wanted, r) ==
  \A a \in DOMAIN wanted : /\ image[a] \subseteq wanted[a]
                           /\ WholeWords(r) => image[a] = wanted[a]

\* After the programming task and before the read back, the listed areas of
\* the device hold what the request asked for, whatever the device held, how
\* many voltages were run and however often the service died before.
ImageProgrammed ==
  at = "start" /\ op = "r" /\ req.op = "p" /\ privileged =>
    /\ "p" \in req.areas => Holds(dev.prog, buf.program, req)
    /\ "d" \in req.areas => Holds(dev.data, buf.data, req)
    /\ "c" \in req.areas => dev.cfg[ConfigWord] = ConfigValue(buf)

\* The answer to every request carries what the device holds at that moment
\* in the listed areas (all ones for locations that cannot be read), provided
\* the process may use the port.
Mirrors(copy, image) == \A a \in DOMAIN copy : copy[a] = image[a]

MirrorsConfig(copy, image, readable) ==
  \A a \in DOMAIN copy : copy[a] = IF a \in readable THEN image[a] ELSE Erased

AnswerFaithful ==
  at = "respond" /\ op = "r" /\ privileged =>
    /\ "p" \in req.areas => Mirrors(buf.program, dev.prog)
    /\ "d" \in req.areas => Mirrors(buf.data, dev.data)
    /\ "c" \in req.areas => MirrorsConfig(buf.config, dev.cfg, req.readable)

\* A step of a task that reads never changes what the device holds, and a
\* programming task reaches program and data memory only through its own
\* area or through the bulk erase that comes with the configuration area.
MemoryKept ==
  [][/\ op \notin {"p", "e"} =>
          dev'.prog = dev.prog /\ dev'.data = dev.data /\ dev'.cfg = dev.cfg
     /\ dev'.prog # dev.prog => op = "e" \/ req.areas \cap {"c", "p"} # {}
     /\ dev'.data # dev.data => op = "e" \/ req.areas \cap {"c", "d"} # {}
     /\ dev'.cfg # dev.cfg => "c" \in req.areas]_vars

\* Every accepted request is answered unless the process dies first.
EveryRequestAnswered == at = "start" ~> at \in {"respond", "boot"}

\* TicketRequestServlet.java:28-31 promises that write_xxx acts on the
\* specific memory area: only areas the request has banks for change.
WritesOnlyNamedAreas ==
  [][op = "p" => /\ dev'.prog # dev.prog => "p" \in req.banks
                 /\ dev'.data # dev.data => "d" \in req.banks
                 /\ dev'.cfg # dev.cfg   => "c" \in req.banks]_vars

\* erase_device.c:132-136 says the chip erase of type 3 is for the PIC16F874A:
\* it is only sent for requests of protectDsblType 3.
ChipEraseOnlyForType3 ==
  at = "script" /\ i < Len(Script) /\ Script[i + 1].cmd = "chipErase"
    => req.protectDsblType = 3
-----------------------------------------------------------------------------
(***************************************************************************)
(* The inductive invariant behind the properties above.                    *)
(***************************************************************************)

\* Which jobs and operations go with each label.
ControlInv ==
  /\ at \in Commanding \cup {"select", "riseVpp", "riseVcc", "fallVpp", "fallVcc"}
       => privileged
  /\ at \in Commanding \cup {"riseVpp", "riseVcc"} => job \in EraseConfig .. DataJob
  /\ at = "select" => job \in EraseConfig .. Done
  /\ at = "boot" => job = Boot
  /\ at \in {"fallVpp", "fallVcc"} => job \in Boot .. DataJob
  /\ at \in {"load", "cycle", "inc"} => job \in {ProgramJob, DataJob} /\ op = "p"
  /\ at \in {"cycle", "inc"} => i \in DOMAIN Target
  /\ at \in {"readLoad", "read"} => job \in {ConfigJob, ProgramJob, DataJob} /\ op = "r"

\* The supply lines at each label.  Only a boot may find them in any state.
PowerInv ==
  /\ at \in Commanding => dev.vpp /\ dev.vcc
  /\ at \in {"accept", "start", "select", "riseVpp", "respond"} /\ privileged
       => ~dev.vpp /\ ~dev.vcc
  /\ at = "riseVcc" => dev.vpp /\ ~dev.vcc
  /\ at = "fallVpp" /\ job # Boot => dev.vpp
  /\ at = "fallVcc" => ~dev.vpp

\* The counter of the device and the index of a write loop move together.
AddressInv ==
  /\ at \in {"load", "cycle", "inc"} => dev.space = "user" /\ dev.pc = i
  /\ at = "cycle" => CyclesAddressed

SafetyInv == TypeOK /\ ControlInv /\ PowerInv /\ AddressInv
=============================================================================
