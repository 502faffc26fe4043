------------------------- MODULE Pic16fxxxProgrammer -------------------------
(***************************************************************************)
(* execute_programming_task of pic_programmer_v2 (pic16fxxx_programmer.c). *)
(* The task is straight: its loops over voltages, areas and locations      *)
(* depend on the request alone, so it is the sequence of what it does to   *)
(* the port, one element for a supply line, a command or a word read.      *)
(***************************************************************************)
EXTENDS PicDevice, SequencesExt

PowerLine(name) == [do |-> name]
Send(command)   == [do |-> "send", cmd |-> command]
Fetch(area, k)  == [do |-> "fetch", area |-> area, k |-> k]   \* into location k
Blank(k)        == [do |-> "blank", area |-> "c", k |-> k]    \* 0x3FFF, not read

InitHVPMode == <<PowerLine("vppUp"), PowerLine("vccUp")>>
ResetDevice == <<PowerLine("vppDown"), PowerLine("vccDown")>>

Advance == Send(Simple("increment"))

Chain(seqs) == FlattenSeq(seqs)

\* read_program_memory and read_data_memory over n locations.
ReadMemory(area, load, n) ==
  <<Send(Load(load, {}))>> \o Chain([k \in 1 .. n |-> <<Fetch(area, k), Advance>>])

\* read_config_memory: locations that cannot be read count as erased.
ReadConfigMemory(locations) ==
  <<Send(Load("loadConfig", {}))>> \o
  Chain([k \in DOMAIN locations |->
           <<IF locations[k].read THEN Fetch("c", k) ELSE Blank(k), Advance>>])

\* A word loaded, burnt, and on to the next one.
WriteWords(load, words) ==
  Chain([k \in DOMAIN words |->
           <<Send(Load(load, words[k])), Send(Simple("eraseProgramCycle")), Advance>>])

WriteProgramMemory(words) ==
  <<Send(Load("loadProgram", Erased)), Send(Simple("eraseProgram"))>> \o
  WriteWords("loadProgram", words)

WriteDataMemory(words) == <<Send(Simple("eraseData"))>> \o WriteWords("loadData", words)

\* Only the eighth location; the word read back afterwards is only printed.
WriteConfigMemoryV2(locations) ==
  <<Send(Load("loadConfig", {}))>> \o [k \in 1 .. ConfigWord |-> Advance] \o
  <<Send(Load("loadProgram", locations[ConfigWord + 1].value)),
    Send(Simple("eraseProgramCycle"))>>

\* One area: every operation but 'r' writes.
AreaBody(operation, area, buffer) ==
  IF operation = "r"
    THEN CASE area = "p" -> ReadMemory("p", "loadProgram", Len(buffer.program))
           [] area = "d" -> ReadMemory("d", "loadData", Len(buffer.data))
           [] area = "c" -> ReadConfigMemory(buffer.config)
    ELSE CASE area = "p" -> WriteProgramMemory(buffer.program)
           [] area = "d" -> WriteDataMemory(buffer.data)
           [] area = "c" -> WriteConfigMemoryV2(buffer.config)

\* Variant: the device is not reset between two areas.
TaskStepsNoReset(operation, areas, voltages, buffer) ==
  ResetDevice \o
  Chain([v \in 1 .. voltages |->
    Chain([a \in 1 .. 3 |->
      LET area == <<"p", "d", "c">>[a]
          once == SelectSeq(areas, LAMBDA letter : letter = area)
      IN Chain([k \in DOMAIN once |-> InitHVPMode \o AreaBody(operation, area, buffer)])])])
  \o ResetDevice

(***************************************************************************)
(* The whole task on an open port: init_driver resets the device, then for *)
(* each voltage the areas listed, in the order program, data,              *)
(* configuration.                                                          *)
(***************************************************************************)
TaskSteps(operation, areas, voltages, buffer) ==
  ResetDevice \o
  Chain([v \in 1 .. voltages |->
    Chain([a \in 1 .. 3 |->
      LET area == <<"p", "d", "c">>[a]
          once == SelectSeq(areas, LAMBDA letter : letter = area)
      IN Chain([k \in DOMAIN once |->
           InitHVPMode \o AreaBody(operation, area, buffer) \o ResetDevice])])])

\* What a step does to the device.
DeviceAfter(dev, step) ==
  CASE step.do = "vppUp"   -> VppUp(dev)
    [] step.do = "vccUp"   -> VccUp(dev)
    [] step.do = "vppDown" -> VppDown(dev)
    [] step.do = "vccDown" -> VccDown(dev)
    [] step.do = "send"    -> Execute(dev, step.cmd)
    [] OTHER -> dev

\* The word a step brings in.
WordOfStep(dev, step) ==
  IF step.do = "blank" THEN Erased
  ELSE IF step.area = "d" THEN ReadData(dev)
  ELSE ReadProgram(dev)
=============================================================================
