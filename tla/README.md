# Formal models of mc_prog

This directory is a TLA+ development about the repository: a PIC
microcontroller programmer (a C service that drives a parallel port, a Java GUI
and web front end that send it requests), a small code generator, and firmware
for the boards. The modules are read with `tlc` for small instances and, where
theorems are listed, with `tlapm` for every value of the constants.

## 1. Inventory

Paths are below `src/`.

| Part | State it keeps | Operations | Hard behaviour | What makes it correct |
|---|---|---|---|---|
| Programming task, `pic_programmer_v1/src/modules/{program_pic16f,erase_device}.c` | `ProgramInfo` (operation, areas, options, buffers), loop counters; in the device: supply lines, counter, latch, memories | `execute_programming_task`, `reset_programmer`, the read, write and erase functions | the process may die with the device powered; host and device counters advance separately; the order of the areas | commands are heard, each burn hits its location, the image is in the device, the answer shows the device |
| Service, `pic_programmer_v1/src/main/pic16fxxx_programmer.c` | one client socket, the request and response files | accept, `save_request_file`, `program_device`, `write_response_file` | one client at a time; a client that leaves early | every client is served, answers are not mixed |
| Serial driver, `driver_pic16f.c`, `port_adapter.c`, `parallel_port.c` (v1 and v2) | port registers, adapter mode | `write_serial_data`, `read_serial_data`, `set_read_mode`, `set_write_mode` | two drivers on one line, sampling on the right edge, 14 bit words in 16 bit frames | what one side sends is what the other receives; never two drivers |
| Programmer v2, `pic_programmer_v2/src` | `ProgrammingInfo`, two files | one request per start: read, `execute_programming_task`, write | every operation but `r` writes, a letter it does not know included; its result is dropped | a read leaves the device alone and shows it, a write puts the buffer in it |
| Request files, `program_info.c`, `DataFormatter.java`, `RequestGenerator.java` | text | format, parse | the reader finds its place by single letters; trimmed requests list areas with count 0; uninitialised fields | what one side writes is what the other understands |
| Tickets, `pic_gui/.../{TicketManager,ProgrammingTask,TicketRequestServlet,TicketResponseServlet}.java` | a map of tickets, response files, one thread per request | register, run, poll | threads on an unsynchronised map, response read once and deleted, connection lost | each ticket is eventually answered, once, with its own response |
| Web client, `pic_prog_services.js` | `env.ticket`, an interval timer | invoke, poll every 3 s, show | overlapping polls, a second request while one is pending | the answer of the last request is shown |
| Server search, `ServerDetector.java` | the address tried last | `find`, `getNextIP` | end of the range on one side before the other | no address is tried twice, the service is found |
| Hex files, `INHX8MFileReader.java`, `RawDataToBuffer.java` | buffers | read a line, place a packet | packets across areas, missing areas, damaged lines | each word at its address; a file is used as a whole or refused |
| GUI start-up, `gui/Main.java` | `modelo` map, the properties file | search, store the address, wait, start the server | two threads share an unsynchronised map; the outcome is visible before the address | requests go to the address that was found; a saved address is tried first |
| Code generator, `neogen_codegen` | text; signals and assignments | preprocess, parse, translate, choose templates | precedence, parentheses, comments | no sentence lost; the C has the meaning of the expression |
| Generated programs, `pic12f683/10_neogen_codegen/template` | tick, debounce counters, output state machines | interrupt handler, main loop | ticks lost while the loop runs, pins read twice, cycles left half done | outputs do what the sentence says, for the time it says; inputs are debounced |
| Firmware examples, `pic12f683`, `pic16f627A`, `pic16f84`, `pic16f874A` | timer, its flag, tick, one debounce counter, output | setup, interrupt handler, main loop | interrupt and loop share tick without a lock; an interrupt comes late | one run of the loop a period; a level changes only after its ticks; a pin at rest is shown |
| Device metadata, GUI console | lookups, a window | - | - | not modelled |
| Scratch (`revisar`, `test_1`, `test_2`, `workspace`, `pic_gui/.../com/mycompany`) | - | - | - | not modelled |

## 2. Plan

Done:

1. **Programming task** (the core): `PicDevice`, `ProgramPic16f`,
   `MCProgramPic16f`, the abstract `DeviceService`, the refinement
   `ProgramPic16fService`, proofs in `ProgramPic16fProofs` (section 3).
2. **Server search**: `ServerDetector`, proved with 5 (section 4).
3. **Tickets**: `TicketService` composes page, servlets, threads, files and the
   C service (section 5).
4. **Serial driver**: `SerialDriver`, both versions, against the abstract
   `CommandChannel`, proofs in `SerialDriverProofs` (section 6).
5. **Start-up**: `GuiStartup` around the search; both are proved in `GuiStartupProofs`, the
   safety part of `ServesWhatWasFound` included (section 4).
6. **Files and programmer v2**: `HexFile`, `RequestFile`, `ProgramInfo`,
   `Pic16fxxxProgrammer`, composed in `RequestExchange` (section 7).
7. **Generator and generated programs**: `NeogenCode`, composed with the running
   chip in `GeneratedProgram` (section 8).

8. **What the memories hold**: `ImageProgrammed`, `AnswerFaithful`, `MemoryKept` and the
   refinement of 1, proved in `ProgramPic16fMemoryProofs`.
9. **Answers**: type correctness, `AnswersNotMixed` and `NoAnswerLost` of 3, proved in
   `TicketServiceProofs`.
10. **The channel**: the steps of the refinement of 4, proved in `SerialDriverProofs`.
11. **Timer examples**: `TickLoop`, debouncing against a timer that counts, without the
   recursive parser of 7, so that `RunsOnTime` and `ChangesDebounced` are proved for every
   period and every `DebounceTicks`, in `TickLoopProofs` (section 9).

12. **Hex files**: of `RequestExchange`, `HexPlaced` and `HexJudged`, proved in
   `RequestExchangeProofs` (section 7).
13. **Debounced inputs**: `ChangesDebounced` of 7, proved in `GeneratedProgramProofs`; the
   parser and the translator are recursive functions for this (section 8).

Left, and out of the prover's reach: section 10.

How the modules extend one another (`MC*` modules give the constants their values):

    PicDevice <- ProgramPic16f <- ProgramPic16fService -> DeviceService (refinement)
    PicDevice <- Pic16fxxxProgrammer \
    RequestFile <- ProgramInfo        > RequestExchange
    HexFile                          /
    ServerDetector <- GuiStartup
    SerialDriver -> CommandChannel (refinement)
    NeogenCode <- GeneratedProgram
    TicketService
    TickLoop

## 3. The programming task

`PicDevice` (no state of its own) describes the chip in the socket, which is not
part of the repository: what a supply line or a command does to a device record.
It is read off the names and the use of the commands in `driver_pic16f.h`,
`program_pic16f.c` and `erase_device.c`. A word is the set of its bits that
read 1, so erasing gives `Bits` and a *programming only* cycle is intersection.

`ProgramPic16f` is the service around one device. `at` is the place in the code,
`job` the areas loop that is running (three erase loops, configuration,
program, data), `i` the location or the command within a fixed sequence.
One step is one supply line (`RiseVpp`, `RiseVcc`, `FallVpp`, `FallVcc`), one
command (`ScriptStep`, `ReadLoad`, `WriteLoad`, `ProgramLocation`,
`WriteIncrement`) or one iteration of a read loop (`ReadLocation`).
`AfterTask` is `program_device`: after a programming or erasing task the device is
read back. `Crash` is the death of the process at any step followed by a new
start; the port lines and the device keep their state, and the new process may
or may not have the right to use the port (`privileged`, the result of `ioperm`,
which depends on the setuid bit that `dist/dist.sh` sets). A `malloc(0)` bank of a
trimmed request is a nondeterministic choice over small arrays; outcomes where a
wild pointer kills the process are the `Crash` action.

| Run | Question | Result |
|---|---|---|
| `programmer` | twelve kinds of request (all operations, both programming types, both bulk erase types, none, two voltages, trimmed, one letter), eight device images, one crash at any step | commands are heard, the firmware runs at most in the 10 ms between `fall_vpp` and `fall_vcc` of a reset (or until the boot reset, if the process died there), the device is unpowered at rest, cycles hit their location, the image is in the device, the answer shows the device, reading changes nothing (`MemoryKept`); with the refinement mapping of `ProgramPic16fService`, `DeviceService` is implemented (`ImplementsService`); every request is answered unless the process dies (`EveryRequestAnswered`) |
| `code_protection_switch` | reset requests of protection type 1 | violated (`ChipEraseOnlyForType3`): the `switch` of `disable_code_protection` has no `break`, so a request of type 1 goes on through the sequence of type 2 to the chip erase of type 3 |
| `area_specific_write` | `write_program` requests, trimmed to the program area, for devices with data in use and an erased configuration word (so that the first change outside of the program memory is the one meant) | violated (`WritesOnlyNamedAreas`): the erase jobs hang on the letter `c`, which every request lists, and the third of them bulk-erases the data memory |

Bounds: two words per memory are enough for an increment to matter (a first, a last
and a wrong location), one bit a word tells an erased from a programmed cell.
The configuration space has its real eight locations. One crash is enough
because a boot forgets everything but the device, whose state after a first
crash is already arbitrary within the types. Fairness (`FairSpec`): weak, of the process's own
steps, since it is one sequential program that is scheduled; clients and crashes are not fair.

**Proved** (`ProgramPic16fProofs`, any `ProgSize`, `DataSize`, `Bits`, any set of
well-typed requests, any number of crashes, assumptions `SizesAssumption` and
`InputsAssumption`): `TypeOK`, `CommandsHeard`, `NeverRunsFirmware`,
`UnpoweredWhenWaiting`, `CyclesAddressed`. None of them is inductive. The
invariant `SafetyInv` adds which jobs and operations go with each label
(`ControlInv`: the write loops only run in operation `p`, `fall*` never with job
`Done`), the state of both lines at each label (`PowerInv`: VCC must be *down* at
`riseVcc`, otherwise there is no edge and the counter keeps its old value) and the
equality of the two counters (`AddressInv`).

What the task *does* to the memories is proved in `ProgramPic16fMemoryProofs`, from
the same assumptions: `ImageProgrammed`, `AnswerFaithful`, the action property
`MemoryKept`, and the whole refinement `ImplementsService`. The invariant `MemoryInv`
says what has been achieved at each place of a task. `ScriptInv` follows the command
sequences place by place (where the counter is and what the latch holds after `i`
commands of an erase or of the configuration walk); `EraseInv` keeps that an area is
all `Erased` from its bulk erase until its own write loop; `WriteInv` that
the locations below the loop's index hold the buffer's words, and that the areas of
earlier jobs stay so through everything that comes later, the passes at other
voltages included; `ReadInv` is its mirror image for the buffer; `WantedInv`,
`RequestInv` and `KeptInv` tie the buffer to the request. It needs `SafetyInv`: a burn changes
the location of the loop only because the two counters agree (`AddressInv`). Which
command changes what is stated once, in lemmas about the device (`BurnEffect`,
`LocationBurnt`, `EraseEffect`, `QuietKeeps`).


## 4. The server search and the start of the GUI

`ServerDetector` is `ServerDetector.find`. An address is its last number; the
rest of the text is carried over by `getNextIP`. `home` is where the service runs, `asked` a
history of failed requests that no step reads. `Find` is an answer `ggma`,
`Miss` an `IOException` or another answer followed by `getNextIP`, `ReadForEver` the loop of
`requestServer` that has no end when the host closes without a zero byte or
says nothing.

`GuiStartup` puts the two threads of `gui/Main` around it.

| State | Actions | Code |
|---|---|---|
| `search` | `Searching`, `Hang`, `Announce`, `AnnounceFailure`, `StoreHost`, `SaveHost` | `searchServer`: the outcome goes into the map, only then the address into the properties, and then into their file, which may fail |
| `waiter` | `SeeOutcome`, `StartServer` | `standAloneServer`: waits for the outcome in the map, starts the routes |
| `found` | - | `remote.server.found` in `modelo` (null is `unknown`) |
| `serverHost`, `fileHost` | - | the address in memory and in the properties file |
| `session`, `known` | `Restart` | a new start of the GUI, with the saved address and a service that may have moved; `known` is history |

The run `server_search` uses the limits 1 and 13 instead of 1 and 255, every old address between
them (and the limits and 0), every place for the service or none, and two starts: both parities, both ends and
both orders of reaching them occur. Two starts are the least in which a saved address is
used. It checks, of the search, that no address is asked twice (`NeverAskedTwice`),
nearer ones first (`NearestFirst`), that a search that gives up leaves out nothing that is
nearer than the end it ran into (`NothingCloseOverlooked`)
and that it ends (`SearchEnds`); of the start, that the local server, which may see the
outcome before the address is stored, ends up serving the address that was found
(`ServesWhatWasFound`), and that a saved address of a service that did not move is
the first and only one asked (`FoundAtOnce`). Fairness: both threads are
scheduled, and requests end (the connection times out after two seconds) except
in `ReadForEver`.

**Proved** (`GuiStartupProofs`, any limits, any old addresses, any place):
`NeverAskedTwice`, `NearestFirst`, `NothingCloseOverlooked`, both of a search by itself
(`Spec`) and of every search of a GUI that is started any number of times (`GuiSpec`, which the
run checks); and `TypeOK` of one search, which is not repeated in the run. A new start takes
whatever address the file holds, which the types of one search do not allow for, so the
invariant asks no more of it than that it is a number (`AnyStart`). `SweepInv` says that the asked addresses are an interval around the
old one, of even or odd size with the parity of `intentos`, that the address in
hand (or, when the search gave up, the limit it ran into) is the neighbour of that interval, and that the service
is not in it. `SearchEnds` and `ServesWhatWasFound` are liveness and stay with TLC.

**Proved** as well, for any number of starts: `SavedHostFoundAtOnce`, the invariant
`FoundAtOnce`, and `FoundHostIsServed`, the safety part of `ServesWhatWasFound`: the local server
starts only if the service was found, requests go to that address as soon as the search thread
is done, and no step but a new start replaces it. `StartInv` adds what the search
thread holds at each line: the address in hand is the service's when the search
has found it, the one in memory is that address once it is to be saved,
and the file holds the service's address whenever `known`.


## 5. Tickets: from the page to the device and back

`TicketService` composes the page, the servlets, the task threads and the service loop.

| Process | State | Actions | Code |
|---|---|---|---|
| page (one event loop) | `loading`, `ticket`, `handler`, `timers`, `buffers`, `target` | `Invoke`, `BufferReply`, `DeviceReply`, `DeviceFails`, `Tick`, `Deliver`, `PollFails` | `pic_prog_services.js` |
| HTTP threads | `post`, `poll` | `GenerateRequest`, `Register`, `StartWorker`; `CheckTicket`, `ReadAnswer`, `DeleteAnswer` | the two ticket servlets |
| ticket map, files | `tickets`, `file` | `Put` | `TicketManager` |
| task threads, searching hosts | `client`, `received` | `Connect`, `ConnectFails`, `SaveResponse`, `MarkDone` | `ProgrammingTask`, `ServerDetector` |
| service | `backlog`, `serving`, `stage`, `requestFile`, `responseFile` | `Accept`, `SaveRequest`, `SaveForEver`, `Answer`, `WriteResponse`, `Crash` | `pic16fxxx_programmer.c` |

What happens between the two files is `ProgramPic16f`; here an answer is named
after the request it answers. `latest`, `taken` and `unsaved` are history. The
user only presses a button that the loader does not cover (`styles/loader.css`
spreads a transparent sheet over the page; a focused button can still be
pressed with the keyboard, which gives no behaviour that the early stop of the
loader does not give). `Put` describes the data race of the
unsynchronised `HashMap`: a put that overlaps another may be lost, and a
reader may miss a value that is there (`Races`).

| Run | Question | Result |
|---|---|---|
| `tickets` | two requests, two overlapping polls, races of the map, failing exchanges and writes, half a request, one crash | `AnswersNotMixed`: every client gets its own answer or an exception, and a ticket leads to no other; `NoAnswerLost`: a done ticket has its file, unless it was read or could not be written |
| `ticket_live` | two requests, two polls, intervals that outlive their request | `LoaderStops`; for a request made alone `AnswerShown` and `PollingStops` |
| `target_card` | two requests, no failure of any part except a rejected hex file | violated (`TargetOfAction`): an answer is shown under a later action |

Bounds: two requests are the least that can be mixed up; two polls the least that
overlap; one crash reaches every point of the service's loop. `AnswerShown` and
`PollingStops` are stated for a user who makes one request (`Alone`), because
two requests defeat both: a late error of the first clears the interval of the
second, a POST of the first answered late puts the old ticket back into
`env.ticket`, and the handle of the first interval is overwritten, so that
nothing ever clears it.

Fairness: threads are scheduled, HTTP exchanges end, and an interval goes on firing
(strongly fair: the slots for its GETs are busy and free in turns). Nobody has to press
a button and nothing has to fail. The liveness run has neither crashes, broken
connections nor races: a task whose service dies may read -1 for ever, half a
request keeps `save_request_file` busy for ever (`SaveForEver`), and a lost
`done` leaves the ticket pending for ever. Those are in the safety runs.

**Proved** (`TicketServiceProofs`, any number of requests, searching hosts, polls and
deaths, with or without races and failing connections, assumptions
`RequestsAssumption` and `ModesAssumption`): `TypeOK`, `AnswersNotMixed`,
`NoAnswerLost`. `TypeOK` and searching hosts are left to the proof: the runs, which they would
make several times as long, have neither. The invariant `TicketInv` adds whose the two files are at each place of the
service's loop (`ServiceInv`: from `respond` on the request file, and from
`write` on the response file, belong to the client being served, and that client
still waits), that a request is sent once and only after its ticket was registered
(`StartInv`), and that a ticket is marked by a task that has saved before
(`SavedInv`). None of this needs the ticket table to be synchronised: a lost update of
the table delays an answer, it never redirects one.

## 6. The serial line

`CommandChannel` is what the programmer relies on: one command, performed once
with its word, and for a read the word that the device holds. `SerialDriver`
is the code under it, both versions in one module: `adapter`
is true for v2, whose data line goes through a bus buffer (`c3` is its direction,
`c5` that of the port). Each write to a port register is one action, because the
order of such writes is what the driver is about.

| State | Code |
|---|---|
| `at`, `i` | place and loop counter in `write_serial_data`, `read_serial_data` |
| `code`, `word`, `frame` | arguments of `execute_command`, the frame being sent |
| `shift`, `reg`, `result` | `data` of the two functions, the value returned |
| `d`, `clk`, `c3`, `c5` | port registers, as levels on the line |
| `args`, `lines` | groups of the above |
| `chip` | the device's shift register and decoder (external, from the protocol the driver follows) |

| Run | Question | Result |
|---|---|---|
| `serial` | both drivers, all codes of `driver_pic16f.h`, seven words, any initial registers | frames stay in step, one driver per line, no floating sample; `execute_command` implements `CommandChannel` |

The sizes are the real ones (6 and 14 bits). The words have their first, last,
alternate, all and no bits set, so that a shift, a lost or an extra bit makes
another word. A line that nobody drives has an arbitrary level at every look.
The chip drives from the second rising edge to the sixteenth, the interval for which
v2 turns its adapter; a device that drives longer is not covered. `OneDriver`
starts after `init_driver`, which cannot know the registers it finds. The
refinement shows v2's unmasked stop bit (`return data >> 1`) to be harmless:
at the last sample the port is already an output again, with a low latch.
Boot follows `init_driver` write by write (`InitC3`, `InitC5`, `ResetData`, `ResetClk`); v1 can
close and open the port between commands (`Release`, `Reopen`), and what another
program does to the port meanwhile is left out. v1 is given commands right after
its boot reset as well as after `Reopen`.
Fairness: the driver is one sequential program; nobody has to call it.

**Proved** (`SerialDriverProofs`, any frame sizes with `CommandSize <= Width`, any
disjoint sets of codes, both drivers, assumptions `SizeAssumption` and
`CodeAssumption`): `TypeOK` (not repeated in the run), `FramesInStep`, `OneDriver`, `LineDefined`. The
invariant `LineInv` says, for each place of the driver, how many edges the chip
counted (`WriteInv`, `WrittenInv`, `ReadInv`), that it took in the bits of the
command so far (without which a load could be decoded as a read and both ends
would wait for different frames) and the direction of the adapter (`DirectionInv`).
It also proves the safety part of `ImplementsChannel`, `Spec => Channel!Spec`: the
initial states are the channel's, and every step of the driver or the chip is `Issue`,
`Perform`, `Return` or not seen. The invariant `ChannelInv` holds the data: the chip's
first `i` bits are those of the word being sent (`SentInv`), a command is performed exactly
when its last bit has arrived (`DoneInv`), and the upper bits of the driver's register are those
of the frame the chip sends, with the low latch of the port as start and stop bit
(`HeardInv`), which is why v2 may leave the stop bit unmasked. That
`execute_command` returns (`Answered`) stays with TLC.



## 7. Files: one request from the hex file to the page

`RequestExchange` follows one request from end to end, with either programmer.

| Module | Models | Code |
|---|---|---|
| `HexFile` | a line checked and taken apart, a packet placed in the buffer | `INHX8MFileReader`, `RawDataToBuffer`, `UtilBinary` |
| `RequestFile` | the text written and read by the GUI | `RequestGenerator`, `DataFormatter` |
| `ProgramInfo` | the text read and written by the programmer | `program_info.c` (v1), `programming_info.c` (v2) |
| `Pic16fxxxProgrammer` | the task of v2 as the sequence of its commands | `pic16fxxx_programmer.c` |
| `RequestExchange` | the composition | `RequestGenerator.generateRequest`, `pic16fxxx.c`, `program_device` |

A line of a hex file is the bytes of its digits and three facts that bytes cannot
carry (a colon, an odd number of characters, a character that is no digit). A text
is a sequence of tokens: a character, a decimal number, or a word of a name. A field
that nothing has set yet is `Heap`, a value of its own, so that a field used before
it is set would be seen. The functions that v1 and v2 share word for word
are translated and mapped once. `ProgrammingInfo` is the type of what they fill in: up to ten
letters of areas and of voltages, four options of 16 bits, lists of banks and of locations.

| State | Code |
|---|---|
| `meta`, `buffer`, `line` | metadata trimmed to the action, `DeviceBuffer`, the place in the hex file |
| `rest`, `info` | what `read_programming_info` has not read yet, `ProgramInfo` |
| `todo`, `dev` | v2: what is left of the task; the device (`PicDevice`) |
| `answer`, `shown` | the answer file, the buffer that `parseResponse` makes of it |
| `service`, `privileged`, `action`, `file`, `socket` | inputs: the version, the outcome of `ioperm`, the action, the hex file, the device at first |

One step is a line of the hex file (`ReadHexLine`, `RefuseHexFile`, `EndHexFile`), an iteration of the
reader that finds a letter it knows (`ReadLetter`), a supply line, a command or a word
of the task of v2 (`RunStepV2`), or one of the moves between the parts. The task of v1 is the
subject of section 3 and appears by its result only (`RunTaskV1`).

The run `exchange` takes every action, eighteen hex files (a damaged checksum, a
line without colon or digits, no end of file, lines after the end, two lines for one
word, a packet over the end of a bank, half a word, an odd address, a line without data, the
EEPROM at 0x2100, addresses that are negative as a `short`, an extended address record), two device images, both versions, with and without the port, and
checks:

- `HexPlaced`: every word of the file is at its address, low byte first, the later of
  two lines winning; everything else is 0. The reference goes by addresses, not by packets:
  the word of an address is in the last line that names it. The code halves the
  byte address as a `short`, towards zero: an odd address loses its last bit, and 65535 is
  word 0. A word is kept as a `short` and compared modulo 65536.
- `HexJudged`: a file is refused when and only when it is not one for this request.
- `RequestUnderstood`: the reader, which looks at single letters wherever they
  stand, ends with the operation, options, banks, values and flags that were meant.
  (v2 has no letter for a reset; see below.)
- `AnswerUnderstood`: the page gets what the programmer's buffer holds, although the
  answer is laid out differently from the request.
- `OneShotFaithful`: a read by v2 changes nothing and shows the whole device; any other
  operation leaves the buffer in it, of the configuration only the configuration word;
  the supplies are off at the end.

Bounds: two program and two data words, two bits a word, and the eight
configuration locations of the shipped metadata. Two words are the least with a first,
a last and an order; the text is the same for longer words, since a number is one
token. The metadata has one bank an area, like all of the shipped metadata.

**Proved** (`RequestExchangeProofs`; for all metadata of the layout of `MetadataAssumption`, all
hex files, actions, images and both versions): `HexPlaced` and `HexJudged`. The layout is what
the shipped `PIC*.json` have in common and the placement relies on: program banks do not
overlap, data addresses are also program addresses (so that the code, which looks at the
program first, never takes the data branch), the configuration locations follow each
other and are in no bank, and all lie below 2^14. TLC evaluates the assumption on every run.
The invariant `HexInv` says that after `line - 1` lines the buffer has the shape of the
metadata, each of these lines is acceptable, and the buffer holds, at every address, what these
lines say (`WordsRead`); it is inductive because a packet that is placed writes exactly the
words its line names (`PlacedLine`), in one bank or in the configuration, and a line that cannot be placed
is one the file must be refused for. `TypeOK`, `RequestUnderstood`, `AnswerUnderstood` and
`OneShotFaithful` are about texts and command lists that are built by concatenating in a loop; what such a
fold gives for every input needs induction over data, and stays with TLC.

What the run shows to be so, and no document contradicts: a reset request sent to v2 is a
write (the letter is unknown and everything but `r` writes), without the port v2 echoes
the request as its answer, and a data image at 0x2100 is refused although
the device has the memory. Not reachable with the metadata that is shipped, and
therefore not claimed either way: the branch for data memory in `updateBuffer`, and a second
bank, whose key follows the values of the first on one line and would lose a character to `read_arreglo`.
A trimmed write with a hex file is refused as soon as an address is looked
for in an area whose metadata is null: `write_data` and `write_config` refuse every hex file with a data line.


## 8. The code generator and the programs it generates

`NeogenCode` has the front end as operators, `GeneratedProgram` the whole way of a program from
its lines to the pins of the running chip.

| Part | State and actions | Code |
|---|---|---|
| lines to sentences | `lineNo`, `buffer`, `multi`, `sentences`; `ReadLine`, `EndLines` | `Preprocessor` |
| sentences to signals and assignments | `signals`, `assignments`; `ParseSentence`, `RejectSentence` | `SentenceParser`, `ExpressionParser`, `CLikeTranslator` |
| templates | `Generate`, `RejectProgram` | `ProyectGenerator`, `BeanAssignmentElement.getTemplate`, `setup` |
| interrupt and pins | `tick`, `raw`; `TimerInterrupt`, `MovePin` | `general_isr`, the world |
| `loop()` | `value`, `changed`, `ticks`; `Debounce` | `debounce_input` of `app_main.c.vm` |
| | `out`, `state`, `counter`, `cycle`; `Outputs` | the switch of each output, `set_expr*.vm` |

`seen` and `age` are history. The text is a sequence of tokens; the C that an expression
becomes is again a sequence of tokens, whose value `Value` computes by the
precedences of C, so that what the generator writes and what it means are
compared through the C and not through the tree. The pin is read
twice at the end of debouncing, and may move in between. A run of the loop is two steps; the interrupt may come between any two.

| Run | Question | Result |
|---|---|---|
| `neogen` | fourteen programs: each kind of example in `10_neogen_codegen/examples`, and some that are refused or misread | see below |
| `neogen_while` | an output that is ON `while` a switch is closed | violated (`WhileHolds`): `set_expr_while.vm` tests the condition the wrong way round |

- `SentencesKept`: for `Tidy` texts, the preprocessor loses comments and nothing else.
- `OutputFollows`: in a run that finds an output at rest, it becomes what its sentence says
  under the condition it names, and otherwise stays, for `Supported` expressions.
- `OnForTime`: an output is ON no longer than its time; one run longer in the first cycle
  of an `every`, and up to a whole cycle after an `until` left a cycle half done (the template resets neither counter).
- `ChangesDebounced`: an input takes a level only if its pin had it `DebounceTicks` runs before, and the change is
  flagged in that run only, unless the pin moves between the two readings.
- `InputSettles` (liveness): an input whose pin settles takes its level and keeps it.

`Tidy` leaves out a block comment that ends on the line it begins on (it still sets
`multiLineComment`, and the lines after it are lost) and a semicolon inside a line.
`Supported` leaves out groups between two other groups and nested ones (the operator is looked for
between the first and the last group only), and an event next to `not` or
a comparison (it becomes an unparenthesised `changed && level`). No document promises any of these, so they
are no findings; programs with each of them are in the run, where they are refused or give other C.

**Proved** (`GeneratedProgramProofs`; any program, number of inputs, `DebounceTicks`):
`ChangesDebounced`. The invariant `InputInv` ties the counter of an input to the history of its
pin (`Counted`): a counter at `t` was started `DebounceTicks - t` runs ago, by a pin that was
off the stored level. That history is what the action property speaks of when the counter ends, and neither
it nor the counter alone would do. It needs nothing of the generator but that `signals` do not
change any more once the program runs.

Bounds: `DebounceTicks` is 2 instead of 100, the least at which a count has a middle;
times are 2 and 5 runs instead of 1000 and 5000; `MaxAge` = 7 is above every time that
`OnForTime` compares with. Two inputs are the most any of the examples has. Fairness: the timer ticks, and `main` calls
`loop()` for ever; the fairness of the loop's two steps is stated over `pc` alone
(`LoopTurns`), which is what only they change. Pins need not move.


## 9. The timer examples of the firmware

`TickLoop` is the scheme that four of the hand-written programs share, and that the
generated ones inherit: a timer sets its flag, the interrupt turns the flag into `tick`,
the main loop works once a tick. `example` says which program it is: `timer0`
(`pic12f683/02_timer0_toggle`, which sets its timer forward in every interrupt), `timer2`
(`02_timer2_toggle`), `debouncing` (`03_pin_debouncing`), `free` (`pic16f627A/02_timer0`).
Section 8 counts a debounce in runs of the loop; here there is a timer, so that runs can be
compared with time.

| State | Actions | Code |
|---|---|---|
| `tmr`, `flag` | `Count` (external) | the timer with its scalers, `T0IF`, `TMR2IF` |
| `tick` | `Interrupt` | `general_isr` |
| `at` | `ConfigTimer0`, `ConfigTimer2`, `ConfigFree`, `InitTimer0`, `InitTimer2`, `InitFree`, `Interruptions` | `setup`, `interruptions` |
| | `Test`, `Toggle`, `Debounce`, `Output`, `Clear` | `loop` |
| `isDebouncing`, `ticks`, `debounced` | `Debounce` | `debounce_input_XXX` |
| `raw`, `out` | `MovePin` (external) | the pins |
| `runs`, `elapsed` | - | history: a stopwatch started by a run of the loop |

A step of main is a statement that another actor can tell from the next; the interrupt
is one step and comes between any two of main. Main waits while an interrupt is
requested. The stopwatch is started by any run of the loop that toggles (its choice), and in
`debouncing` by the runs that look at the pin.

The run `tick_loop` takes all four programs. `RunsOnTime`: one tick, one run: whatever the
interrupt and the loop do to `tick` between each other, the runs after the one that started the stopwatch are
periods apart (the first may follow at once). `ChangesDebounced`: the level changes in the run that is
`DebounceTicks` after the one that saw the pin differ, more than `DebounceTicks - 1` periods
later, and to the level the pin has then; the pin is not looked at in between.
`OutputFollows` (liveness): a pin that comes to rest is shown, and the toggling never stops.
No lower bound on lost ticks is stated: a loop that takes longer than a period loses some, by design.

Bounds: timer 0 overflows after 4 counts (`Top`), starts at 2 in `timer0` and at 3 in `free`;
timer 2 has a period of 2 and a postscaler of 2; `DebounceTicks` is 3, the least with a first,
a middle and a last tick; the stopwatch stops at 12 counts (`MaxElapsed`), which `StopwatchAssumption`
ties to the others: it is beyond every time the properties compare with. Fairness: the timer
counts, a requested interrupt is served, and main, which stands still during each interrupt, is
strongly fair: a period is hundreds of instructions and the interrupt takes a few.

**Proved** (`TickLoopProofs`, any subset of the programs, any timer values, `DebounceTicks` up to 255,
assumptions `ExampleAssumption`, `CountAssumption`, `StopwatchAssumption`):
`TypeOK` (not repeated in the run; it has that the count never wraps), `RunsOnTime`,
`ChangesDebounced`. `RunsOnTime` is not inductive: a run may be owed already, by a flag that waits for
its interrupt or by a tick that waits for the loop. The invariant `OnTime` counts
those as runs (`Owed`) and adds what the timer has counted towards its next flag
(`Progress`): the stopwatch shows more than all that. It holds when the stopwatch starts
because main does not run while a flag is up (`~Requested`). `Counting` ties the count to the stopwatch:
`runs + ticks = DebounceTicks` while debouncing.

Seen while reading, and not the subject of a run: timer 2 with `PR2` = 25 counts 26, so that the
period is 1.04 ms and not the 1 ms of the comment in `02_timer2_toggle/src/libs/device_setup.c`, line 18; and
`free` clears its flag before it sets its timer, so that its first tick may be there at once.


## 10. What is left out, and what is only model-checked

Model-checked only:

- every liveness property (`EveryRequestAnswered`, `SearchEnds`, `ServesWhatWasFound`,
  `LoaderStops`, `AnswerShown`, `PollingStops`, `InputSettles`, `OutputFollows` of
  `TickLoop`), which the prover cannot reach;
- the liveness part of `ImplementsChannel` (`Answered`);
- `TypeOK`, `RequestUnderstood`, `AnswerUnderstood` and `OneShotFaithful` of `RequestExchange`:
  they follow texts and command lists that folds build, which needs induction over data;
- `TypeOK`, `SentencesKept`, `OnForTime` and `OutputFollows` of `GeneratedProgram`, for the same
  reason: the text without its comments, the C of an expression and its value are folds and
  recursive functions. (`TypeOK` is not even true of every program: the type checker of C is
  not modelled, and a time may be assigned to an output. It holds of the programs of the run.)

Left out of the models:

- Delays (`wait_for`): a device that is slower than the code waits for.
- Set-up of timers, interrupts and pins in the generated programs, and the files around the
  templates: straight-line register writes and text.
- In the language: operators inside names (`find` looks for substrings), and capitals
  of reserved words.
- Errors of `fopen` on the request and answer files, and lines of a name longer than
  the field `%s` reads it into.
- Liveness of the tickets next to searching hosts, crashes, broken connections and races.
- The metadata request of the page, and the formatting of its cards.

Not modelled:

- **Device metadata** (`DeviceBufferMetadata`, `PicDeviceEnum`, the servlets that hand
  them out): data holders and stateless lookups; what they carry is an input of sections 3 and 7.
- **Firmware examples** other than those of section 9 (a lamp, a display, serial
  transmission, PWM): straight-line I/O.
- **GUI console**: scrolls a window.
- **Scratch programs** (`revisar`, `test_1`, `test_2`, `workspace`, `com/mycompany`): experiments
  that no part of the system uses.

