# A formal model of psi46test

psi46test is the PC program that drives a digital test board (DTB) for CMS pixel
chips: a user, or a script, gives commands; a command calls remote procedures of
the board over USB, measures, and fills histograms. This directory holds TLA+
modules that model the program, TLC configurations that check them on small
instances, and TLAPS proofs that carry the most important results to every value
of the constants. `PROJECT.json` lists the runs, the mutants each property was
tried against, the source lines behind every definition, the hazards and the
theorems.

    tlc -workers 2 -config rpc_late.cfg MCUsbRpc.tla      # one run
    tlapm UsbRpcPairing_proofs.tla                        # one module of proofs

## 1. Inventory

The program has one thread. What makes it hard is not threads but that it talks
to a second computer through buffers, that messages carry no number, that most
calls do not wait for the board, that exceptions leave long procedures in the
middle, and that commands and scripts share one command line object.

| Part | Source | State | Operations | Talks to |
|---|---|---|---|---|
| RPC stubs and messages | `rpc_calls.cpp`, `rpc.h`, `rpc.cpp` | `rpc_cmdId`, the message being built or read | 154 stubs: id, Create, Put, Send, Flush, Receive, Check, Get, data | CUSB |
| USB transport | `usb.cpp` | `m_bufferW`/`m_posW`, `m_bufferR`/`m_posR`/`m_sizeR`, `isUSB_open` | Open, Close, Write, Flush, Read, FillBuffer, Clear | FTDI driver, board |
| Test board facade | `pixel_dtb.h`, `pixel_dtb.cpp` | the connection | FindDTB, Open, Close, mDelay, SetDAC | stubs |
| Interpreter | `command.cpp`, `command.h`, end of `cmd.cpp` | activations of `run`, the one `CCmdLine` with its flag `interactive`, open files | read, find, execute, nest, exit, catch | commands, files |
| Command line parsing | `command.cpp:105-333` | the position in the line | getInt, getSymbol, getIntRange, getString | commands |
| DAQ session | `cmd.cpp` (`dopen` ... `dclose`, `takedata`, `tdscan`, `onevst`, `modtd`) | `tbState`, the DAQ of the board, the USB timeout | open, start, stop, read, decode, switch the triggers | stubs, decoder |
| Settings | `cmd.cpp` (`dac`, `select`, `arm`, `clk`, `pgstop`, `pon`, ...) | `dacval`, `modtrm`, `roclist`, `tbState.clockPhase` | set one thing on the board and its copy | stubs |
| Tests and scans | `cmd.cpp` (`DacScanPix`, `GetRocData`, `GetEff`, `effmap`, `bare`, ...) | DACs, masks, trim bits of the chips and their copies `dacval`, `modtrm` | enable, arm, loop, read, restore | stubs, DAQ |
| Searches | `cmd.cpp` (`setia`, `setcaldel`, `ThrPix`, `trim`, `tunePH`, ...) | a candidate value and what was measured | step until converged | tests |
| Event decoding | `datastream.cpp`, `analyzer.cpp`, decoders of `cmd.cpp` | position in the words, error flags | DecodePixel, GetEvent | DAQ |
| Upgrade | `cmd.cpp:347` | the record count | UpgradeStart, Data, Exec | stubs |
| HV supply | `iseg.cpp`, `rs232.cpp` | `iseg_connected`, `hv_on`, `voltage_set`, the echo read last | init, setVoltage, read back, destructor | RS-232, one character and its echo at a time |
| Start and end | `psi46test.cpp` | connection, log, ROOT file | find, open, compare hashes, cmd(), close | all |
| Log, settings, profiler, histograms, `o2r`, vendored headers | several | files | output | none |

What makes the parts correct:

* RPC over USB: an answer belongs to the call that gets it; calls are executed in
  their order, once; a call with an answer is a barrier; nothing that was written
  is forgotten or doubled; the read position returns to a message boundary after
  an error; every stub ends.
* Interpreter: a line does what its script says, nested scripts in place; the
  prompt comes back; what was typed with DO_FLUSH has been sent by then; stack and
  files are bounded.
* Parsing: a command runs only with parameters that are there and in range.
* DAQ: reads happen on a stopped DAQ or know that they cut an event; open and
  close pair up; the timeout is put back.
* Tests: chip, masks, DACs and their software copies are at the end what they were
  at the beginning, on every path (`manual/man.tex`: "A test is supposed to
  restore the original state").
* Searches: they end, within their range, and say truly whether they converged.

* HV supply: the supply is at the voltage that was asked for, never at another
  one, and off when the program has left.

The hazards, each at its line, are in `PROJECT.json`, with the properties that would catch
them going wrong. Where the code does go wrong no passing property can cover the hazard:
it is outside of the runs (`ForOneRoc`, `ForAllRocs`, `SeedResponds`, `ReadingOne`,
`Unflushed` and `Trimming`, section 3), or in the model and contradicts no property (the
crash of `outToDouble`, an `hv_on` that stays false, answers behind a failure), and the
note of the hazard says which.

## 2. What is modelled

### 2.1 Remote calls over USB

`RpcMessages` describes the calls and the bytes of their messages, `UsbRpc` the
client from the stub down to `m_bufferW`, the driver and the board. The bytes are
not values: a byte is known by the call it belongs to and its place there, so the
model can tell a right answer from one that merely looks right, which the program
cannot.

| Variable | In the code |
|---|---|
| `wbuf` | `m_bufferW[0 .. m_posW-1]` |
| `tx` | what FT_Write has taken and the board has not executed |
| `up`, `nbuf`, `nrx` | bytes from the board: the first `nbuf` are in `m_bufferR`, the next `nrx` in the driver |
| `cmdId` | `rpc_cmdId`, an id being known by the function that answers to it |
| `pc`, `fn`, `wpos`, `field`, `need`, `got`, `hdr` | the stub in progress: which Write or Read, how far |
| `ret` | how the last stub ended; `src` is the call its value really came from |
| `log`, `exec`, `lost`, `clean`, `whole`, `failed` | history variables: properties read them, `failed` and the length of `log` bound the behaviours, and the last element of `log` also holds the function and the id of the call in progress |

The actions follow a stub: `Client`, `CreateKnown`/`CreateLookup` (rpc_GetCallId),
`WriteByte`/`WriteFull`/`WriteClosed` (CUSB::Write with its flush in the middle of
a message), `ReturnVoid`, `Flush`/`FlushFails`, `CopyBytes`, `FillBuffer`,
`ShortRead`, `ReadFails` (CUSB::Read), and `GotType` to `GotSink` for what Receive,
Check, RecvHeader and rpc_Receive do with each field, with the removal of
unexpected messages. `UserFlush`, `Clear`, `Close` and `Open` are what a client
does between calls. The board and the driver are external: `Execute` and `Discard`
work off requests in their order, `Arrive` delivers bytes one at a time.

`clean` says that every Read got what it asked for since the link was last quiet
(just opened, or emptied by Clear with nothing outstanding). It is what the
program would have to know to trust its answers, and does not.

Abstractions: parameter values, the profiler, the message texts. The high byte of
`m_cmd` after a short read is that of Create (ids are below 256). Bytes read out of
place may say anything; `Junk` bounds the sizes they may say. The order of the
stubs in one command is free: any client.

`RpcService` is the abstract specification: calls, executions, dropped calls,
replies and trust, without buffers, messages or ids. `UsbRpc` is shown to implement
it (`ServiceSpec`) with calls = the functions of `log`, executed = the elements of
`exec`, trusted = `clean`.

### 2.2 The command interpreter

`Interpreter` models `CInterpreter::run`, its recursive calls as a stack of frames,
`CCmdLine::read`, the loop of `cmd()` that catches CRpcError, and the flush of
`main`. A frame is a file and a place in it. A line is the sequence of pieces that
`fgets` makes of it (79 characters at a time); a piece is known by its first word.

| Variable | In the code |
|---|---|
| `frames` | the activations of `run`, each with its FILE |
| `interactive` | `cmdline.interactive`, one for all activations |
| `word` | `cmdline.getName()` |
| `pc` | before `read`, or before the word is looked up |
| `unsent` | requests in `m_bufferW` |
| `leaked` | FILEs that an exception left open |
| `line`, `done`, `threw` | history: what was typed, what was executed for it |

A command is one of three kinds: it only writes requests (and ends in DO_FLUSH or
not), or it waits for an answer, and it may throw where UsbRpc may. `ScriptMeaning`
defines what a line means (`Meaning`, a recursive function on the depth) and claims
that the stack of activations computes it.

### 2.3 The procedures of cmd.cpp on the board

`Calls` is the vocabulary in which the commands are written down: a procedure is a
sequence of calls of `CTestboard`, of assignments to the state the commands share, and
of control structures. `RocTests`, `ModuleTests`, `Tuning`, `Settings`,
`TestSequences` and `DataTaking` hold the commands in this form, and `Commands` the
table of all 113 (several commands of the program that differ in nothing that is
modelled share an entry). `Procedures` executes them, call by call; `TheTable` says
that its constants are those of `Commands`.

| Variable | In the code |
|---|---|
| `line` | the board after the last barrier, and after each request that waits in `m_bufferW`; the last is the board as the program takes it to be |
| `unsent` | requests wait |
| `dacval`, `phase`, `roclist`, `timeout` | `dacval[roc][dac]`, `tbState.clockPhase`, `roclist`, the argument of `usb.SetTimeout` |
| `kept` | local variables in which a procedure remembers a DAC |
| `todo` | the rest of the command: where the program is, its loops and its open try blocks |
| `command`, `outcome`, `before`, `started`, `read`, `live`, `typed`, `throws` | history |

A board is the ROC that is addressed, the DACs of the chips, what is enabled on
them, whether the FPGA has their trim bits, the DAQ channels, the trigger source and
loop, the delays, low and high voltage.

An assignment to the board is a `Request` when the stub only writes it, and a barrier
(`FlushAll`, `LoadTrimTable`, `OpenMemory`, `ReadChannel`, `LoopOne`, `LoopSelected`)
when it waits for an answer; that the first are executed in order and before the second
is what section 2.1 shows. `Throw` may strike at every call: the board is then any
element of `line`, and the program goes on behind the innermost catch block, which
returns from its function, or at the prompt. `Choose`, `Repeat`, `NextRoc`, `Enter`,
`Leave` and `ReturnEarly` unfold the control structures of C++.

What is kept of the data is where they come from: a DAC has the value set for it
before, one on the way of a test, or the one a tuning settled upon. What the events
say is a choice of the branch (`Either`), the points of a scan are `Again`. What the calls
under `#ifdef DAQOPENCLOSE` would do is not there, since `cmd.cpp:45` leaves it undefined:
only `dopen` and `mt` open the memory of the DAQ. A scan by the FPGA (`LoopSingleRoc...`,
`LoopMultiRoc...`) leaves the DAC at the end of its range and the address at a ROC.

`Programs` says, one call at a time, what the table of the procedures must be like:
every argument in its range, control structures that lead to calls of the same kind
(`Typed`), and assignments to `dacval` only of the DACs and ROCs the command is there
for (`PurposeOnly`). `TableFits` (section 4) proves this of the table for any number of
ROCs and channels.

`Walks` is the same execution for one procedure at a time: a `View` is what the
properties look at, `Moves` what a call makes of a view, `Goes` the next step of a
program, `Runs` and `Triple` that it ends, or returns, with a view it should have. It is
the ground of the proofs about what the commands leave behind.

### 2.4 The search for the analog current

`AnalogCurrent` is `setia` (`cmd.cpp:5372`) with its numbers: currents are measured in
steps of 0.1 mA, the target has a quarter of a mA on top, so all is counted in units of
0.05 mA. A chip is a function from Vana to its current; a measurement adds noise.
`Gentle` are the chips of the kind that the slope in the code was chosen for.

### 2.5 The high voltage

`HvSupply` is class `Iseg`, the commands that use it, and `writeCommand` of `rs232.cpp`: one
character is sent, its echo awaited for ten polls and compared, with the character
read before it when none came. CR and LF behind a line are two of them: a line given up
between the two stays in the supply. The supply (external) echoes, executes a line at its
LF, and may trip, be switched by hand, or be slow by one byte (`late`). The
program may leave, or crash in `outToDouble` on an empty answer, and be started again
while the supply keeps its voltage and the beginning of a line.

## 3. The runs

| Run | Instance | Shows |
|---|---|---|
| `rpc_quiet` | all six functions (one per shape, GetRpcCallId, a function the firmware lacks), 3 calls, no failure | TypeOK; StubsEnd and FlushedRuns under fairness |
| `rpc_late` | void, value, vector; 3 calls, one failure of "late" or "write" kind; Clear, Close, Open anywhere | Barrier, NothingForgotten, InOrder, MessageBoundary, and the refinement ServiceSpec |
| `rpc_short` | value calls with and without a cached id; one Read that is short or fails in the middle of a message | Paired, IdsRight and the inductive invariant RpcInv |
| `rpc_drain` | data longer than the 16 bits of the size in Receive (Wide = 2) | a violation of MessageBoundary, see findings |
| `interp` | three scripts: commands only, one that nests, leaves and has a typing error, one that calls itself; 3 levels, 7 files | TypeOK, ScriptRuns, PromptSent, and PromptAgain under fairness |
| `interp_comment` | a comment line longer than a command line | a violation of ScriptRuns, see findings |
| `tests` | each of the 113 procedures from every board that is set up: two ROCs, one or both selected, on a channel each, eight DACs | TypeOK, and what a command leaves behind: Restored, OnPurpose, Quiet, TrimsLoaded, AllRead, CleanRead, Sent, PoweredDown |
| `retry` | the tests and tunings again; one call throws, any one, with any part of the buffer sent; the same command is typed again | Restored, OnPurpose and Quiet behind the second, against the state before the first |
| `scan_other` | the scan of a module's DAC, any DAC | a violation of Restored, see findings |
| `current` | eight chips (four of the kind the slope was chosen for, steep ones, a dead one, one that jumps across the target), two targets, noise of one digit, from every Vana | TypeOK, Lockstep, Decided, Succeeds, Closer, and Ends under fairness |
| `hv` | three voltages, one late byte, one trip or switch, crash and restart | TypeOK, NeverGarbled, and in step while nothing is late: InStep, Followed, SwitchedOff, Answered |
| `hv_late` | the same | a violation of DestructorTurnsOff, see findings |

Bounds. `MaxCalls` = 3 is enough for an answer that is late, a call that is
misled by it and one that shows the damage; a name that is looked up uses two.
`MaxFaults` = 1: one failure is what a call recovers from; the second only repeats
it (the proofs need no bound). `WCap` = 3 and `RCap` = 2 are smaller than the
messages, so that buffers fill in the middle of requests and answers. `Wide` = 8
is above every size where the 16 bits are not the question. In `interp` the limit
of 20 activations is 3, and 7 files let two exceptions leak three files each before
no script can be opened.

In `tests`, `MaxCommands` = 1, since every command begins on a board that is set up and the
properties say that it is so again; `MaxRoc` = 1 and `NChannels` = 2 give a ROC that is
selected beside one that is not, and data on a channel other than 0; the loops
`Again` are taken any number of times, which changes nothing after the first few. In `retry`
two commands and one exception are one failure and one repetition. In `hv`,
`MaxLate` = 1 byte is enough to be out of step for ever, `MaxTurns` = 1 switch or trip, and
`MaxInput` = 4, a whole voltage but for its LF, ends the behaviours in which lines that were
given up pile up in the supply. In `current` only the chips are chosen: Vana has all its 256 values.

Deadlock is checked in the RPC runs and in `current`: the board or the client can always
go on. The interpreter really ends, `tests`, `retry` and `scan_other` end after
`MaxCommands`, `hv` and `hv_late` at `MaxInput` (`CHECK_DEADLOCK FALSE`).

What the runs of the procedures leave out, because the code is not right there (the list
is below): a chip test runs with ROC 0 selected alone (`ForOneRoc`), `modtune`,
`optiamod` and `mt` with all selected (`ForAllRocs`), the seed pixel of `tunePHmod`
responds (`SeedResponds`), three commands are named that read channel 0 for each channel
(`ReadingOne`) and seven that end without a flush (`Unflushed`), and `retry` does not
have `optia`, `tune`, `modtune`, `oneroc`, `bare` and `mt`, which may give up before
they clean up behind a first attempt.

Fairness. `WF(Stub)`: the program has one thread and a stub runs on by itself; `FT_Read`
is called with a timeout (FT_SetTimeouts), so it ends. `WF(Execute \/ Discard)` and
`WF(Arrive)`: a board that is powered serves its requests; without that the time-outs
are the only way on, and no claim on executions could hold. In the interpreter
`WF(Step)` is again the one thread; nothing is assumed of the user, who may stop typing.
`WF(Measure \/ Step \/ End)` in `AnalogCurrent` is the same thread, with GetIA
returning.

Every property was tried against a mutant of the code's behaviour (PROJECT.json,
"mutants"): a buffer not reset by Flush, a position not moved on by Read, a dropped
flush, a message left in the queue, a flag not set again after a script, a DAC or a
pixel not put back, triggers that go on while the data are read, a software copy
forgotten, a limit off by one, a CR LF behind a line given up. TLC finds the property
violated in each.

Findings:

* `rpc_drain`. `rpc.cpp:34` says "remove unexpected data message from queue". The
  size of the header has 24 bits; Receive keeps 16 (`rpc.cpp:35`). Of a data
  message of 65536 bytes or more only the remainder is removed.
* `scan_other`. `manual/man.tex:240-242` says "The state of the ROC (DACs, trims,
  thresholds) is represented in software. A test (e.g. a DAC scan) is supposed to
  restore the original state". The scan of a module's DAC ends with
  `SetDAC( Vcal, dacval[roc][dac] )` (`cmd.cpp:8812`): unless the DAC is Vcal it stays
  at the end of its range, and Vcal has its value.
* `hv_late`. `iseg.cpp:91` says "Destructor: Will turn off the HV". One echo that comes
  after the tenth poll is compared with the next character, the command is given up,
  and nothing drains the receive buffer: all later commands, the one of the
  destructor included, end at their first character.
* `interp_comment`. Comments are single lines to their authors and to `command.cpp:407`;
  a line of more than 79 characters is several command lines to `fgets`.
  `script/modprep.roc:8` is such a comment: the program looks its tail up as a command.

Seen while modelling, and part of the model: only `interactive` tells DO_FLUSH and
`read` where a line comes from, and `run` sets it on entry and after each nested
script; the recursion limit is tested after the file was opened, and the file is
closed again; an exception closes no file; the test for '-' and '#' in `run` is
never reached by a comment, since the name of such a line is empty; GetIA has a
resolution of 0.1 mA, which is the only reason why the search of `setia`, with ">" in
its loop and "<" in its result, never stops without a verdict (`Decided`).

Seen while modelling, and outside the passing runs (lines of `cmd.cpp`):

* Left behind by an exception. These catch blocks return before the DAQ is stopped,
  a DAC set back or a pixel masked: 7034 and 7071 (DacScanPix), 7682 and 7728,
  7945 and 7970 (GetEff), 8138 and 8183 (DacScanMod), 9074 and 9118, 11747 and 11777
  (GetRocData), 12053 and 12096 (ModPixelAlive), 13305 and 13343, 15940 and 15976,
  16553 and 16602. The same command typed again puts it right (`retry`); another one
  finds what the first left, also the USB timeout of 2 s (3641). An exception in `mt`
  leaves both voltages on (17661).
* More than one ROC. `thrmap` measures through `ThrPix( 0, ... )` (13088) whatever ROC it
  is at. `modtune` works on all 16 ROCs whatever is selected, and ModPixelAlive leaves
  the address at the last selected one, so the SetDAC behind it (12545, 12643) goes
  there. `setiamod` sets Vana of all 16 to 0 and back for the selected ones (5468);
  its `ok` is that of the last. A command that names a ROC (`vthrcompi`, `effdac`, `dac`)
  leaves the address there.
* Early returns. tunePHmod (12324, 12332) leaves CtrlReg at 4; `oneroc` and `bare` (16962,
  17052) leave `dacval[CtrlReg]` as the test had it, in agreement with the chip; `trim`
  (13897) leaves CtrlReg 0 when it is skipped.
* Trim bits. `trim` loads the bits of before its last step into the FPGA (14155);
  `modvtrim` sets modtrm to 15 (9827), `pixd`, `pixm`, `subtb`, `modtrimbits`,
  `modnoise` change masks or trims, without loading them; `select` loads 15 whatever
  modtrm is.
* Channels. `tbmscan` (2753), `modtrimbits` (10304) and `modnoise` (10800) read channel 0 in
  the loop over the channels.
* No flush at the end: `vanaroc` (15648), `caldelroc` (15287), `dacdac` (16765), `deserext`,
  `deser160`, `module`, `tbmgetraw`. `deserext` leaves the external trigger selected.
* Loops. The search for another seed pixel (12871-12883) sets `again` and never resets
  it: with a sick seed it does not end.
* Other. `gaindac` starts the DAQ (15714) before GetRocData starts it again. `poff`
  takes the DACs from the chips and not from `dacval`. `dclose` of one channel marks the
  DAQ closed (2148). The last line of a parameter file is applied twice at its end.
  UpdateDTB drops a last line without newline (377).
* High voltage (`iseg.cpp`, `rs232.cpp`). S1=OFF or MAN sets `iseg_connected` to 0,
  after which neither `hvoff` nor the destructor does anything; a start while the supply
  ramps leaves `hv_on` false until the next start; `supply_tripped` is set, and
  `tripped()`, which would tell, is never called; a late answer crashes `outToDouble`,
  and the destructor is skipped.

## 4. The proofs

All are for arbitrary functions, shapes, sizes, buffers, numbers of calls and failures
(RPC), arbitrary scripts, commands and limits (interpreter), arbitrary numbers of ROCs,
DACs and channels (procedures) and arbitrary voltages (supply), under the ASSUMEs of
`RpcMessages`, `UsbRpc`, `Interpreter`, `Calls`, `Settings`, `Procedures`, `AnalogCurrent`
and `HvSupply`: sizes are positive where the messages need it, words are distinct, the
buffer sizes are at least 1, a voltage is written in one or more digits (`vb` reads 0 to
2000, `cmd.cpp:992`, and setVoltage prints it without a fraction, `iseg.cpp:208`). TLC
evaluates each of them on the instances.

* `UsbRpc_proofs`, first part - `TypeCorrect`. TypeOK is not inductive: the type of what is
  looked up in `log` needs that every byte in a buffer belongs to a call that was
  made (`Bytes`). Each action has its lemma; `LookingType` treats what a stub does
  with a field.
* `UsbRpcPairing_proofs`, first part - `ExecutedInOrder`. The pipe `tx \o wbuf` is
  strictly sorted by call and place (`Framing`), everything in it is behind what was
  executed (`Executions`), and the last byte of a request is not with the driver while
  its stub still writes (`Writing`), so the board cannot execute it early. Most actions
  only take a contiguous part of the pipe (`Part`), which keeps all of that.
* `UsbRpcPairing_proofs`, second part - `Invariant`, `AnswersPaired`, `IdsStayRight`.
  The key is `Clean`: on a clean link the bytes from the board are exactly the rest of
  the answer to the call in progress (`OnTrack`), or there are none and the request is
  still in the pipe (`NotYet`); no request in the pipe but the current one expects an
  answer. Paired alone says nothing about the bytes still to come and is therefore not
  inductive.
* `UsbRpcFate_proofs`, first part - `NoCallForgotten`, `AnswerIsBarrier`.
  `NothingForgotten` is not inductive: a call that was dropped may leave a part of its
  request on its way, and the board must not execute that. `Fate` adds that a dropped
  call lacks its last byte. The bytes of every other call lie in the pipe one behind
  another, which the flush in the middle of a request keeps, since it moves a byte from
  `m_bufferW` to the driver without changing `tx \o wbuf`. For the barrier (`Settled`):
  on a clean link the call that was answered is executed, and what is still in the pipe
  is behind what was executed, so no earlier call is under way.
* `UsbRpcFate_proofs`, second part - `LinkServes`, the refinement. From the invariants
  above, the initial state and each step of `UsbRpc` map to one of `RpcService` or to a
  stutter: Create is `Make`, the stub's return is `Answered` or `Failed`, a short read
  is `Distrust`, and a flush of the client, Clear and Open are `Reset`. What has to be
  shown is that a call is executed once and in order, that nothing executed is dropped,
  and that a link is trusted again only when no call with an answer is still under way.
* `UsbRpc_proofs`, second part - `MessagesRemovedWhole`, under `SmallData`: no data message has
  2^16 bytes or more, the size that Receive keeps in a uint16_t. `Aligned` says that the
  bytes from the board are whole answers one behind another (`Runs`), and that the field
  a stub reads is at its place in the answer it comes from (`Inside`). Without SmallData
  MessageBoundary is false; `rpc_drain` shows that on a model with small words.
* `Interpreter_proofs` - `InterpreterInvariant`, `StackBounded`, `PromptIsSent`. The
  strengthening: the flag is true exactly when stdin is the only activation
  (`FlagRight`), a command at the prompt is the line typed (`Typed`), and a frame's
  piece lies in its line (`InText`), which is what makes reading a script defined.
  `ScriptsMean`, for scripts whose lines each fit the buffer (`OnePiece`; without it
  `ScriptRuns` is false, which `interp_comment` shows): however scripts run each other, and
  themselves, a line typed has the effect of `Meaning`. The invariant (`Faithful`) is
  that what was done, followed by what the activations still owe from the top down
  (`ToDo`), is the meaning of the line; a return, a nested script and the end of a file only
  move the border between the two. `Meaning` is recursive twice, in the lines of a
  script and in the depth. That recursive functions satisfy their equations is proved here
  (`Recursion`) by induction on the length of their beginnings; `Induction` takes the set of
  the numbers for which a claim holds instead of an operator, and follows from the
  well-foundedness of < on Nat (`WFMin`).
* `Procedures_proofs`, first part - `ProceduresTypes`, `ChangedOnPurpose`, for every table
  of procedures that satisfies `AllTyped` and `AllPurposeful` of `Programs`, with any
  number of ROCs, channels, DACs, commands and exceptions. `calls` is the witness that
  the hypotheses ask for: the calls that a command can come to. The invariant is that
  `todo` is a sequence of them (`InProgress`), which unfolding, an early return
  (`BehindType`), a catch block (`CaughtType`) and a command that selects other ROCs
  keep. TypeOK alone says nothing about the calls to come, so an argument out of range
  could follow. OnPurpose is a claim on the end of a command; `Excused` makes it one on
  every state in between, behind exceptions too, since the command typed again is
  compared with the state before the first attempt.
* `Procedures_proofs`, second part - `TableFits`: the commands of cmd.cpp are such a table;
  hence `CommandsTyped` and `CommandsOnPurpose`. A licence says what a procedure may do
  (which DACs it may assign, whether it returns, loads trims, switches the power ...),
  `Within` that all calls it comes to are granted by it (`Good` is the set of them,
  closed under what the control structures lead to). There is one rule for each way to put
  a procedure together (`Join`, `One`, `Ways`, `SelectedRounds`, `Called` and so on) and one
  lemma for each procedure, which cites the lemmas of those it calls.
* `Outcomes_proofs` - what the commands leave behind. `TrimsReloaded` and `BufferEmptied`
  are for any number of commands and exceptions: a command that writes trim bits and
  loads them leaves the FPGA with the present ones of the selected ROCs, whatever was
  typed before it; and no command leaves a request in the buffer but those that `Sent`
  excuses, `pixt` and `subtb` (`Idle`: they may send nothing, and then what was left is
  left). `TrimsInTheBoard` (TrimsLoaded, which has `pixt` and `trimbits` in it) and
  `RequestsSent` are for the first command on a board that is set up, `PowersOff` and `ReadsClean` for the first command without exceptions:
  `pgloop` leaves the pattern generator looping, and `pixt` relies on the trim bits of
  the ROCs it does not load; a catch block skips `Pg_Stop` and `HVoff`. `PowersOff`: the
  module test ends without power, and in it the sensor is never biased without power
  for the chips. For the flushes a procedure either sends what it asked for, whatever
  was waiting before (`Flushes`), or leaves the buffer as it is (`Stays`), or leaves it
  empty if it was (`Sends`); a `Flush` behind anything is of the first kind. The
  argument is Hoare logic over `Walks`: a `Triple` for each procedure, put together by
  rules for a call (`Acts`), a sequence (`Sequel`), a function (`Called`), a try block
  (`Trying`), a choice (`Chooses`), a loop (`Repeats`) and the rounds over ROCs and
  channels (`Turns`, `Rounding`). A property at the end of a command is not
  inductive; the invariant, `OnTheWay`, is that the rest of the program leads from
  the present view to what was promised, which each action keeps (`WayNext`). What a
  procedure does not touch follows from its licence alone (`Footprint`).

* `HvSupply_proofs` - all six safety properties, from one inductive invariant, `HvInv`,
  in three layers. `Always`: whatever is late, the program is at a place of one of its
  plans (`Planned`), and what the supply has received together with what is still to be
  sent is the line, or is spoilt (`Sending`, `Spoilt`): a line given up leaves its
  beginning in the supply, the next one begins with a letter, and digits with a letter
  among them are no voltage. Hence `NoVoltageGarbled`. `InTime`, as long as no byte was
  late: what is on the line in both directions is the rest of the one exchange in
  progress (`OnTheLine`), and of lines that were given up before nothing is left once
  the constructor has asked for the status (`Clean`). Hence `LineClear` and
  `QuestionsAnswered`. `Voltages`, if also nobody touched a supply that is on: at each
  place of the plan, which of `voltage_set`, the voltage stored by D1 and the one
  approached since G1 agree. Hence `VoltageFollowed` and `OffAtTheEnd`.
* `AnalogCurrent_proofs` - `AnalogTypeCorrect`, `CopyInLockstep`, `SearchDecided`, for
  arbitrary chips, targets and noise; `SearchSucceeds`, `StepsCloser` for arbitrary
  gentle chips. TypeOK and Lockstep strengthen each other: the step that sets `dacval`
  needs the range of `val`, and the return to the prompt that the three values agree.
  Decided needs that the difference is odd in units of 0.05 mA (`OddDiff`), so that it
  is never equal to the limit. What a gentle chip is says `GentleAssumption`: the
  current rises by 0.1 to 0.2 mA a step (the code expects 0.157), the measurement is
  right to a digit, and no step from 1 to 254 leads out of that range, which bounds the
  pedestal and the target. A step then corrects six tenths of the difference, to at most
  twice that, but for the rounding and the noise (`Contraction`), and never so much that
  the other sign is farther away. Succeeds is not inductive: `GentleInv` adds that the
  difference is that of the Vana on the chip, and a bound on it for each number of steps
  (`Reach`: 846, 344, 143, 63, 31, 18, 13, 11), behind which the search has stopped.

Only model-checked: liveness (StubsEnd, FlushedRuns, PromptAgain, Ends: the proof system
has no fairness rules here); Restored, Quiet and AllRead, which depend on the order
of the calls in each procedure of the table, not on each call for itself: that the last of
several writes to a DAC is the one that restores it is a fact about 113 given sequences,
and TLC follows each of them along every branch.

## 5. The plan

1. RPC over USB: `RpcMessages`, `UsbRpc`, `RpcService`. Done, proved.
2. Interpreter: `Interpreter`, `ScriptMeaning`. Done, proved.
3. The procedures on the board: `Calls`, `Procedures` and the command modules. Done,
   checked; types, purpose, the fit of the table and a part of the outcomes proved. Left to
   prove: Restored, Quiet and AllRead, by the rules of `Walks`. Left to model: modules of
   the L1 kind, whose ROCs come on channels in the order of the table `roc2ch` (6975);
   what a *different* command finds behind an exception.
4. Searches: `AnalogCurrent`. Done, proved. Left: the numbers of `setcaldel`, `ThrPix`,
   `TrimStep`, `tunePH`; their calls are in 3.
5. High voltage: `HvSupply`. Done, proved. Left: `Iseg::status`.
6. Not begun: the decoding of the words (DecodePixel, the event builders in `cmd.cpp`)
   against a reference definition, and the parsing of a command line.

## 6. Not modelled, and why

Histograms, drawing, log file, settings, profiler: output that nothing reads back.
The FTDI driver, the firmware and the HV supply are external; their part is what the
client can observe. Command line parsing is a function of one line without state; the
commands are modelled with parameters in their ranges. The words of an event and their
decoding are data: what they say is a choice in the procedures. The code around
`cmd()` in `psi46test.cpp` is a straight line; Open, Clear, Close, the last flush and the
destructor of the supply are in the modules of those parts. `UpdateDTB` is modelled with
its calls and the places where it gives up; what the board counts is in its firmware.
`WaitForFilledQueue` of `usb.cpp`, the `CDataPipe` chain of `analyzer.cpp` and
`CHashTable::Delete` are compiled and never called. `o2r.cc` is a separate offline
program. The vendored headers under `linux/` are types only, and `linux/rs232.cpp` is not
built.
