----------------------------- MODULE Procedures -----------------------------
(***************************************************************************)
(* The procedures of cmd.cpp executed on the board: one command at a time, *)
(* call by call.  Requests that need no answer wait in the USB buffer and  *)
(* reach the board in order (UsbRpc); line holds the board as it was after *)
(* the last barrier and after each of the requests that wait, so that the  *)
(* last element is the board as the program takes it to be, and an         *)
(* exception leaves any of them.  The control structures of C++ unfold in  *)
(* todo, the rest of the program; the marks in it say where a function and *)
(* a try block end.                                                        *)
(***************************************************************************)
EXTENDS Calls, FiniteSets

CONSTANTS
    Procedure,  \* Procedure[c]: the calls that the command c makes
    Purpose,    \* Purpose[c]: the DACs that c is there to change
    Tests,      \* commands that leave no set-up behind
    Trimming,   \* commands that load the trims they have found
    Unflushed,  \* commands that end without a flush
    ForOneRoc,  \* commands that never address a ROC, for a single chip
    ForAllRocs, \* commands that change all 16 ROCs
    Naming,     \* commands that take the number of a ROC
    ReadingOne, \* commands that read channel 0 for each of the channels
    PoweringDown, \* commands that switch the power off at the end
    MaxCommands,\* commands typed in a behaviour
    MaxThrows   \* exceptions in a behaviour

ASSUME BoundsAssumption == MaxCommands \in Nat /\ MaxThrows \in Nat

Commands == DOMAIN Procedure
Locals == {"val", "ctl"}

VARIABLES
    line,       \* boards: after the last barrier, after each request that waits
    unsent,     \* requests wait in the buffer
    dacval,     \* dacval[r][d]
    phase,      \* tbState.clockPhase
    timeout,    \* of the USB transfers
    roclist,    \* the selected ROCs
    kept,       \* local variables of the procedure
    todo,       \* the rest of the procedure
    command,    \* the last command typed
    \* history, of the command typed last
    outcome,    \* "running", "done", "caught" (a catch block ran) or "thrown"
    before,     \* dacval and the pixels when it was first typed
    started, read,  \* channels on which it started the DAQ, that it read
    live,       \* it read a channel while the trigger loop fired
    typed, throws   \* commands and exceptions so far

host == <<dacval, phase, timeout, roclist, kept>>
history == <<command, outcome, before, started, read, live, typed, throws>>
vars == <<line, unsent, host, todo, history>>

Board == [addr : Rocs,                         \* roc_I2cAddr
          dac : [Rocs -> [Dacs -> Values]],    \* on the chips
          on : [Rocs -> SUBSET {"column", "pixel", "cal"}],
          trims : [Rocs -> BOOLEAN],           \* FPGA table = modtrm
          runs : SUBSET Channels,              \* the DAQ runs
          open : SUBSET Channels,              \* memory of the DAQ
          loop : {"on", "off"},                \* Pg_Loop
          trigger : {"pg", "other"},           \* Trigger_Select
          delay : {"tuned", "scan", "new"},    \* Sig_SetDelay
          lv : {"on", "off"},                  \* Pon, Poff
          hv : {"on", "off"}]                  \* HVon, HVoff

Now == line[Len(line)]
Prompt == todo = <<>>
Call1 == todo[1]
Rest == Tail(todo)
Doing(what) == todo # <<>> /\ Call1.do = what

Healthy == [addr |-> 0,
            dac |-> [r \in Rocs |-> [d \in Dacs |-> Set(r, d)]],
            on |-> [r \in Rocs |-> {}],
            trims |-> [r \in Rocs |-> TRUE],
            runs |-> {}, open |-> Channels,
            loop |-> "off", trigger |-> "pg", delay |-> "tuned",
            lv |-> "on", hv |-> "off"]

\* A board that is set up, with some of its ROCs selected.
Init ==
    /\ roclist \in {s \in SUBSET Rocs : 0 \in s}
    /\ \E a \in roclist : line = <<[Healthy EXCEPT !.addr = a]>>
    /\ unsent = FALSE
    /\ dacval = Healthy.dac
    /\ phase = "tuned" /\ timeout = "long"
    /\ kept = [x \in Locals |-> Scan]
    /\ todo = <<>>
    /\ command = "none" /\ outcome = "done"
    /\ before = [dacval |-> dacval, on |-> Now.on]
    /\ started = {} /\ read = {} /\ live = FALSE
    /\ typed = 0 /\ throws = 0

-----------------------------------------------------------------------------
\* Requests that need no answer.

Value(v) ==
    IF v[1] = "copy" THEN dacval[v[2]][v[3]]
    ELSE IF v[1] = "kept" THEN kept[v[2]] ELSE v

\* A chip without power loses its DACs and takes none.
Supply(b, part, to) ==
    IF part = "lv" /\ to = "off"
    THEN [b EXCEPT !.lv = "off", !.on = [r \in Rocs |-> {}],
                   !.dac = [r \in Rocs |-> [d \in Dacs |-> Lost]]]
    ELSE [b EXCEPT ![part] = to]

\* What a request does to the board b.
Effect(b, i) ==
    CASE i.do = "roc_I2cAddr" -> [b EXCEPT !.addr = i.roc]
      [] i.do = "first" ->
           [b EXCEPT !.addr = CHOOSE r \in roclist : \A s \in roclist : r <= s]
      [] i.do \in {"SetDAC", "pixels"} /\ b.lv = "off" -> b
      [] i.do = "SetDAC" /\ b.lv = "on" -> [b EXCEPT !.dac[b.addr][i.dac] = Value(i.val)]
      [] i.do = "pixels" /\ b.lv = "on" -> [b EXCEPT !.on[b.addr] = (@ \cup i.adds) \ i.drops]
      [] i.do = "Daq_Start" -> [b EXCEPT !.runs = @ \cup {i.ch}]
      [] i.do = "Daq_Stop" -> [b EXCEPT !.runs = @ \ {i.ch}]
      [] i.do = "Daq_Close" -> [b EXCEPT !.open = @ \ {i.ch}]
      [] i.do = "switch" -> Supply(b, i.part, IF i.to = "phase" THEN phase ELSE i.to)
      [] i.do = "send" -> b

Voids == {"roc_I2cAddr", "first", "SetDAC", "pixels", "Daq_Close", "Daq_Start",
          "Daq_Stop", "switch", "send"}

\* The stub writes its request into the buffer.
Request ==
    /\ todo # <<>> /\ Call1.do \in Voids
    /\ LET b == Effect(Now, Call1) IN
       line' = IF b = Now THEN line ELSE Append(line, b)
    /\ unsent' = TRUE
    /\ started' = IF Call1.do = "Daq_Start" THEN started \cup {Call1.ch} ELSE started
    /\ todo' = Rest
    /\ UNCHANGED <<host, command, outcome, before, read, live, typed, throws>>

-----------------------------------------------------------------------------
\* Calls that wait for the board: what is in the buffer is sent first.

Waits == {"flush", "SetTrimValues", "Daq_Open", "Daq_Read", "LoopSingleRoc", "LoopMultiRoc"}

Barrier(b) ==
    /\ line' = <<b>> /\ unsent' = FALSE
    /\ todo' = Rest
    /\ UNCHANGED <<host, command, outcome, before, started, typed, throws>>

FlushAll ==
    /\ Doing("flush")
    /\ Barrier(Now)
    /\ UNCHANGED <<read, live>>

LoadTrimTable ==
    /\ Doing("SetTrimValues")
    /\ Barrier([Now EXCEPT !.trims[Call1.roc] = Call1.same])
    /\ UNCHANGED <<read, live>>

OpenMemory ==
    /\ Doing("Daq_Open")
    /\ Barrier([Now EXCEPT !.open = @ \cup {Call1.ch}])
    /\ UNCHANGED <<read, live>>

ReadChannel ==
    /\ Doing("Daq_Read")
    /\ Barrier(Now)
    /\ read' = read \cup {Call1.ch}
    /\ live' = (live \/ Now.loop = "on")

\* A trigger loop addresses the ROCs itself and leaves the DACs it scans at
\* the end of the range.
Scanned(b, rs, ds) ==
    [b EXCEPT !.dac = [r \in Rocs |-> [d \in Dacs |->
         IF r \in rs /\ d \in ds /\ b.lv = "on" THEN Scan ELSE b.dac[r][d]]]]

LoopOne ==
    /\ Doing("LoopSingleRoc")
    /\ Barrier([Scanned(Now, {Call1.roc}, Call1.dacs) EXCEPT !.addr = Call1.roc])
    /\ UNCHANGED <<read, live>>

LoopSelected ==
    /\ Doing("LoopMultiRoc")
    /\ \E a \in roclist :
          Barrier([Scanned(Now, roclist, Call1.dacs) EXCEPT !.addr = a])
    /\ UNCHANGED <<read, live>>

-----------------------------------------------------------------------------
\* Assignments to the state of the program.

Onward == todo' = Rest /\ UNCHANGED <<unsent, history>>

AssignDacval ==
    /\ Doing("dacval")
    /\ dacval' = [dacval EXCEPT ![Call1.roc][Call1.dac] = Value(Call1.val)]
    /\ Onward /\ UNCHANGED <<line, phase, timeout, roclist, kept>>

Remember ==
    /\ Doing("keep")
    /\ kept' = [kept EXCEPT ![Call1.name] = dacval[Call1.roc][Call1.dac]]
    /\ Onward /\ UNCHANGED <<line, dacval, phase, timeout, roclist>>

\* modtrm[r] changes: the table in the FPGA is another one until it is loaded.
AssignModtrm ==
    /\ Doing("modtrm")
    /\ line' = [k \in 1 .. Len(line) |-> [line[k] EXCEPT !.trims[Call1.roc] = FALSE]]
    /\ Onward /\ UNCHANGED host

AssignPhase ==
    /\ Doing("phase")
    /\ phase' = Call1.val
    /\ Onward /\ UNCHANGED <<line, dacval, timeout, roclist, kept>>

\* usb.SetTimeout goes to the driver at once.
AssignTimeout ==
    /\ Doing("timeout")
    /\ timeout' = Call1.val
    /\ Onward /\ UNCHANGED <<line, dacval, phase, roclist, kept>>

AssignRoclist ==
    /\ Doing("select")
    /\ roclist' = Call1.of
    /\ Onward /\ UNCHANGED <<line, dacval, phase, timeout, kept>>

-----------------------------------------------------------------------------
\* Control.

Unfold(p) ==
    /\ todo' = p
    /\ UNCHANGED <<line, unsent, host, history>>

Choose == Doing("either") /\ \E k \in DOMAIN Call1.of : Unfold(Call1.of[k] \o Rest)

Repeat == Doing("again") /\ (Unfold(Call1.of[1] \o todo) \/ Unfold(Rest))

NextRoc ==
    /\ Doing("each")
    /\ LET r == Call1.roc
           body == IF Call1.all \/ r \in roclist THEN Call1.of[r] ELSE <<>>
           more == IF r = MaxRoc THEN <<>> ELSE <<[Call1 EXCEPT !.roc = r + 1]>>
       IN Unfold(body \o more \o Rest)

Enter ==
    \/ Doing("call") /\ Unfold(Call1.of[1] \o <<EndOfCall>> \o Rest)
    \/ Doing("try") /\ Unfold(Call1.of[1] \o <<EndOfTry>> \o Rest)

Leave == todo # <<>> /\ Call1 \in {EndOfCall, EndOfTry} /\ Unfold(Rest)

\* What is left of the program p behind the function it is in.
Behind(p) ==
    LET ends == {k \in 1 .. Len(p) : p[k] = EndOfCall} IN
    IF ends = {} THEN <<>>
    ELSE SubSeq(p, (CHOOSE k \in ends : \A j \in ends : k <= j) + 1, Len(p))

ReturnEarly == Doing("return") /\ Unfold(Behind(Rest))

-----------------------------------------------------------------------------
\* A call throws a CRpcError: a stub that waits does, and any other one when
\* the buffer is full and it has to flush.  The requests that wait may all
\* have been executed, or a part of them.

\* The block in progress that catches it: the part of p behind the block.
Caught(p) ==
    LET ends == {k \in 1 .. Len(p) : p[k] = EndOfTry} IN
    SubSeq(p, (CHOOSE k \in ends : \A j \in ends : k <= j) + 1, Len(p))

Throw ==
    /\ throws < MaxThrows
    /\ todo # <<>>
    /\ Call1.do \in Voids \cup Waits
    /\ \E k \in 1 .. Len(line) : line' = <<line[k]>>
    /\ unsent' = FALSE
    /\ throws' = throws + 1
    /\ \/ /\ \E k \in 1 .. Len(todo) : todo[k] = EndOfTry
          /\ todo' = Behind(Caught(todo))
          /\ outcome' = "caught"
       \/ /\ \A k \in 1 .. Len(todo) : todo[k] # EndOfTry
          /\ todo' = <<>>
          /\ outcome' = "thrown"
    /\ UNCHANGED <<host, command, before, started, read, live, typed>>

-----------------------------------------------------------------------------
\* The prompt.

Finish ==
    /\ Prompt /\ outcome = "running"
    /\ outcome' = "done"
    /\ UNCHANGED <<line, unsent, host, todo, command, before, started, read, live, typed, throws>>

\* A command is typed; after one that failed it is the same one again.
Type(c) ==
    /\ Prompt /\ outcome # "running" /\ typed < MaxCommands
    /\ outcome \in {"caught", "thrown"} => c = command
    /\ c \in ForOneRoc => roclist = {0}
    /\ c \in ForAllRocs => roclist = Rocs
    /\ command' = c /\ outcome' = "running"
    /\ todo' = Procedure[c]
    /\ before' = IF outcome = "done" THEN [dacval |-> dacval, on |-> Now.on] ELSE before
    /\ started' = {} /\ read' = {} /\ live' = FALSE
    /\ typed' = typed + 1
    /\ UNCHANGED <<line, unsent, host, throws>>

Next ==
    \/ Request \/ FlushAll \/ LoadTrimTable \/ OpenMemory \/ ReadChannel \/ LoopOne \/ LoopSelected
    \/ AssignDacval \/ Remember \/ AssignModtrm \/ AssignPhase \/ AssignTimeout
    \/ AssignRoclist
    \/ Choose \/ Repeat \/ NextRoc \/ Enter \/ Leave \/ ReturnEarly
    \/ Throw \/ Finish
    \/ \E c \in Commands : Type(c)

Spec == Init /\ [][Next]_vars

-----------------------------------------------------------------------------
\* Properties.

\* The variables have their types, and some board is always the present one.
TypeOK ==
    /\ line \in Seq(Board) /\ line # <<>>
    /\ unsent \in BOOLEAN
    /\ dacval \in [Rocs -> [Dacs -> Values]]
    /\ phase \in {"tuned", "new"} /\ timeout \in {"long", "short"}
    /\ roclist \in SUBSET Rocs /\ roclist # {}
    /\ kept \in [Locals -> Values]
    /\ command \in Commands \cup {"none"}
    /\ outcome \in {"running", "done", "caught", "thrown"}
    /\ started \in SUBSET Channels /\ read \in SUBSET Channels
    /\ live \in BOOLEAN
    /\ typed \in 0 .. MaxCommands /\ throws \in 0 .. MaxThrows

Done == Prompt /\ outcome = "done" /\ command # "none"

\* The manual: "The state of the ROC (DACs, trims, thresholds) is represented
\* in software.  A test (e.g. a DAC scan) is supposed to restore the original
\* state, unless a DAC is changed on purpose."
\* Behind a command that came to its end each DAC of each chip with power
\* has the value that the software copy says.
Restored ==
    Done => \A r \in Rocs, d \in Dacs : Now.dac[r][d] \in {dacval[r][d], Lost}

\* A command changes the DACs it is there for, of the selected ROCs, and no
\* other ones, however often it was retried.
OnPurpose ==
    Done => \A r \in Rocs, d \in Dacs :
        dacval[r][d] # before.dacval[r][d] =>
            /\ d \in Purpose[command]
            /\ r \in roclist \/ command \in Naming

\* Behind a test the DAQ and the trigger loop stand still, the triggers come
\* from the pattern generator, the delays are those of the clock phase, the
\* USB waits as long as before, and no pixel is left on.
Quiet ==
    Done /\ command \in Tests =>
        /\ Now.runs = {} /\ Now.loop = "off" /\ Now.trigger = "pg"
        /\ Now.delay = phase /\ timeout = "long"
        /\ \A r \in Rocs : Now.on[r] \subseteq before.on[r]

\* The triggers of the FPGA use the trims that were found.
TrimsLoaded == Done /\ command \in Trimming => \A r \in roclist : Now.trims[r]

\* A command that reads what it took reads all channels it started.
AllRead == Done /\ command \notin ReadingOne /\ read # {} => started \subseteq read

\* "stop triggers, necessary for clean data"
CleanRead == ~live

\* Nothing that a command asked for is still waiting for a flush.
Sent == Done /\ command \notin Unflushed => ~unsent

\* Whichever way the module test ends, the high voltage is off, the power is
\* off; and the chips have power as long as the sensor is biased.
PoweredDown ==
    command \in PoweringDown =>
        /\ Done => Now.lv = "off" /\ Now.hv = "off"
        /\ \A k \in 1 .. Len(line) : line[k].hv = "on" => line[k].lv = "on"
=============================================================================
