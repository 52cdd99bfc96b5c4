------------------------------ MODULE HvSupply ------------------------------
(***************************************************************************)
(* The high voltage: class Iseg, the commands that use it, and the serial  *)
(* line of rs232.cpp to the supply.  The supply echoes each character, and *)
(* the program waits for the echo before it sends the next one; a command  *)
(* whose echo is wrong or late is given up in the middle.  Characters are  *)
(* strings of length 1 and "CR", "LF"; an answer is one symbol, and "end"  *)
(* is the CR LF behind it, which the program waits for as a whole.  When   *)
(* the program has left or crashed it is started again.                    *)
(***************************************************************************)
EXTENDS Naturals, Sequences

CONSTANTS
    Volts,      \* voltages, as the digits that are sent for them
    Zero,       \* those of 0 V
    MaxLate,    \* timeouts of the program, for bytes that come later
    MaxTurns,   \* times that the supply trips or somebody turns its knobs
    MaxInput,   \* characters of lines given up that the supply has got, at
                \* which no more lines are sent
    Scans       \* limits of the scans: pairs of voltages

Digits == {"0", "1", "2", "3", "4", "5", "6", "7", "8", "9"}

ASSUME VoltsAssumption ==
    /\ Volts \subseteq Seq(Digits) \ {<<>>}
    /\ Zero \in Volts /\ MaxLate \in Nat /\ MaxTurns \in Nat /\ MaxInput \in Nat
    /\ Scans \subseteq Volts \X Volts

VARIABLES
    \* Iseg
    iseg_connected, hv_on, voltage_set,
    \* the program
    pc,         \* "prompt", "exchange" (begins), "send", "echo", "answer",
                \* "got" (the exchange is over), "out" (left or crashed)
    todo,       \* what is left of the command: what to do with the supply
    cmd,        \* what is left of the line to be sent
    buf,        \* the echo read last, buf of writeCommand
    answer,
    \* the line and the supply
    rx, wire,   \* bytes received, bytes on the way
    input,      \* characters of an incomplete line
    stored, target, \* the voltages of D1 and G1
    state,      \* status
    \* history
    told,       \* the program has set a voltage since it was started
    late,       \* there was a timeout since the program was started
    touched,    \* the supply tripped or was switched since then
    timeouts, turns

iseg == <<iseg_connected, hv_on, voltage_set>>
line == <<rx, wire>>
supply == <<input, stored, target, state>>
history == <<told, late, touched, timeouts, turns>>
vars == <<iseg, pc, todo, cmd, buf, answer, line, supply, history>>

Ready == {"ON", "L2H", "H2L"}
States == Ready \cup {"TRP", "OFF", "MAN"}

-----------------------------------------------------------------------------
\* Commands: each is a sequence of operations of Iseg.

Status == [op |-> "S1"]                 \* of the constructor
Again == [op |-> "S1 again"]
Set(v) == [op |-> "D1", volts |-> v]    \* setVoltage
Apply == [op |-> "G1"]
Get == [op |-> "U1"]                    \* getVoltage, getCurrent
Close == [op |-> "close"]

vb(v) == <<Set(v)>>
getvb == <<Get>>                        \* getvb, getib, ibvst, showhv
scanvb(lo, hi) == <<Set(lo), Get, Get, Set(hi), Get, Get, Set(lo)>>
hvoff == <<Set(Zero)>>
leave == <<Set(Zero), Close>>           \* ~Iseg

Menu == {vb(v) : v \in Volts} \cup {getvb, hvoff} \cup {scanvb(s[1], s[2]) : s \in Scans}

\* Mutant: a question without CR LF.
LineOpen(o) ==
    CASE o.op = "D1" -> <<"D">> \o o.volts \o <<"CR", "LF">>
      [] o.op = "G1" -> <<"G", "CR", "LF">>
      [] o.op \in {"S1", "S1 again"} -> <<"S", "CR", "LF">>
      [] o.op = "U1" -> <<"U">>

\* The line for an operation.
Line(o) ==
    CASE o.op = "D1" -> <<"D">> \o o.volts \o <<"CR", "LF">>
      [] o.op = "G1" -> <<"G", "CR", "LF">>
      [] o.op \in {"S1", "S1 again"} -> <<"S", "CR", "LF">>
      [] o.op = "U1" -> <<"U", "CR", "LF">>

-----------------------------------------------------------------------------
\* The supply.  It executes a line at its LF and answers behind the echo.

Number(l) ==
    /\ Len(l) > 2 /\ l[1] = "D" /\ l[Len(l)] = "CR"
    /\ \A i \in 2 .. Len(l) - 1 : l[i] \in Digits

Voltage(l) == SubSeq(l, 2, Len(l) - 1)

Reply(l) ==
    CASE Number(l) -> <<>>
      [] l \in {<<"G", "CR">>, <<"S", "CR">>} -> <<state>>
      [] l = <<"U", "CR">> -> <<"volts">>
      [] OTHER -> <<"????">>

Moves(v) == {IF v = target THEN "ON" ELSE "L2H", IF v = target THEN "ON" ELSE "H2L"}

Execute(l) ==
    /\ input' = <<>>
    /\ stored' = IF Number(l) THEN Voltage(l) ELSE stored
    /\ IF l = <<"G", "CR">> /\ state \in Ready
       THEN target' = stored /\ state' \in Moves(stored)
       ELSE target' = target /\ state' = IF state = "TRP" /\ l = <<"S", "CR">> THEN "ON" ELSE state
    /\ wire' = wire \o <<"LF">> \o Reply(l) \o <<"end">>

Hear(c) ==
    IF c = "LF" THEN Execute(input)
    ELSE /\ input' = Append(input, c)
         /\ wire' = Append(wire, c)
         /\ UNCHANGED <<stored, target, state>>

Deliver ==
    /\ wire # <<>>
    /\ rx' = Append(rx, Head(wire)) /\ wire' = Tail(wire)
    /\ UNCHANGED <<iseg, pc, todo, cmd, buf, answer, supply, history>>

\* What changes by itself is seen by the next status: it is enough that it
\* changes before a line is sent.
Ramped ==
    /\ pc = "exchange"
    /\ state \in {"L2H", "H2L"} /\ state' = "ON"
    /\ UNCHANGED <<iseg, pc, todo, cmd, buf, answer, line, input, stored, target, history>>

Turn(s) ==
    /\ pc = "exchange" /\ turns < MaxTurns /\ state # s
    /\ state' = s /\ turns' = turns + 1 /\ touched' = TRUE
    /\ target' = IF s = "MAN" THEN target ELSE Zero
    /\ UNCHANGED <<iseg, pc, todo, cmd, buf, answer, line, input, stored,
                   told, late, timeouts>>

-----------------------------------------------------------------------------
\* writeCommand: one character, its echo.

Send(rest) ==
    /\ pc' = "echo"
    /\ Hear(Head(rest))
    /\ UNCHANGED <<iseg, todo, cmd, buf, answer, rx, history>>

SendChar == pc = "send" /\ Send(cmd)

\* An exchange begins; buf is a new variable.
Begin ==
    /\ pc = "exchange" /\ Len(input) <= MaxInput
    /\ cmd' = Line(Head(todo)) /\ buf' = "none"
    /\ pc' = "send"
    /\ UNCHANGED <<iseg, todo, answer, line, supply, history>>

\* Mutant: the end of the line is not seen.
CompareOn(c) ==
    IF Head(cmd) # c THEN pc' = "got" /\ UNCHANGED <<cmd, answer>>
    ELSE pc' = "send" /\ cmd' = Tail(cmd) /\ UNCHANGED answer

\* Mutant: a line given up is ended, so that the next one has its own line.
CompareEnds(c) ==
    IF Head(cmd) \notin {c, "CR", "LF"}
    THEN pc' = "send" /\ cmd' = <<"CR", "LF">> /\ UNCHANGED answer
    ELSE IF Len(cmd) > 1 THEN pc' = "send" /\ cmd' = Tail(cmd) /\ UNCHANGED answer
    ELSE pc' = "answer" /\ cmd' = <<>> /\ answer' = <<>>

\* The character is compared with buf: the next one, the answer, or the end.
Compare(c) ==
    IF Head(cmd) # c THEN pc' = "got" /\ UNCHANGED <<cmd, answer>>
    ELSE IF Len(cmd) > 1 THEN pc' = "send" /\ cmd' = Tail(cmd) /\ UNCHANGED answer
    ELSE pc' = "answer" /\ cmd' = <<>> /\ answer' = <<>>

Echo ==
    /\ pc = "echo" /\ rx # <<>>
    /\ buf' = Head(rx) /\ rx' = Tail(rx)
    /\ Compare(buf')
    /\ UNCHANGED <<iseg, todo, wire, supply, history>>

\* A timeout: nothing came, because it comes later or never.
Timeout ==
    /\ rx = <<>>
    /\ IF wire = <<>> THEN UNCHANGED <<late, timeouts>>
       ELSE timeouts < MaxLate /\ timeouts' = timeouts + 1 /\ late' = TRUE
    /\ UNCHANGED <<iseg, todo, line, supply, told, touched, turns>>

\* buf is still the character before.
EchoLate == pc = "echo" /\ Timeout /\ Compare(buf) /\ UNCHANGED buf

-----------------------------------------------------------------------------
\* writeCommandAndReadAnswer: all that is there is read until CR LF comes.

Upto(s) == SubSeq(s, 1, (CHOOSE i \in 1 .. Len(s) :
                            s[i] = "end" /\ \A j \in 1 .. i - 1 : s[j] # "end") - 1)
Complete(s) == \E i \in 1 .. Len(s) : s[i] = "end"

\* Mutant: the first piece of the answer is taken for all of it.
AnswerPieceFirst ==
    /\ pc = "answer" /\ rx # <<>>
    /\ rx' = <<>>
    /\ answer' = (IF Complete(rx) THEN Upto(rx) ELSE rx) /\ pc' = "got"
    /\ UNCHANGED <<iseg, todo, cmd, buf, wire, supply, history>>

AnswerPiece ==
    /\ pc = "answer" /\ rx # <<>>
    /\ rx' = <<>>
    /\ LET all == answer \o rx IN
       IF Complete(all) THEN answer' = Upto(all) /\ pc' = "got"
       ELSE answer' = all /\ UNCHANGED pc
    /\ UNCHANGED <<iseg, todo, cmd, buf, wire, supply, history>>

AnswerLate == pc = "answer" /\ Timeout /\ pc' = "got" /\ UNCHANGED <<cmd, buf, answer>>

-----------------------------------------------------------------------------
\* Iseg: what follows an exchange.

\* handleAnswers
Handled == iseg_connected' = (iseg_connected /\ answer \notin {<<"OFF">>, <<"MAN">>})

\* The answer buffer of the next operation is a new one, unless it belongs
\* to the same function.
Onward(ops) ==
    /\ todo' = ops
    /\ pc' = IF ops = <<>> THEN "prompt" ELSE "op"
    /\ answer' = <<>>
    /\ UNCHANGED <<cmd, buf, line, supply, told, late, touched, timeouts, turns>>

GotStatus ==
    /\ pc = "got" /\ Head(todo) = Status
    /\ IF answer = <<"ON">> THEN hv_on' = TRUE /\ Onward(<<>>)
       ELSE /\ todo' = <<Again>> /\ pc' = "exchange"
            /\ UNCHANGED <<hv_on, cmd, buf, answer, line, supply, history>>
    /\ UNCHANGED <<iseg_connected, voltage_set>>

GotAgain ==
    /\ pc = "got" /\ Head(todo) = Again
    /\ Handled
    /\ hv_on' = (answer = <<"ON">>)
    /\ Onward(<<>>) /\ UNCHANGED voltage_set

\* Mutant: the new voltage is not applied.
GotSetOnly ==
    /\ pc = "got" /\ Head(todo).op = "D1"
    /\ Onward(Tail(todo)) /\ UNCHANGED iseg

GotSet ==
    /\ pc = "got" /\ Head(todo).op = "D1"
    /\ todo' = <<Apply>> \o Tail(todo) /\ pc' = "exchange"
    /\ UNCHANGED <<iseg, cmd, buf, answer, line, supply, history>>

GotApply ==
    /\ pc = "got" /\ Head(todo) = Apply
    /\ Handled
    /\ Onward(Tail(todo)) /\ UNCHANGED <<hv_on, voltage_set>>

GotValue ==
    /\ pc = "got" /\ Head(todo) = Get /\ answer # <<>>
    /\ Onward(Tail(todo)) /\ UNCHANGED iseg

\* outToDouble of an empty answer: strtok returns NULL and atof takes it.
Crash ==
    /\ pc = "got" /\ Head(todo) = Get /\ answer = <<>>
    /\ pc' = "out" /\ todo' = <<Get>>
    /\ UNCHANGED <<iseg, cmd, buf, answer, line, supply, history>>

-----------------------------------------------------------------------------
\* Iseg: how an operation begins.

\* Mutant: voltage_set is not sent when it has that value already.
SetVoltageLazy ==
    /\ pc = "op" /\ Head(todo).op = "D1"
    /\ LET v == Head(todo).volts IN
       IF ~iseg_connected THEN Onward(Tail(todo)) /\ UNCHANGED iseg
       ELSE /\ voltage_set' = v /\ UNCHANGED <<iseg_connected, hv_on>>
            /\ IF hv_on /\ v # voltage_set
               THEN /\ pc' = "exchange" /\ told' = TRUE
                    /\ UNCHANGED <<todo, cmd, buf, answer, line, supply, late, touched,
                                   timeouts, turns>>
               ELSE Onward(Tail(todo))

SetVoltage ==
    /\ pc = "op" /\ Head(todo).op = "D1"
    /\ LET v == Head(todo).volts IN
       IF ~iseg_connected THEN Onward(Tail(todo)) /\ UNCHANGED iseg
       ELSE /\ voltage_set' = v /\ UNCHANGED <<iseg_connected, hv_on>>
            /\ IF hv_on
               THEN /\ pc' = "exchange" /\ told' = TRUE
                    /\ UNCHANGED <<todo, cmd, buf, answer, line, supply, late, touched,
                                   timeouts, turns>>
               ELSE Onward(Tail(todo))

GetVoltage ==
    /\ pc = "op" /\ Head(todo) = Get
    /\ IF iseg_connected
       THEN pc' = "exchange" /\ UNCHANGED <<todo, cmd, buf, answer, line, supply, history>>
       ELSE Onward(Tail(todo))
    /\ UNCHANGED iseg

\* closeComPort: what was received and not read is gone.
ClosePort ==
    /\ pc = "op" /\ Head(todo) = Close
    /\ pc' = "out" /\ rx' = <<>>
    /\ UNCHANGED <<iseg, todo, cmd, buf, answer, wire, supply, history>>

-----------------------------------------------------------------------------
\* The program.

Type(ops) ==
    /\ pc = "prompt"
    /\ pc' = "op" /\ todo' = ops
    /\ UNCHANGED <<iseg, cmd, buf, answer, line, supply, history>>

\* The constructor.
Start ==
    /\ pc = "out"
    /\ iseg_connected' = TRUE /\ hv_on' = FALSE /\ voltage_set' = Zero
    /\ pc' = "exchange" /\ todo' = <<Status>> /\ answer' = <<>>
    /\ rx' = <<>>
    /\ told' = FALSE /\ touched' = FALSE /\ late' = (wire # <<>>)
    /\ UNCHANGED <<cmd, buf, wire, supply, timeouts, turns>>

Init ==
    /\ iseg_connected = TRUE /\ hv_on = FALSE /\ voltage_set = Zero
    /\ pc = "exchange" /\ todo = <<Status>>
    /\ cmd = <<>> /\ buf = "none" /\ answer = <<>>
    /\ rx = <<>> /\ wire = <<>> /\ input = <<>>
    /\ stored = Zero /\ target = Zero /\ state \in States
    /\ told = FALSE /\ late = FALSE /\ touched = FALSE
    /\ timeouts = 0 /\ turns = 0

Next ==
    \/ \E ops \in Menu \cup {leave} : Type(ops)
    \/ SetVoltage \/ GetVoltage \/ ClosePort \/ Start
    \/ Begin \/ SendChar \/ Echo \/ EchoLate \/ AnswerPiece \/ AnswerLate
    \/ GotStatus \/ GotAgain \/ GotSet \/ GotApply \/ GotValue \/ Crash
    \/ Deliver \/ Ramped \/ \E s \in {"TRP", "OFF", "MAN"} : Turn(s)

Spec == Init /\ [][Next]_vars

-----------------------------------------------------------------------------
\* The variables have their types; a line in progress has a character to send.
TypeOK ==
    /\ iseg_connected \in BOOLEAN /\ hv_on \in BOOLEAN
    /\ voltage_set \in Volts /\ stored \in Seq(Digits) /\ target \in Seq(Digits)
    /\ pc \in {"prompt", "op", "exchange", "send", "echo", "answer", "got", "out"}
    /\ pc \in {"send", "echo"} => cmd # <<>>
    /\ state \in States
    /\ told \in BOOLEAN /\ late \in BOOLEAN /\ touched \in BOOLEAN
    /\ timeouts \in 0 .. MaxLate /\ turns \in 0 .. MaxTurns

\* Whatever comes late, and however often the program is started again, the
\* supply never gets a voltage that no command sets, made of the pieces of
\* two commands or of a digit sent twice.
NeverGarbled == stored \in Volts /\ target \in Volts

\* As long as nothing came late the program and the supply are in step:
\* nothing waits on the line behind a command, ...
InStep == ~late /\ pc \in {"prompt", "op", "exchange"} => rx = <<>> /\ wire = <<>>

\* ... the supply is at the voltage that was set, ...
Followed ==
    ~late /\ ~touched /\ hv_on /\ told /\ pc = "prompt" => target = voltage_set

\* ... the voltage is off when the program has left ("Destructor: Will turn
\* off the HV"), ...
SwitchedOff ==
    ~late /\ ~touched /\ hv_on /\ pc = "out" /\ Head(todo) = Close => target = Zero

\* ... and no question remains without an answer.
Answered == ~late /\ pc = "got" /\ Head(todo) = Get => answer # <<>>

\* The comment at the destructor, for a line on which bytes may be late.
DestructorTurnsOff ==
    ~touched /\ hv_on /\ pc = "out" /\ Head(todo) = Close => target = Zero
=============================================================================
