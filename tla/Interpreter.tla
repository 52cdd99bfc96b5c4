---------------------------- MODULE Interpreter ----------------------------
(***************************************************************************)
(* The command interpreter: CInterpreter::run on stdin, the scripts that   *)
(* run calls itself for (command.cpp), the loop in cmd() that catches what *)
(* a command throws, and the end of main.                                  *)
(*                                                                         *)
(* The nested activations of run are the frames of a stack.  A script is a *)
(* sequence of lines, a line the sequence of the words that fgets makes of *)
(* it: fgets takes 79 characters at a time, each piece is read as a        *)
(* command line, and its first word is the command.  What a command makes  *)
(* of its parameters is left out; the requests of a command wait in        *)
(* m_bufferW until something calls Flush (UsbRpc).                         *)
(***************************************************************************)
EXTENDS Integers, Sequences

CONSTANTS
    Script,     \* Script[w]: the lines of the file w.roc
    Sending,    \* commands whose requests need no answer
    Flushing,   \* those of them that end in DO_FLUSH
    Asking,     \* commands that wait for an answer
    MaxIter,    \* 20, the scripts that may be active at a time
    MaxFiles,   \* files the process may have open
    Room        \* requests that fit m_bufferW

Scripts == DOMAIN Script
Commands == Sending \cup Asking \cup {"flush"}
Words == Commands \cup Scripts \cup {"help", "exit", "quit", "typo", ""}

ASSUME WordAssumption ==
    /\ Flushing \subseteq Sending /\ Sending \cap Asking = {}
    /\ Scripts \cap (Commands \cup {"help", "exit", "quit", "typo", "", "stdin"}) = {}
    /\ {"flush", "help", "exit", "quit", "typo", ""} \cap (Sending \cup Asking) = {}
    /\ Script \in [Scripts -> Seq(Seq(Words) \ {<<>>})]
    /\ MaxIter \in Nat /\ MaxFiles \in Nat /\ Room \in Nat \ {0}

VARIABLES
    frames,     \* the activations of run: the file and the place in it
    interactive,\* cmdline.interactive
    word,       \* cmdline.getName() of the command in progress
    pc,         \* "read": run calls cmdline.read; "exec": it looks the word up
    unsent,     \* requests in m_bufferW
    leaked,     \* files that are open and will not be closed
    status,     \* of the program: "running", "left", "crashed"
    \* history, since a line was typed
    line,       \* the word typed
    done,       \* the commands executed for it
    threw       \* an exception ended it

vars == <<frames, interactive, word, pc, unsent, leaked, status, line, done, threw>>

Start(f) == [file |-> f, line |-> 1, piece |-> 1]
Stdin == Start("stdin")
AtStdin == Len(frames) = 1

Frame == [file : Scripts \cup {"stdin"}, line : Nat \ {0}, piece : Nat \ {0}]

\* The activations of run, the files and the requests that wait are bounded.
TypeOK ==
    /\ frames \in Seq(Frame) /\ frames # <<>>
    /\ Len(frames) <= MaxIter + 1
    /\ \A i \in 1 .. Len(frames) : (frames[i].file = "stdin") <=> i = 1
    /\ interactive \in BOOLEAN /\ word \in Words /\ pc \in {"read", "exec"}
    /\ unsent \in 0 .. Room
    /\ leaked \in Nat /\ leaked + Len(frames) <= MaxFiles + 1
    /\ status \in {"running", "left", "crashed"}
    /\ line \in Words /\ done \in Seq(Commands) /\ threw \in BOOLEAN

Init ==
    /\ frames = <<Stdin>> /\ interactive = TRUE /\ word = "" /\ pc = "read"
    /\ unsent = 0 /\ leaked = 0 /\ status = "running"
    /\ line = "" /\ done = <<>> /\ threw = FALSE

Reads == status = "running" /\ pc = "read"
Executes == status = "running" /\ pc = "exec"

-----------------------------------------------------------------------------
(* CCmdLine::read.  It asks the flag, not the file, where the line is from. *)

Read(w) == word' = w /\ pc' = "exec"

TypeLine ==
    /\ Reads /\ (interactive \/ AtStdin)
    /\ \E w \in Words : Read(w) /\ line' = w
    /\ done' = <<>> /\ threw' = FALSE
    /\ UNCHANGED <<frames, interactive, unsent, leaked, status>>

\* At the end of the input readline gives NULL, and strncpy follows it.
EndOfInput ==
    /\ Reads /\ interactive
    /\ status' = "crashed"
    /\ UNCHANGED <<frames, interactive, word, pc, unsent, leaked, line, done, threw>>

Top == frames[Len(frames)]
Text == Script[Top.file]
AtEnd == Top.line > Len(Text)

\* The place behind the piece at Top.
Onward ==
    IF Top.piece < Len(Text[Top.line])
    THEN [Top EXCEPT !.piece = @ + 1]
    ELSE [Top EXCEPT !.line = @ + 1, !.piece = 1]

ReadScript ==
    /\ Reads /\ ~interactive /\ ~AtStdin /\ ~AtEnd
    /\ Read(Text[Top.line][Top.piece])
    /\ frames' = [frames EXCEPT ![Len(frames)] = Onward]
    /\ UNCHANGED <<interactive, unsent, leaked, status, line, done, threw>>

-----------------------------------------------------------------------------
(* The end of an activation.                                                *)

\* Mutant: the caller's flag is not set again after its script.
ReturnKeepsFlag ==
    /\ frames' = SubSeq(frames, 1, Len(frames) - 1) /\ pc' = "read"
    /\ UNCHANGED <<interactive, word, unsent, leaked, status, line, done, threw>>

\* run returns to run, which closes the file and takes its own flag again.
Return ==
    /\ frames' = SubSeq(frames, 1, Len(frames) - 1) /\ pc' = "read"
    /\ interactive' = (Len(frames') = 1)
    /\ UNCHANGED <<word, unsent, leaked, status, line, done, threw>>

\* Mutant: the result of read is not looked at, the last line is run again.
EndScriptAgain ==
    /\ Reads /\ ~interactive /\ ~AtStdin /\ AtEnd
    /\ pc' = "exec"
    /\ UNCHANGED <<frames, interactive, word, unsent, leaked, status, line, done, threw>>

EndScript == Reads /\ ~interactive /\ ~AtStdin /\ AtEnd /\ Return

\* Mutant: exit leaves all scripts.
ExitAll ==
    /\ Executes /\ word \in {"exit", "quit"}
    /\ IF AtStdin
       THEN /\ status' = "left" /\ unsent' = 0
            /\ UNCHANGED <<frames, interactive, word, pc, leaked, line, done, threw>>
       ELSE /\ frames' = <<Stdin>> /\ pc' = "read" /\ interactive' = TRUE
            /\ UNCHANGED <<word, unsent, leaked, status, line, done, threw>>

\* exit or quit: the script ends; on stdin the program does, main flushes.
Exit ==
    /\ Executes /\ word \in {"exit", "quit"}
    /\ IF AtStdin
       THEN /\ status' = "left" /\ unsent' = 0
            /\ UNCHANGED <<frames, interactive, word, pc, leaked, line, done, threw>>
       ELSE Return

\* A command throws: the stack is unwound to cmd(), which calls run(stdin)
\* again.  The files of the scripts stay open, the buffer was given up.
Throw ==
    /\ frames' = <<Stdin>> /\ interactive' = TRUE /\ pc' = "read"
    /\ leaked' = leaked + Len(frames) - 1
    /\ unsent' = 0 /\ threw' = TRUE
    /\ UNCHANGED <<word, status, line>>

-----------------------------------------------------------------------------
(* What run does with a word.                                               *)

\* Nothing: an empty line, a comment (its name is empty), help, a word that is
\* neither a command nor a script, one whose file cannot be opened.
CanOpen == leaked + Len(frames) - 1 < MaxFiles

Nothing ==
    /\ Executes
    /\ word \in {"", "help", "typo"} \/ (word \in Scripts /\ ~CanOpen)
    /\ pc' = "read"
    /\ UNCHANGED <<frames, interactive, word, unsent, leaked, status, line, done, threw>>

\* Mutant: the limit is off by one.
RunScriptTooDeep ==
    /\ Executes /\ word \in Scripts /\ CanOpen /\ pc' = "read"
    /\ IF Len(frames) > MaxIter + 1
       THEN UNCHANGED <<frames, interactive>>
       ELSE /\ frames' = Append(frames, Start(word))
            /\ interactive' = FALSE
    /\ UNCHANGED <<word, unsent, leaked, status, line, done, threw>>

\* run( cf, iter + 1 ): the new activation gives up when iter exceeds the limit.
RunScript ==
    /\ Executes /\ word \in Scripts /\ CanOpen /\ pc' = "read"
    /\ IF Len(frames) > MaxIter
       THEN UNCHANGED <<frames, interactive>>
       ELSE /\ frames' = Append(frames, Start(word))
            /\ interactive' = FALSE
    /\ UNCHANGED <<word, unsent, leaked, status, line, done, threw>>

Finish ==
    /\ done' = Append(done, word) /\ pc' = "read"
    /\ UNCHANGED <<frames, interactive, word, leaked, status, line, threw>>

\* A void stub; a request that does not fit sends the ones before it.
Put == IF unsent = Room THEN 1 ELSE unsent + 1

\* A command of void stubs; DO_FLUSH sends what is buffered, at the prompt only.
Send ==
    /\ Executes /\ word \in Sending
    /\ unsent' = IF word \in Flushing /\ interactive THEN 0 ELSE Put
    /\ Finish

\* Commands with an answer, and the command flush.
Ask ==
    /\ Executes /\ word \in Asking \cup {"flush"}
    /\ unsent' = 0
    /\ Finish

\* Any command that reaches the board may fail: when it waits for an answer,
\* or when the buffer has to be sent.
Fail ==
    /\ Executes
    /\ \/ word \in Asking \cup {"flush"}
       \/ word \in Flushing /\ interactive
       \/ word \in Sending /\ unsent = Room
    /\ Throw
    /\ done' = Append(done, word)

-----------------------------------------------------------------------------

Step ==
    \/ ReadScript \/ EndScript \/ Exit \/ Nothing \/ RunScript
    \/ Send \/ Ask \/ Fail

Next == TypeLine \/ EndOfInput \/ Step

Spec == Init /\ [][Next]_vars

\* The program runs on by itself until it waits for a line.
FairSpec == Spec /\ WF_vars(Step)
-----------------------------------------------------------------------------
(* Properties.  *)

Prompt == Reads /\ AtStdin

\* While the user is asked for a line, the commands typed at this prompt with
\* DO_FLUSH or an answer have reached the board, also after scripts have run and
\* after exceptions: par.isInteractive() is true again when it has to be.
PromptSent == Prompt /\ line \in Flushing \cup Asking \cup {"flush"} => unsent = 0

\* The user gets the prompt back after every line, also when scripts run
\* themselves, until the program ends.
PromptAgain == Executes ~> status # "running" \/ Prompt
=============================================================================
