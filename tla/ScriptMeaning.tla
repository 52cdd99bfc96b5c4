--------------------------- MODULE ScriptMeaning ---------------------------
(***************************************************************************)
(* What a line typed at the prompt means, as a recursive definition, and   *)
(* that the stack of activations of Interpreter computes it.               *)
(***************************************************************************)
EXTENDS Interpreter

\* The commands that the last k lines of the script w stand for, in order, up
\* to exit or quit, when m says what a word stands for.  One line is one command
\* line, whatever its length: what follows its first word is not looked at.
LastLines(m, w) ==
    LET last[k \in 0 .. Len(Script[w])] ==
          IF k = 0 THEN <<>>
          ELSE LET head == Head(Script[w][Len(Script[w]) + 1 - k])
               IN  IF head \in {"exit", "quit"} THEN <<>> ELSE m[head] \o last[k - 1]
    IN last

\* What a word stands for when n more scripts may run: a command for itself, a
\* script for its lines, with one script less to run; beyond that for nothing.
Meaning[n \in 0 .. MaxIter] ==
    [w \in Words |->
        IF w \in Commands THEN <<w>>
        ELSE IF w \in Scripts /\ n > 0 THEN LastLines(Meaning[n - 1], w)[Len(Script[w])]
        ELSE <<>>]

\* The commands done are all those, or the first ones.
Begins(s, all) == Len(s) <= Len(all) /\ s = SubSeq(all, 1, Len(s))

\* A line typed at the prompt has the effect its script says, nested scripts in
\* place: the shared CCmdLine, the flag and the files of the activations do not
\* get in each other's way; a command that throws stops the rest.
ScriptRuns ==
    Prompt /\ leaked + MaxIter < MaxFiles =>
        LET all == Meaning[MaxIter][line]
        IN  IF threw THEN Begins(done, all) ELSE done = all
=============================================================================
