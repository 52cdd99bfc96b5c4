--------------------------- MODULE MCInterpreter ---------------------------
(* Scripts for TLC: one that is a sequence of commands, one that calls it    *)
(* and goes on, one that calls itself and leaves.                            *)
EXTENDS ScriptMeaning

Line(w) == <<w>>

ShortLines ==
    [w \in {"setup", "take", "loop"} |->
        CASE w = "setup" -> <<Line(""), Line("led"), Line("module"), Line("getia")>>
          [] w = "take"  -> <<Line("setup"), Line("typo"), Line("led"), Line("exit"), Line("getia")>>
          [] w = "loop"  -> <<Line("led"), Line("loop"), Line("take")>>]

\* A comment of more than 79 characters, the second piece of which begins with
\* the name of a command.
LongComment == [w \in {"prep"} |-> <<Line("led"), <<"", "getia">>, Line("led")>>]

MCSending == {"led", "module"}
MCFlushing == {"led"}
MCAsking == {"getia"}
=============================================================================
