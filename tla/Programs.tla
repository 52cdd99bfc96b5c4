------------------------------ MODULE Programs ------------------------------
(***************************************************************************)
(* What the calls of a procedure may be, so that Procedures can execute    *)
(* them: a condition on the table Procedure, one call at a time, from      *)
(* which the theorems of Procedures_proofs follow however the procedures   *)
(* loop, return, throw and are typed again.                                *)
(***************************************************************************)
EXTENDS Procedures

Selections == (SUBSET Rocs) \ {{}}

\* The ROCs s may be selected when c is typed.
Allowed(c, s) == (c \in ForOneRoc => s = {0}) /\ (c \in ForAllRocs => s = Rocs)

Expressions ==
    Values \cup {Copy(r, d) : r \in Rocs, d \in Dacs} \cup {Kept(x) : x \in Locals}

Positions == [loop |-> {"on", "off"}, trigger |-> {"pg", "other"},
              delay |-> {"tuned", "scan", "new", "phase"},
              lv |-> {"on", "off"}, hv |-> {"on", "off"}]

\* The arguments of a call are in their ranges.
Fits(i) ==
    /\ i.do \in {"roc_I2cAddr", "SetTrimValues", "LoopSingleRoc", "dacval", "keep", "modtrm"} =>
          i.roc \in Rocs
    /\ i.do \in {"SetDAC", "dacval"} => i.dac \in Dacs /\ i.val \in Expressions
    /\ i.do = "keep" => i.name \in Locals /\ i.dac \in Dacs
    /\ i.do = "pixels" => i.adds \subseteq {"column", "pixel", "cal"}
    /\ i.do \in {"Daq_Open", "Daq_Start", "Daq_Read"} => i.ch \in Channels
    /\ i.do = "SetTrimValues" => i.same \in BOOLEAN
    /\ i.do = "switch" => i.part \in DOMAIN Positions /\ i.to \in Positions[i.part]
    /\ i.do = "phase" => i.val \in {"tuned", "new"}
    /\ i.do = "timeout" => i.val \in {"long", "short"}
    /\ i.do = "select" => i.of \in Selections

\* Where a control structure leads to, with the ROCs s selected.
Leads(i, s) ==
    CASE i.do = "either" -> {i.of[k] : k \in DOMAIN i.of}
      [] i.do \in {"again", "call", "try"} -> {i.of[1]}
      [] i.do = "each" ->
            (IF i.all \/ i.roc \in s THEN {i.of[i.roc]} ELSE {})
            \cup (IF i.roc = MaxRoc THEN {} ELSE {<<[i EXCEPT !.roc = i.roc + 1]>>})
      [] OTHER -> {}

\* A copy of a DAC is changed by a command that is there for this DAC, and of
\* a selected ROC, unless the command takes the number of a ROC.
Purposeful(c, s, i) ==
    i.do = "dacval" => i.dac \in Purpose[c] /\ (i.roc \in s \/ c \in Naming)

\* calls[c][s] holds all the calls to which the command c can come while the
\* ROCs s are selected, and each of them fits.
Typed(calls, c) ==
    \A s \in Selections : Allowed(c, s) =>
        LET S == calls[c][s] IN
        /\ Procedure[c] \in Seq(S) /\ {EndOfCall, EndOfTry} \subseteq S
        /\ \A i \in S : Fits(i) /\ \A p \in Leads(i, s) : p \in Seq(S)
        \* another selection
        /\ \A i \in S : i.do = "select" => S \subseteq calls[c][i.of] /\ Allowed(c, i.of)

\* Behind another selection the ROCs changed before must still be excused.
PurposeOnly(calls, c) ==
    \A s \in Selections : Allowed(c, s) =>
        \A i \in calls[c][s] :
            /\ Purposeful(c, s, i)
            /\ i.do = "select" => s \subseteq i.of \/ Purpose[c] = {} \/ c \in Naming

AllTyped(calls) == \A c \in Commands : Typed(calls, c)
AllPurposeful(calls) == \A c \in Commands : PurposeOnly(calls, c)
=============================================================================
