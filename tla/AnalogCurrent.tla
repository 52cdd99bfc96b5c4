--------------------------- MODULE AnalogCurrent ---------------------------
(***************************************************************************)
(* setia of cmd.cpp: Vana of a single ROC is moved until its analog        *)
(* current is the target.  The board measures in steps of 0.1 mA; what the *)
(* code compares is kept in units of 0.05 mA, in which the target with its *)
(* quarter mA on top is a whole number.  optia calls it as often as the    *)
(* user wants.                                                             *)
(***************************************************************************)
EXTENDS Integers

CONSTANTS
    Chips,      \* current [0.1 mA] of the chips for each value of Vana
    Gentle,     \* the chips of the kind that the slope was chosen for
    Targets,    \* target [mA], PAR_INT( target, 5, 50 )
    Noise       \* of a measurement [0.1 mA]

ASSUME AnalogAssumption ==
    /\ Chips \subseteq [0 .. 255 -> Nat] /\ Gentle \subseteq Chips
    /\ Targets \subseteq Nat
    /\ Noise \subseteq Int

VARIABLES
    current,    \* of the chip, an element of Chips
    vana,       \* Vana of the chip
    dacval,     \* dacval[0][Vana]
    target,
    val, diff, iter,    \* local variables of setia, diff in 0.05 mA
    ok,         \* what it returned
    pc          \* "prompt", "measure" (the first GetIA), "search"

vars == <<current, vana, dacval, target, val, diff, iter, ok, pc>>

Abs(x) == IF x < 0 THEN -x ELSE x

\* What the code compares, for the chip c and the target t with the noise n.
Difference(c, t, v, n) == 2 * (c[v] + n) - 20 * t - 5

\* The kind of chip that the slope was chosen for, where the measurement is
\* right to a digit: a step of Vana is worth 0.1 to 0.2 mA, and the targets are
\* so far from the ends of the scale that no step of the search reaches them.
ASSUME GentleAssumption ==
    /\ Gentle # {} => Noise \subseteq -1 .. 1
    /\ \A c \in Gentle : \A u, v \in 0 .. 255 :
          u < v => v - u <= c[v] - c[u] /\ c[v] - c[u] <= 2 * (v - u)
    /\ \A c \in Gentle, t \in Targets, v \in 1 .. 254, n \in Noise :
          LET d == Difference(c, t, v, n)
              s == (3 * Abs(d)) \div 10
          IN  /\ d > 10 => v - s > 0
              /\ d < -10 => v + s < 255

Clamp(x) == IF x < 0 THEN 0 ELSE IF x > 255 THEN 255 ELSE x

\* Mutant: tia = target.
MeasuredEven(v) == {2 * (current[v] + n) - 20 * target : n \in Noise}

\* diff = ia - tia, tia = target + 0.5*eps
Measured(v) == {Difference(current, target, v, n) : n \in Noise}

\* fabs( diff ) > eps
Above == Abs(diff) > 10
\* fabs( diff ) < eps
Below == Abs(diff) < 10

Inside == val > 0 /\ val < 255

\* Mutant: twice the slope.
StpSteep == (6 * Abs(diff)) \div 10

\* Mutant: one step of Vana at a time.
StpOne == 1

\* int( fabs( slope*diff ) ), at least 1
Stp == LET s == (3 * Abs(diff)) \div 10 IN IF s = 0 THEN 1 ELSE s

Init ==
    /\ current \in Chips
    /\ vana \in 0 .. 255 /\ dacval = vana
    /\ target \in Targets
    /\ val = vana /\ diff = 0 /\ iter = 0
    /\ ok = TRUE /\ pc = "prompt"

\* The chip is written only where the copy is at an end of the range.
Optia ==
    /\ pc = "prompt"
    /\ target' \in Targets
    /\ IF dacval < 1 \/ dacval > 254
          THEN val' = 111 /\ vana' = val' /\ dacval' = val'
          ELSE val' = dacval /\ UNCHANGED <<vana, dacval>>
    /\ iter' = 0 /\ pc' = "measure"
    /\ UNCHANGED <<current, diff, ok>>

Measure ==
    /\ pc = "measure"
    /\ diff' \in Measured(val)
    /\ pc' = "search"
    /\ UNCHANGED <<current, vana, dacval, target, val, iter, ok>>

\* Mutant: the limit is off by one.
SearchingLonger == Above /\ iter <= 11 /\ Inside

Searching == Above /\ iter < 11 /\ Inside

\* Mutant: the software copy is forgotten.
StepWithoutCopy ==
    /\ pc = "search" /\ Searching
    /\ val' = Clamp(IF diff > 0 THEN val - Stp ELSE val + Stp)
    /\ vana' = val'
    /\ diff' \in Measured(val')
    /\ iter' = iter + 1
    /\ UNCHANGED <<current, dacval, target, ok, pc>>

\* Mutant: nobody counts.
StepUncounted ==
    /\ pc = "search" /\ Searching
    /\ val' = Clamp(IF diff > 0 THEN val - Stp ELSE val + Stp)
    /\ vana' = val' /\ dacval' = val'
    /\ diff' \in Measured(val')
    /\ UNCHANGED <<current, iter, target, ok, pc>>

Step ==
    /\ pc = "search" /\ Searching
    /\ val' = Clamp(IF diff > 0 THEN val - Stp ELSE val + Stp)
    /\ vana' = val' /\ dacval' = val'
    /\ diff' \in Measured(val')
    /\ iter' = iter + 1
    /\ UNCHANGED <<current, target, ok, pc>>

End ==
    /\ pc = "search" /\ ~Searching
    /\ ok' = (Below /\ iter < 11 /\ Inside)
    /\ pc' = "prompt"
    /\ UNCHANGED <<current, vana, dacval, target, val, diff, iter>>

Next == Optia \/ Measure \/ Step \/ End

\* GetIA returns, and the program goes on by itself.
Fairness == WF_vars(Measure \/ Step \/ End)

Spec == Init /\ [][Next]_vars /\ Fairness

-----------------------------------------------------------------------------
\* Vana and its copy stay on the scale, and the search takes at most 11 steps.
TypeOK ==
    /\ current \in Chips
    /\ vana \in 0 .. 255 /\ dacval \in 0 .. 255 /\ val \in 0 .. 255
    /\ target \in Targets
    /\ diff \in Int /\ iter \in 0 .. 11
    /\ ok \in BOOLEAN
    /\ pc \in {"prompt", "measure", "search"}

\* While it waits for the board to measure, the software copy is the value
\* that the chip has, and so it is at the prompt.
Lockstep == dacval = vana /\ (pc # "prompt" => val = vana)

\* Where the search stops by itself, neither at the limit of its steps nor
\* at the end of the range of Vana, it reports success: no difference falls
\* between the condition of the loop and that of the result.
Decided == pc = "prompt" /\ iter < 11 /\ Inside => ok

\* With a chip of the kind that the slope was chosen for each step brings
\* the current nearer to the target ...
Closer ==
    [][pc = "search" /\ pc' = "search" /\ current \in Gentle => Abs(diff') < Abs(diff)]_vars

\* ... and the search succeeds, wherever it starts.
Succeeds == current \in Gentle => ok

\* With any chip the search ends.
Ends == pc # "prompt" ~> pc = "prompt"
=============================================================================
