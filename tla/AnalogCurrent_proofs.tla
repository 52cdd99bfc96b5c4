------------------------ MODULE AnalogCurrent_proofs ------------------------
(***************************************************************************)
(* setia for every chip, target and noise: the software copy is what the   *)
(* chip has, and a search that stops by itself reports success; and with   *)
(* every chip of the kind that its slope was chosen for it succeeds.       *)
(***************************************************************************)
EXTENDS AnalogCurrent, TLAPS

(* In units of 0.05 mA a difference is odd: the board measures in steps of  *)
(* two of them, and the quarter mA on top of the target is five.            *)
OddDiff == pc = "search" => \E k \in Int : diff = 2 * k - 5

SearchInv == TypeOK /\ Lockstep /\ OddDiff /\ Decided

\* What is measured is odd.
LEMMA MeasuredOdd ==
    ASSUME TypeOK, NEW v \in 0 .. 255, NEW d \in Measured(v)
    PROVE  d \in Int /\ \E k \in Int : d = 2 * k - 5
<1>1. PICK n \in Noise : d = 2 * (current[v] + n) - 20 * target - 5
  BY DEF Measured, Difference
<1>2. n \in Int /\ current[v] \in Int /\ target \in Int
  BY AnalogAssumption DEF TypeOK
<1>3. 2 * (current[v] + n) - 20 * target - 5 = 2 * (current[v] + n - 10 * target) - 5
  BY <1>2
<1>4. current[v] + n - 10 * target \in Int
  BY <1>2
<1>. QED  BY <1>1, <1>3, <1>4

\* An odd difference is not the 10 units that neither condition includes.
LEMMA NotEps ==
    ASSUME NEW k \in Int, diff = 2 * k - 5, ~Above
    PROVE  Below
BY DEF Above, Below, Abs

\* The value written to the DAC is one of its values.
LEMMA Clamped == \A x \in Int : Clamp(x) \in 0 .. 255
BY DEF Clamp

LEMMA StpNat == ASSUME diff \in Int PROVE Stp \in Int
<1>1. Abs(diff) \in Nat
  BY DEF Abs
<1>2. \A a \in Nat : (3 * a) \div 10 \in Int
  OBVIOUS
<1>. QED  BY <1>1, <1>2 DEF Stp

THEOREM SearchInit == Init => SearchInv
<1>. SUFFICES ASSUME Init PROVE SearchInv
  OBVIOUS
<1>1. TypeOK
  BY DEF Init, TypeOK
<1>2. Lockstep /\ OddDiff /\ Decided
  BY DEF Init, Lockstep, OddDiff, Decided
<1>. QED  BY <1>1, <1>2 DEF SearchInv

THEOREM SearchNext == SearchInv /\ [Next]_vars => SearchInv'
<1>. SUFFICES ASSUME SearchInv, [Next]_vars PROVE SearchInv'
  OBVIOUS
<1>t. TypeOK /\ Lockstep /\ OddDiff /\ Decided
  BY DEF SearchInv
<1>1. CASE Optia
  <2>1. val' \in 0 .. 255
    BY <1>1, <1>t DEF Optia, TypeOK
  <2>2. TypeOK'
    BY <1>1, <1>t, <2>1 DEF Optia, TypeOK
  <2>3. Lockstep' /\ OddDiff' /\ Decided'
    BY <1>1, <1>t DEF Optia, Lockstep, OddDiff, Decided
  <2>. QED  BY <2>2, <2>3 DEF SearchInv
<1>2. CASE Measure
  <2>0. val \in 0 .. 255
    BY <1>t DEF TypeOK
  <2>1. diff' \in Int /\ \E k \in Int : diff' = 2 * k - 5
    BY <1>2, <1>t, <2>0, MeasuredOdd DEF Measure
  <2>2. TypeOK'
    BY <1>2, <1>t, <2>1 DEF Measure, TypeOK
  <2>3. Lockstep' /\ OddDiff' /\ Decided'
    BY <1>2, <1>t, <2>1 DEF Measure, Lockstep, OddDiff, Decided
  <2>. QED  BY <2>2, <2>3 DEF SearchInv
<1>3. CASE Step
  <2>1. Stp \in Int
    BY <1>t, StpNat DEF TypeOK
  <2>2. val' \in 0 .. 255
    <3>1. val - Stp \in Int /\ val + Stp \in Int
      BY <1>t, <2>1 DEF TypeOK
    <3>. QED  BY <1>3, <3>1, Clamped DEF Step
  <2>3. diff' \in Int /\ \E k \in Int : diff' = 2 * k - 5
    BY <1>3, <1>t, <2>2, MeasuredOdd DEF Step
  <2>4. iter' \in 0 .. 11
    BY <1>3, <1>t DEF Step, Searching, TypeOK
  <2>5. TypeOK'
    BY <1>3, <1>t, <2>2, <2>3, <2>4 DEF Step, TypeOK
  <2>6. Lockstep' /\ OddDiff' /\ Decided'
    BY <1>3, <2>3 DEF Step, Lockstep, OddDiff, Decided
  <2>. QED  BY <2>5, <2>6 DEF SearchInv
<1>4. CASE End
  <2>1. TypeOK'
    BY <1>4, <1>t DEF End, TypeOK
  <2>2. Lockstep' /\ OddDiff'
    BY <1>4, <1>t DEF End, Lockstep, OddDiff
  <2>3. Decided'
    <3>1. PICK k \in Int : diff = 2 * k - 5
      BY <1>4, <1>t DEF End, OddDiff
    <3>2. iter < 11 /\ Inside => Below
      BY <1>4, <3>1, NotEps DEF End, Searching
    <3>3. iter' = iter /\ (Inside' <=> Inside)
      BY <1>4 DEF End, Inside
    <3>4. ok' = (Below /\ iter < 11 /\ Inside)
      BY <1>4 DEF End
    <3>. QED  BY <3>2, <3>3, <3>4 DEF Decided
  <2>. QED  BY <2>1, <2>2, <2>3 DEF SearchInv
<1>5. CASE UNCHANGED vars
  BY <1>5, <1>t DEF vars, SearchInv, TypeOK, Lockstep, OddDiff, Decided, Inside
<1>. QED  BY <1>1, <1>2, <1>3, <1>4, <1>5 DEF Next

THEOREM SearchCorrect == Spec => []SearchInv
<1>. QED  BY SearchInit, SearchNext, PTL DEF Spec

\* The values of Vana stay in the range of the DAC and the number of steps
\* below its limit, for every chip.
THEOREM AnalogTypeCorrect == Spec => []TypeOK
<1>1. SearchInv => TypeOK
  BY DEF SearchInv
<1>. QED  BY <1>1, SearchCorrect, PTL

\* While setia waits for a measurement and at the prompt the software copy of
\* Vana is what the chip has.
THEOREM CopyInLockstep == Spec => []Lockstep
<1>1. SearchInv => Lockstep
  BY DEF SearchInv
<1>. QED  BY <1>1, SearchCorrect, PTL

\* A search that stops neither at its limit nor at the end of the range
\* reports success, whatever the chip and the noise.
THEOREM SearchDecided == Spec => []Decided
<1>1. SearchInv => Decided
  BY DEF SearchInv
<1>. QED  BY <1>1, SearchCorrect, PTL

-----------------------------------------------------------------------------
(* The chips of the kind that the slope was chosen for.                      *)

\* How far from the target the current can be after iter steps that did not
\* reach it: six tenths of the difference and more are corrected by a step,
\* but for 0.29 mA from the rounding of the step and the noise.
Reach == [k \in 0 .. 7 |->
    CASE k = 0 -> 846 [] k = 1 -> 344 [] k = 2 -> 143 [] k = 3 -> 63
      [] k = 4 -> 31 [] k = 5 -> 18 [] k = 6 -> 13 [] k = 7 -> 11]

Near == Above => iter \in 0 .. 7 /\ Abs(diff) <= Reach[iter]

GentleInv ==
    current \in Gentle =>
        /\ ok
        /\ pc # "prompt" => Inside
        /\ pc = "measure" => iter = 0
        /\ pc = "search" =>
              /\ \E n \in Noise : diff = Difference(current, target, val, n)
              /\ iter \in 0 .. 8 /\ Near

\* The arithmetic of one step: the difference d, 3/10 of it as the step s, the
\* change r of the current, and the noise m of both measurements.
LEMMA Contraction ==
    ASSUME NEW d \in Int, NEW e \in Int, NEW s \in Int, NEW r \in Int, NEW m \in Int,
           10 * s <= 3 * Abs(d), 3 * Abs(d) < 10 * s + 10, Abs(d) > 10,
           s <= r, r <= 2 * s, -4 <= m, m <= 4,
           e = (IF d > 0 THEN d - 2 * r ELSE d + 2 * r) + m
    PROVE  10 * Abs(e) <= 4 * Abs(d) + 58 /\ Abs(e) < Abs(d)
<1>1. s >= 3
  BY DEF Abs
<1>2. CASE d > 0
  BY <1>1, <1>2 DEF Abs
<1>3. CASE ~(d > 0)
  BY <1>1, <1>3 DEF Abs
<1>. QED  BY <1>2, <1>3

\* What a step does with a chip of this kind.
LEMMA GentleStep ==
    ASSUME SearchInv, current \in Gentle, Inside, Step,
           NEW n \in Noise, diff = Difference(current, target, val, n)
    PROVE  /\ Inside'
           /\ \E k \in Noise : diff' = Difference(current, target, val', k)
           /\ 10 * Abs(diff') <= 4 * Abs(diff) + 58 /\ Abs(diff') < Abs(diff)
<1> DEFINE s == (3 * Abs(diff)) \div 10
<1>1. /\ val \in 1 .. 254 /\ diff \in Int /\ target \in Targets /\ target \in Int
      /\ current \in [0 .. 255 -> Nat]
  BY AnalogAssumption DEF SearchInv, TypeOK, Inside
<1>2. Abs(diff) > 10 /\ Abs(diff) \in Nat
  BY <1>1 DEF Step, Searching, Above, Abs
<1>3. s \in Int /\ 10 * s <= 3 * Abs(diff) /\ 3 * Abs(diff) < 10 * s + 10
  BY <1>2
<1>4. s >= 3
  BY <1>2, <1>3
<1>5. Stp = s
  BY <1>4 DEF Stp
<1>6. (diff > 10 => val - s > 0) /\ (diff < -10 => val + s < 255)
  BY <1>1, GentleAssumption
<1> HIDE DEF s
<1>7. val' = (IF diff > 0 THEN val - s ELSE val + s) /\ val' \in 1 .. 254
  <2>1. CASE diff > 0
    <3>1. diff > 10
      BY <1>1, <1>2, <2>1 DEF Abs
    <3>2. val - s \in 1 .. 254
      BY <1>1, <1>3, <1>4, <1>6, <3>1
    <3>3. Clamp(val - s) = val - s
      BY <3>2 DEF Clamp
    <3>. QED  BY <1>5, <2>1, <3>2, <3>3 DEF Step
  <2>2. CASE ~(diff > 0)
    <3>1. diff < -10
      BY <1>1, <1>2, <2>2 DEF Abs
    <3>2. val + s \in 1 .. 254
      BY <1>1, <1>3, <1>4, <1>6, <3>1
    <3>3. Clamp(val + s) = val + s
      BY <3>2 DEF Clamp
    <3>. QED  BY <1>5, <2>2, <3>2, <3>3 DEF Step
  <2>. QED  BY <2>1, <2>2
<1>8. PICK k \in Noise : diff' = Difference(current, target, val', k)
  BY DEF Step, Measured
<1>9. n \in -1 .. 1 /\ k \in -1 .. 1
  BY GentleAssumption
<1>10. PICK v \in 1 .. 254 : v = val'
  BY <1>7
<1>11. PICK e \in Int : e = diff'
  <2>1. PICK x \in Int : x = current[v]
    BY <1>1
  <2>2. diff' = 2 * (x + k) - 20 * target - 5
    BY <1>8, <1>10, <2>1 DEF Difference
  <2>3. 2 * (x + k) - 20 * target - 5 \in Int
    BY <1>1, <1>9
  <2>. QED  BY <2>2, <2>3
<1>12. e = 2 * (current[v] + k) - 20 * target - 5 /\ diff = 2 * (current[val] + n) - 20 * target - 5
  BY <1>8, <1>10, <1>11 DEF Difference
<1>13. current[v] \in Int /\ current[val] \in Int
  BY <1>1
<1> DEFINE r == IF diff > 0 THEN current[val] - current[v] ELSE current[v] - current[val]
           m == 2 * (k - n)
<1>14. r \in Int /\ s <= r /\ r <= 2 * s
  <2>1. \A a, b \in 0 .. 255 : a < b =>
            b - a <= current[b] - current[a] /\ current[b] - current[a] <= 2 * (b - a)
    BY GentleAssumption
  <2>2. CASE diff > 0
    <3>1. v < val /\ val - v = s /\ v \in 0 .. 255 /\ val \in 0 .. 255
      BY <1>1, <1>3, <1>4, <1>7, <1>10, <2>2
    <3>2. val - v <= current[val] - current[v] /\ current[val] - current[v] <= 2 * (val - v)
      BY <2>1, <3>1
    <3>3. r = current[val] - current[v]
      BY <2>2
    <3> HIDE DEF r
    <3>. QED  BY <1>13, <3>1, <3>2, <3>3
  <2>3. CASE ~(diff > 0)
    <3>1. val < v /\ v - val = s /\ v \in 0 .. 255 /\ val \in 0 .. 255
      BY <1>1, <1>3, <1>4, <1>7, <1>10, <2>3
    <3>2. v - val <= current[v] - current[val] /\ current[v] - current[val] <= 2 * (v - val)
      BY <2>1, <3>1
    <3>3. r = current[v] - current[val]
      BY <2>3
    <3> HIDE DEF r
    <3>. QED  BY <1>13, <3>1, <3>2, <3>3
  <2>. QED  BY <2>2, <2>3
<1>15. m \in Int /\ -4 <= m /\ m <= 4
  BY <1>9
<1>16. e = (IF diff > 0 THEN diff - 2 * r ELSE diff + 2 * r) + m
  <2>1. PICK x \in Int, y \in Int : x = current[v] /\ y = current[val]
    BY <1>13
  <2>2. e = 2 * (x + k) - 20 * target - 5 /\ diff = 2 * (y + n) - 20 * target - 5
    BY <1>12, <2>1
  <2>3. e = diff + 2 * (x - y) + 2 * (k - n)
    BY <1>1, <1>9, <2>2
  <2>4. r = IF diff > 0 THEN y - x ELSE x - y
    BY <2>1
  <2> HIDE DEF r
  <2>. QED  BY <1>1, <1>9, <2>3, <2>4
<1> HIDE DEF r, m
<1>17. 10 * Abs(e) <= 4 * Abs(diff) + 58 /\ Abs(e) < Abs(diff)
  BY <1>1, <1>2, <1>3, <1>14, <1>15, <1>16, Contraction
<1>18. Inside'
  BY <1>7 DEF Inside
<1>. QED  BY <1>8, <1>11, <1>17, <1>18

\* One step nearer.
LEMMA Nearer ==
    ASSUME NEW a \in Nat, NEW b \in Nat, NEW i \in 0 .. 7,
           a <= Reach[i], 10 * b <= 4 * a + 58, b > 10
    PROVE  i + 1 \in 0 .. 7 /\ b <= Reach[i + 1]
<1>1. i \in {0, 1, 2, 3, 4, 5, 6, 7}
  OBVIOUS
<1>2. /\ Reach[0] = 846 /\ Reach[1] = 344 /\ Reach[2] = 143 /\ Reach[3] = 63
      /\ Reach[4] = 31 /\ Reach[5] = 18 /\ Reach[6] = 13 /\ Reach[7] = 11
  BY DEF Reach
<1>. QED  BY <1>1, <1>2

LEMMA GentleKept == ASSUME SearchInv, GentleInv, [Next]_vars PROVE GentleInv'
<1>t. TypeOK
  BY DEF SearchInv
<1>. SUFFICES ASSUME current' \in Gentle
              PROVE  /\ ok'
                     /\ (pc # "prompt" => Inside)' /\ (pc = "measure" => iter = 0)'
                     /\ (pc = "search" =>
                           /\ \E n \in Noise : diff = Difference(current, target, val, n)
                           /\ iter \in 0 .. 8 /\ Near)'
  BY DEF GentleInv
<1>g. current' = current
  BY DEF Next, Optia, Measure, Step, End, vars
<1>0. /\ current \in Gentle /\ ok
      /\ pc # "prompt" => Inside
      /\ pc = "measure" => iter = 0
      /\ pc = "search" =>
            /\ \E n \in Noise : diff = Difference(current, target, val, n)
            /\ iter \in 0 .. 8 /\ Near
  BY <1>g DEF GentleInv
<1>1. CASE Optia
  <2>1. val' > 0 /\ val' < 255
    BY <1>1, <1>t DEF Optia, TypeOK
  <2>. QED  BY <1>0, <1>1, <2>1 DEF Optia, Inside
<1>2. CASE Measure
  <2>1. Inside /\ val' = val /\ target' = target /\ iter' = iter /\ ok' = ok
    BY <1>0, <1>2 DEF Measure
  <2>2. PICK n \in Noise : diff' = Difference(current, target, val, n)
    BY <1>2 DEF Measure, Measured
  <2>3. val \in 1 .. 254 /\ target \in Targets /\ target \in Int /\ n \in -1 .. 1
        /\ current \in [0 .. 255 -> Nat]
    <3>1. current \in [0 .. 255 -> Nat] /\ target \in Targets /\ target \in Int
      BY <1>t, AnalogAssumption DEF TypeOK
    <3>2. val \in 1 .. 254
      BY <1>t, <2>1 DEF TypeOK, Inside
    <3>3. n \in -1 .. 1
      BY <1>0, GentleAssumption
    <3>. QED  BY <3>1, <3>2, <3>3
  <2>4. PICK d \in Int : d = diff'
    BY <2>2, <2>3 DEF Difference
  <2>5. Abs(d) > 10 => Abs(d) <= 846
    <3>1. d = Difference(current, target, val, n)
      BY <2>2, <2>4
    <3>2. LET s == (3 * Abs(d)) \div 10
          IN  (d > 10 => val - s > 0) /\ (d < -10 => val + s < 255)
      BY <1>0, <2>3, <3>1, GentleAssumption
    <3>3. PICK a \in Nat : a = Abs(d)
      BY DEF Abs
    <3>4. PICK s \in Int : s = (3 * a) \div 10
      OBVIOUS
    <3>5. 3 * a < 10 * s + 10
      BY <3>4
    <3>6. a > 10 => s < 254
      BY <2>3, <3>2, <3>3, <3>4 DEF Abs
    <3>. QED  BY <3>3, <3>5, <3>6
  <2>6. iter = 0
    BY <1>0, <1>2 DEF Measure
  <2>7. Reach[0] = 846
    BY DEF Reach
  <2>8. Near'
    BY <2>1, <2>4, <2>5, <2>6, <2>7 DEF Near, Above
  <2>. QED  BY <1>0, <1>g, <2>1, <2>2, <2>6, <2>8 DEF Inside
<1>3. CASE Step
  <2>1. pc = "search" /\ Above /\ Near /\ Inside /\ iter' = iter + 1
        /\ target' = target /\ ok' = ok /\ pc' = pc
    BY <1>0, <1>3 DEF Step, Searching
  <2>2. PICK n \in Noise : diff = Difference(current, target, val, n)
    BY <1>0, <2>1
  <2>3. /\ Inside'
        /\ \E k \in Noise : diff' = Difference(current, target, val', k)
        /\ 10 * Abs(diff') <= 4 * Abs(diff) + 58
    BY <1>0, <1>3, <2>1, <2>2, GentleStep
  <2>4. iter \in 0 .. 7 /\ Abs(diff) <= Reach[iter]
    BY <2>1 DEF Near
  <2>5. iter' \in 0 .. 8
    BY <2>1, <2>4
  <2>6. diff \in Int /\ diff' \in Int
    <3>1. TypeOK'
      BY SearchNext DEF SearchInv
    <3>. QED  BY <1>t, <3>1 DEF TypeOK
  <2>7. Abs(diff) \in Nat /\ Abs(diff') \in Nat
    <3>1. \A x \in Int : Abs(x) \in Nat
      BY DEF Abs
    <3>. QED  BY <2>6, <3>1
  <2>8. Abs(diff') > 10 => iter + 1 \in 0 .. 7 /\ Abs(diff') <= Reach[iter + 1]
    BY <2>3, <2>4, <2>7, Nearer
  <2>9. Near'
    BY <2>1, <2>8 DEF Near, Above
  <2>10. \E k \in Noise : diff' = Difference(current', target', val', k)
    BY <1>g, <2>1, <2>3
  <2>. QED  BY <1>0, <2>1, <2>3, <2>5, <2>9, <2>10
<1>4. CASE End
  <2>1. pc = "search" /\ ~Searching /\ Inside /\ Near /\ iter \in 0 .. 8
    BY <1>0, <1>4 DEF End
  <2>2. ~Above /\ iter < 11
    BY <2>1 DEF Searching
  <2>3. PICK k \in Int : diff = 2 * k - 5
    BY <2>1 DEF SearchInv, OddDiff
  <2>4. Below
    BY <2>2, <2>3, NotEps
  <2>. QED  BY <1>4, <2>1, <2>2, <2>4 DEF End
<1>5. CASE UNCHANGED vars
  BY <1>0, <1>5 DEF vars, Inside, Near, Above, Difference
<1>. QED  BY <1>1, <1>2, <1>3, <1>4, <1>5 DEF Next

THEOREM GentleCorrect == Spec => [](SearchInv /\ GentleInv)
<1>1. Init => GentleInv
  BY DEF Init, GentleInv
<1>2. SearchInv /\ GentleInv /\ [Next]_vars => GentleInv'
  BY GentleKept
<1>. QED  BY <1>1, <1>2, SearchInit, SearchNext, PTL DEF Spec

\* For every chip whose current rises by 0.1 to 0.2 mA for a step of Vana, and
\* a measurement that is right to 0.1 mA, the search succeeds wherever it
\* starts, as often as it is called: after eight of its eleven steps at most.
THEOREM SearchSucceeds == Spec => []Succeeds
<1>1. GentleInv => Succeeds
  BY DEF GentleInv, Succeeds
<1>. QED  BY <1>1, GentleCorrect, PTL

\* And each step brings the current nearer to the target.
THEOREM StepsCloser == Spec => Closer
<1> DEFINE Nears == pc = "search" /\ pc' = "search" /\ current \in Gentle => Abs(diff') < Abs(diff)
<1>1. SearchInv /\ GentleInv /\ [Next]_vars => [Nears]_vars
  <2> SUFFICES ASSUME SearchInv, GentleInv, Next, pc = "search", pc' = "search", current \in Gentle
               PROVE  Abs(diff') < Abs(diff)
    OBVIOUS
  <2>1. Step
    BY DEF Next, Optia, Measure, End
  <2>2. Inside /\ \E n \in Noise : diff = Difference(current, target, val, n)
    BY DEF GentleInv
  <2>. QED  BY <2>1, <2>2, GentleStep
<1>2. Spec => [][Nears]_vars
  BY <1>1, GentleCorrect, PTL DEF Spec
<1>. QED  BY <1>2 DEF Closer
=============================================================================
