-------------------------- MODULE Procedures_proofs --------------------------
(***************************************************************************)
(* Theorems about Procedures, for every table of procedures whose calls    *)
(* fit (Programs), whatever their number, the number of ROCs, and however  *)
(* the procedures loop, return, throw and are typed again.                 *)
(***************************************************************************)
EXTENDS Commands, SequenceTheorems, WellFoundedInduction, TLAPS

\* The calls to which the command can come while these ROCs are selected.
Here(calls) == calls[command][roclist]

\* What is left to do are calls of the command.
InProgress(calls) ==
    todo # <<>> =>
        /\ command \in Commands /\ Allowed(command, roclist)
        /\ todo \in Seq(Here(calls))

\* The copies of DACs that differ from those before the command was typed.
Excused ==
    \A r \in Rocs, d \in Dacs : dacval[r][d] # before.dacval[r][d] =>
        /\ command \in Commands /\ d \in Purpose[command]
        /\ r \in roclist \/ command \in Naming

-----------------------------------------------------------------------------
\* Sequences.

Less == {e \in Nat \X Nat : e[1] < e[2]}

LEMMA LeastIn ==
    \A e \in SUBSET Nat : e # {} => (CHOOSE k \in e : \A j \in e : k <= j) \in e
<1> SUFFICES ASSUME NEW e \in SUBSET Nat, e # {}
             PROVE  \E k \in e : \A j \in e : k <= j
  OBVIOUS
<1>1. OpToRel(<, Nat) = Less
  BY DEF OpToRel, Less
<1>2. IsWellFoundedOn(Less, Nat)
  BY <1>1, NatLessThanWellFounded
<1>3. PICK k \in e : \A j \in e : ~(<<j, k>> \in Less)
  BY <1>2, WFMin
<1>4. \A j \in e : j \in Nat /\ k \in Nat /\ ~(j < k)
  BY <1>3 DEF Less
<1>5. \A j \in e : k <= j
  BY <1>4
<1> QED BY <1>5

\* The end of a program is made of the same calls.
LEMMA EndOfProgram ==
    ASSUME NEW S, NEW p \in Seq(S), NEW k \in Nat PROVE SubSeq(p, k + 1, Len(p)) \in Seq(S)
<1>1. Len(p) \in Nat /\ \A i \in 1 .. Len(p) : p[i] \in S
  BY LenProperties, ElementOfSeq
<1>2. \A i \in k + 1 .. Len(p) : i \in 1 .. Len(p)
  BY <1>1
<1>3. \A i \in k + 1 .. Len(p) : p[i] \in S
  BY <1>1, <1>2
<1>4. k + 1 \in Int /\ Len(p) \in Int
  BY <1>1
<1> QED BY <1>3, <1>4, SubSeqProperties

LEMMA BehindType == \A S : \A p \in Seq(S) : Behind(p) \in Seq(S)
<1> SUFFICES ASSUME NEW S, NEW p \in Seq(S) PROVE Behind(p) \in Seq(S)
  OBVIOUS
<1> DEFINE ends == {k \in 1 .. Len(p) : p[k] = EndOfCall}
           least == CHOOSE k \in ends : \A j \in ends : k <= j
<1>1. CASE ends = {}
  BY <1>1, EmptySeq DEF Behind
<1>2. CASE ends # {}
  <2>1. ends \in SUBSET Nat
    BY LenProperties
  <2>2. least \in ends
    BY <1>2, <2>1, LeastIn
  <2>3. least \in Nat
    BY <2>1, <2>2
  <2>4. Behind(p) = SubSeq(p, least + 1, Len(p))
    BY <1>2 DEF Behind
  <2> HIDE DEF least
  <2> QED BY <2>3, <2>4, EndOfProgram
<1> QED BY <1>1, <1>2

LEMMA CaughtType ==
    \A S : \A p \in Seq(S) : (\E k \in 1 .. Len(p) : p[k] = EndOfTry) => Caught(p) \in Seq(S)
<1> SUFFICES ASSUME NEW S, NEW p \in Seq(S), \E k \in 1 .. Len(p) : p[k] = EndOfTry
             PROVE  Caught(p) \in Seq(S)
  OBVIOUS
<1> DEFINE ends == {k \in 1 .. Len(p) : p[k] = EndOfTry}
           least == CHOOSE k \in ends : \A j \in ends : k <= j
<1>1. ends \in SUBSET Nat /\ ends # {}
  BY LenProperties
<1>2. least \in ends
  BY <1>1, LeastIn
<1>3. least \in Nat
  BY <1>1, <1>2
<1>4. Caught(p) = SubSeq(p, least + 1, Len(p))
  BY DEF Caught
<1> HIDE DEF least
<1> QED BY <1>3, <1>4, EndOfProgram

LEMMA Alone == \A S : \A x \in S : <<x>> \in Seq(S) /\ <<x>> # <<>>
  BY EmptySeq, AppendProperties

-----------------------------------------------------------------------------
\* Boards.

LEMMA NowType == ASSUME TypeOK PROVE Now \in Board
<1>1. line \in Seq(Board) /\ line # <<>>
  BY DEF TypeOK
<1>2. Len(line) \in Nat \ {0}
  BY <1>1, EmptySeq
<1>3. Len(line) \in 1 .. Len(line)
  BY <1>2
<1> QED BY <1>1, <1>3, ElementOfSeq DEF Now

LEMMA ValueType == ASSUME TypeOK PROVE \A v \in Expressions : Value(v) \in Values
<1> SUFFICES ASSUME NEW v \in Expressions PROVE Value(v) \in Values
  OBVIOUS
<1>1. dacval \in [Rocs -> [Dacs -> Values]] /\ kept \in [Locals -> Values]
  BY DEF TypeOK
<1>2. CASE v \in Values
  <2>1. v[1] # "copy" /\ v[1] # "kept"
    BY <1>2 DEF Values, Set, Scan, New, Lost
  <2> QED BY <1>2, <2>1 DEF Value
<1>3. ASSUME NEW r \in Rocs, NEW d \in Dacs, v = Copy(r, d) PROVE Value(v) \in Values
  <2>1. v[1] = "copy" /\ v[2] = r /\ v[3] = d
    BY <1>3 DEF Copy
  <2>2. Value(v) = dacval[r][d]
    BY <2>1 DEF Value
  <2> QED BY <1>1, <2>2
<1>4. ASSUME NEW x \in Locals, v = Kept(x) PROVE Value(v) \in Values
  <2>1. v[1] = "kept" /\ v[2] = x
    BY <1>4 DEF Kept
  <2>2. Value(v) = kept[x]
    BY <2>1 DEF Value
  <2> QED BY <1>1, <2>2
<1> QED BY <1>2, <1>3, <1>4 DEF Expressions

LEMMA Lowest == ASSUME TypeOK PROVE (CHOOSE r \in roclist : \A s \in roclist : r <= s) \in Rocs
<1>1. roclist \in SUBSET Nat /\ roclist # {} /\ roclist \subseteq Rocs
  BY DEF TypeOK, Rocs
<1> QED BY <1>1, LeastIn

LEMMA SupplyType ==
    \A b \in Board : \A part \in DOMAIN Positions : \A to \in Positions[part] \ {"phase"} :
        Supply(b, part, to) \in Board
<1> SUFFICES ASSUME NEW b \in Board, NEW part \in DOMAIN Positions,
                    NEW to \in Positions[part] \ {"phase"}
             PROVE  Supply(b, part, to) \in Board
  OBVIOUS
<1>1. part \in {"loop", "trigger", "delay", "lv", "hv"}
  BY DEF Positions
<1>2. CASE part = "lv" /\ to = "off"
  <2>1. [r \in Rocs |-> {}] \in [Rocs -> SUBSET {"column", "pixel", "cal"}]
    OBVIOUS
  <2>2. [r \in Rocs |-> [d \in Dacs |-> Lost]] \in [Rocs -> [Dacs -> Values]]
    BY DEF Values
  <2> QED BY <1>2, <2>1, <2>2 DEF Supply, Board
<1>3. CASE part = "lv" /\ to # "off"
  BY <1>3 DEF Supply, Board, Positions
<1>4. CASE part = "loop"
  BY <1>4 DEF Supply, Board, Positions
<1>5. CASE part = "trigger"
  BY <1>5 DEF Supply, Board, Positions
<1>6. CASE part = "delay"
  BY <1>6 DEF Supply, Board, Positions
<1>7. CASE part = "hv"
  BY <1>7 DEF Supply, Board, Positions
<1> QED BY <1>1, <1>2, <1>3, <1>4, <1>5, <1>6, <1>7

\* A request leaves a board behind.
LEMMA EffectType ==
    ASSUME TypeOK, NEW b \in Board, NEW i, Fits(i), i.do \in Voids
    PROVE  Effect(b, i) \in Board
<1>0. phase \in {"tuned", "new"}
  BY DEF TypeOK
<1>1. CASE i.do = "roc_I2cAddr"
  BY <1>1 DEF Effect, Fits, Board
<1>2. CASE i.do = "first"
  <2> DEFINE a == CHOOSE r \in roclist : \A s \in roclist : r <= s
  <2>1. a \in Rocs
    BY Lowest
  <2>2. Effect(b, i) = [b EXCEPT !.addr = a]
    BY <1>2 DEF Effect
  <2> HIDE DEF a
  <2> QED BY <2>1, <2>2 DEF Board
<1>3. CASE i.do = "SetDAC"
  <2>1. Value(i.val) \in Values /\ i.dac \in Dacs
    BY <1>3, ValueType DEF Fits
  <2>2. b.dac \in [Rocs -> [Dacs -> Values]] /\ b.addr \in Rocs /\ b.lv \in {"on", "off"}
    BY DEF Board
  <2>3. [b.dac EXCEPT ![b.addr][i.dac] = Value(i.val)] \in [Rocs -> [Dacs -> Values]]
    BY <2>1, <2>2
  <2>4. Effect(b, i) = b \/ Effect(b, i) = [b EXCEPT !.dac[b.addr][i.dac] = Value(i.val)]
    BY <1>3, <2>2 DEF Effect
  <2> QED BY <2>3, <2>4 DEF Board
<1>4. CASE i.do = "pixels"
  <2>1. i.adds \subseteq {"column", "pixel", "cal"}
    BY <1>4 DEF Fits
  <2>2. b.on \in [Rocs -> SUBSET {"column", "pixel", "cal"}] /\ b.addr \in Rocs
        /\ b.lv \in {"on", "off"}
    BY DEF Board
  <2>3. [b.on EXCEPT ![b.addr] = (@ \cup i.adds) \ i.drops]
            \in [Rocs -> SUBSET {"column", "pixel", "cal"}]
    BY <2>1, <2>2
  <2>4. Effect(b, i) = b \/ Effect(b, i) = [b EXCEPT !.on[b.addr] = (@ \cup i.adds) \ i.drops]
    BY <1>4, <2>2 DEF Effect
  <2> QED BY <2>3, <2>4 DEF Board
<1>5. CASE i.do = "Daq_Start"
  BY <1>5 DEF Effect, Fits, Board
<1>6. CASE i.do = "Daq_Stop"
  BY <1>6 DEF Effect, Board
<1>7. CASE i.do = "Daq_Close"
  BY <1>7 DEF Effect, Board
<1>8. CASE i.do = "switch"
  <2> DEFINE to == IF i.to = "phase" THEN phase ELSE i.to
  <2>1. i.part \in DOMAIN Positions /\ i.to \in Positions[i.part]
    BY <1>8 DEF Fits
  <2>2. to \in Positions[i.part] \ {"phase"}
    BY <1>0, <2>1 DEF Positions
  <2>3. Effect(b, i) = Supply(b, i.part, to)
    BY <1>8 DEF Effect
  <2> HIDE DEF to
  <2> QED BY <2>1, <2>2, <2>3, SupplyType
<1>9. CASE i.do = "send"
  BY <1>9 DEF Effect
<1> QED BY <1>1, <1>2, <1>3, <1>4, <1>5, <1>6, <1>7, <1>8, <1>9 DEF Voids

LEMMA ScannedType ==
    ASSUME NEW b \in Board, NEW rs, NEW ds PROVE Scanned(b, rs, ds) \in Board
<1> DEFINE x == [r \in Rocs |-> [d \in Dacs |->
         IF r \in rs /\ d \in ds /\ b.lv = "on" THEN Scan ELSE b.dac[r][d]]]
<1>1. b.dac \in [Rocs -> [Dacs -> Values]] /\ Scan \in Values
  BY DEF Board, Values
<1>2. x \in [Rocs -> [Dacs -> Values]]
  BY <1>1
<1>3. Scanned(b, rs, ds) = [b EXCEPT !.dac = x]
  BY DEF Scanned
<1> HIDE DEF x
<1> QED BY <1>2, <1>3 DEF Board

-----------------------------------------------------------------------------
\* The next call.

\* It is one of the calls of the command, it fits, and so does what follows.
LEMMA CallFacts ==
    ASSUME NEW calls, AllTyped(calls), TypeOK, InProgress(calls), todo # <<>>
    PROVE  /\ command \in Commands /\ Allowed(command, roclist)
           /\ Call1 \in Here(calls) /\ Fits(Call1)
           /\ Rest \in Seq(Here(calls)) /\ todo \in Seq(Here(calls))
           /\ EndOfCall \in Here(calls) /\ EndOfTry \in Here(calls)
           /\ \A p \in Leads(Call1, roclist) : p \in Seq(Here(calls))
           /\ Call1.do = "select" =>
                 Here(calls) \subseteq calls[command][Call1.of] /\ Allowed(command, Call1.of)
<1>1. command \in Commands /\ Allowed(command, roclist) /\ todo \in Seq(Here(calls))
  BY DEF InProgress
<1>2. roclist \in Selections
  BY DEF TypeOK, Selections
<1>3. Head(todo) \in Here(calls) /\ Rest \in Seq(Here(calls))
  BY <1>1, HeadTailProperties DEF Rest
<1>4. Len(todo) \in Nat \ {0}
  BY <1>1, EmptySeq
<1>5. 1 \in 1 .. Len(todo)
  BY <1>4
<1>6. Call1 \in Here(calls)
  BY <1>1, <1>5, ElementOfSeq DEF Call1
<1>7. Typed(calls, command)
  BY <1>1 DEF AllTyped
<1>8. /\ {EndOfCall, EndOfTry} \subseteq Here(calls)
      /\ \A i \in Here(calls) : Fits(i) /\ \A p \in Leads(i, roclist) : p \in Seq(Here(calls))
      /\ \A i \in Here(calls) : i.do = "select" =>
            Here(calls) \subseteq calls[command][i.of] /\ Allowed(command, i.of)
  BY <1>1, <1>2, <1>7 DEF Typed, Here
<1> QED BY <1>1, <1>3, <1>6, <1>8

\* A step that changes neither the command nor the selection and leaves calls
\* of the command behind.
LEMMA StillInProgress ==
    ASSUME NEW calls, AllTyped(calls), TypeOK, InProgress(calls), todo # <<>>,
           todo' \in Seq(Here(calls)), UNCHANGED <<command, roclist>>
    PROVE  InProgress(calls)'
<1>1. command \in Commands /\ Allowed(command, roclist)
  BY CallFacts
<1>2. Here(calls)' = Here(calls)
  BY DEF Here
<1>3. command' = command /\ roclist' = roclist
  OBVIOUS
<1> QED BY <1>1, <1>2, <1>3 DEF InProgress, Allowed, Commands

-----------------------------------------------------------------------------
\* A step of the procedure keeps the types, and the calls of the command.

Kind(calls) == TypeOK /\ InProgress(calls)

\* The line after a request, and after a barrier.
LEMMA LineType ==
    \A b \in Board : /\ <<b>> \in Seq(Board) /\ <<b>> # <<>>
                     /\ \A l \in Seq(Board) : Append(l, b) \in Seq(Board) /\ Append(l, b) # <<>>
  BY Alone, AppendProperties

LEMMA BarrierKept ==
    ASSUME NEW calls, AllTyped(calls), Kind(calls), todo # <<>>,
           NEW b \in Board, Barrier(b),
           read' \in SUBSET Channels, live' \in BOOLEAN
    PROVE  Kind(calls)'
<1>1. TypeOK /\ InProgress(calls)
  BY DEF Kind
<1>2. Rest \in Seq(Here(calls))
  BY <1>1, CallFacts
<1>3. /\ line' = <<b>> /\ unsent' = FALSE /\ todo' = Rest
      /\ UNCHANGED <<dacval, phase, timeout, roclist, kept, command, outcome, started, typed, throws>>
  BY DEF Barrier, host
<1>4. InProgress(calls)'
  BY <1>1, <1>2, <1>3, StillInProgress
<1>5. line' \in Seq(Board) /\ line' # <<>>
  BY <1>3, LineType
<1>6. TypeOK'
  BY <1>1, <1>3, <1>5 DEF TypeOK
<1> QED BY <1>4, <1>6 DEF Kind

LEMMA RequestKept ==
    ASSUME NEW calls, AllTyped(calls), Kind(calls), Request PROVE Kind(calls)'
<1>1. TypeOK /\ InProgress(calls) /\ todo # <<>> /\ Call1.do \in Voids
  BY DEF Kind, Request
<1>2. Rest \in Seq(Here(calls)) /\ Fits(Call1)
  BY <1>1, CallFacts
<1>3. /\ unsent' = TRUE /\ todo' = Rest
      /\ started' = IF Call1.do = "Daq_Start" THEN started \cup {Call1.ch} ELSE started
      /\ line' = line \/ line' = Append(line, Effect(Now, Call1))
      /\ UNCHANGED <<dacval, phase, timeout, roclist, kept, command, outcome, read, live, typed, throws>>
  BY DEF Request, host
<1>4. InProgress(calls)'
  BY <1>1, <1>2, <1>3, StillInProgress
<1>5. Effect(Now, Call1) \in Board
  BY <1>1, <1>2, NowType, EffectType
<1>6. line' \in Seq(Board) /\ line' # <<>>
  <2>1. line \in Seq(Board) /\ line # <<>>
    BY <1>1 DEF TypeOK
  <2> QED BY <1>3, <1>5, <2>1, LineType
<1>7. started' \in SUBSET Channels
  BY <1>1, <1>2, <1>3 DEF TypeOK, Fits
<1>8. TypeOK'
  BY <1>1, <1>3, <1>6, <1>7 DEF TypeOK
<1> QED BY <1>4, <1>8 DEF Kind

LEMMA WaitKept ==
    ASSUME NEW calls, AllTyped(calls), Kind(calls),
           FlushAll \/ LoadTrimTable \/ OpenMemory \/ ReadChannel \/ LoopOne \/ LoopSelected
    PROVE  Kind(calls)'
<1>1. TypeOK /\ InProgress(calls) /\ todo # <<>>
  BY DEF Kind, Doing, FlushAll, LoadTrimTable, OpenMemory, ReadChannel, LoopOne, LoopSelected
<1>2. Fits(Call1) /\ Now \in Board
  BY <1>1, CallFacts, NowType
<1>3. read \in SUBSET Channels /\ live \in BOOLEAN /\ roclist \subseteq Rocs
  BY <1>1 DEF TypeOK
<1>4. CASE FlushAll
  BY <1>1, <1>2, <1>3, <1>4, BarrierKept DEF FlushAll
<1>5. CASE LoadTrimTable
  <2> DEFINE b == [Now EXCEPT !.trims[Call1.roc] = Call1.same]
  <2>1. Call1.roc \in Rocs /\ Call1.same \in BOOLEAN
    BY <1>2, <1>5 DEF LoadTrimTable, Doing, Fits
  <2>2. b \in Board
    BY <1>2, <2>1 DEF Board
  <2>3. Barrier(b) /\ read' = read /\ live' = live
    BY <1>5 DEF LoadTrimTable
  <2> HIDE DEF b
  <2> QED BY <1>1, <1>3, <2>2, <2>3, BarrierKept
<1>6. CASE OpenMemory
  <2> DEFINE b == [Now EXCEPT !.open = @ \cup {Call1.ch}]
  <2>1. Call1.ch \in Channels
    BY <1>2, <1>6 DEF OpenMemory, Doing, Fits
  <2>2. b \in Board
    BY <1>2, <2>1 DEF Board
  <2>3. Barrier(b) /\ read' = read /\ live' = live
    BY <1>6 DEF OpenMemory
  <2> HIDE DEF b
  <2> QED BY <1>1, <1>3, <2>2, <2>3, BarrierKept
<1>7. CASE ReadChannel
  <2>1. Call1.ch \in Channels
    BY <1>2, <1>7 DEF ReadChannel, Doing, Fits
  <2>2. Barrier(Now) /\ read' = read \cup {Call1.ch} /\ live' = (live \/ Now.loop = "on")
    BY <1>7 DEF ReadChannel
  <2>3. read' \in SUBSET Channels
    BY <1>3, <2>1, <2>2
  <2>4. live' \in BOOLEAN
    BY <1>3, <2>2
  <2> QED BY <1>1, <1>2, <2>2, <2>3, <2>4, BarrierKept
<1>8. CASE LoopOne
  <2> DEFINE b == [Scanned(Now, {Call1.roc}, Call1.dacs) EXCEPT !.addr = Call1.roc]
  <2>1. Call1.roc \in Rocs
    BY <1>2, <1>8 DEF LoopOne, Doing, Fits
  <2>2. Scanned(Now, {Call1.roc}, Call1.dacs) \in Board
    BY <1>2, ScannedType
  <2>3. b \in Board
    BY <2>1, <2>2 DEF Board
  <2>4. Barrier(b) /\ read' = read /\ live' = live
    BY <1>8 DEF LoopOne
  <2> HIDE DEF b
  <2> QED BY <1>1, <1>3, <2>3, <2>4, BarrierKept
<1>9. CASE LoopSelected
  <2> DEFINE b(a) == [Scanned(Now, roclist, Call1.dacs) EXCEPT !.addr = a]
  <2>1. PICK a \in roclist : Barrier(b(a))
    BY <1>9 DEF LoopSelected
  <2>2. Scanned(Now, roclist, Call1.dacs) \in Board
    BY <1>2, ScannedType
  <2>3. b(a) \in Board
    BY <1>3, <2>2 DEF Board
  <2>4. read' = read /\ live' = live
    BY <1>9 DEF LoopSelected
  <2> HIDE DEF b
  <2> QED BY <1>1, <1>3, <2>1, <2>3, <2>4, BarrierKept
<1> QED BY <1>4, <1>5, <1>6, <1>7, <1>8, <1>9

\* modtrm[r] changes on every board of the line.
LEMMA LineMapped ==
    ASSUME NEW l \in Seq(Board), l # <<>>, NEW r \in Rocs
    PROVE  LET m == [k \in 1 .. Len(l) |-> [l[k] EXCEPT !.trims[r] = FALSE]]
           IN  m \in Seq(Board) /\ m # <<>>
<1> DEFINE e(k) == [l[k] EXCEPT !.trims[r] = FALSE]
           m == [k \in 1 .. Len(l) |-> e(k)]
<1>1. Len(l) \in Nat \ {0} /\ \A k \in 1 .. Len(l) : l[k] \in Board
  BY EmptySeq, ElementOfSeq
<1>2. \A b \in Board : [b EXCEPT !.trims[r] = FALSE] \in Board
  BY DEF Board
<1>3. \A k \in 1 .. Len(l) : e(k) \in Board
  BY <1>1, <1>2
<1> HIDE DEF e
<1>4. m \in Seq(Board)
  BY <1>1, <1>3, IsASeq
<1>5. DOMAIN m # DOMAIN <<>>
  BY <1>1
<1>6. m # <<>>
  BY <1>5
<1> QED BY <1>4, <1>6 DEF e

LEMMA AssignKept ==
    ASSUME NEW calls, AllTyped(calls), Kind(calls),
           AssignDacval \/ Remember \/ AssignModtrm \/ AssignPhase \/ AssignTimeout
    PROVE  Kind(calls)'
<1>1. TypeOK /\ InProgress(calls) /\ todo # <<>>
  BY DEF Kind, Doing, AssignDacval, Remember, AssignModtrm, AssignPhase, AssignTimeout
<1>2. Fits(Call1) /\ Rest \in Seq(Here(calls))
  BY <1>1, CallFacts
<1>3. /\ todo' = Rest /\ roclist' = roclist
      /\ UNCHANGED <<unsent, command, outcome, started, read, live, typed, throws>>
  BY DEF AssignDacval, Remember, AssignModtrm, AssignPhase, AssignTimeout, Onward, history, host
<1>4. InProgress(calls)'
  BY <1>1, <1>2, <1>3, StillInProgress
<1>5. CASE AssignDacval
  <2>1. Call1.roc \in Rocs /\ Call1.dac \in Dacs /\ Value(Call1.val) \in Values
    BY <1>1, <1>2, <1>5, ValueType DEF AssignDacval, Doing, Fits
  <2>2. dacval \in [Rocs -> [Dacs -> Values]]
    BY <1>1 DEF TypeOK
  <2>3. dacval' = [dacval EXCEPT ![Call1.roc][Call1.dac] = Value(Call1.val)]
    BY <1>5 DEF AssignDacval
  <2>4. dacval' \in [Rocs -> [Dacs -> Values]]
    BY <2>1, <2>2, <2>3
  <2>5. UNCHANGED <<line, phase, timeout, kept>>
    BY <1>5 DEF AssignDacval
  <2>6. TypeOK'
    BY <1>1, <1>3, <2>4, <2>5 DEF TypeOK
  <2> QED BY <1>4, <2>6 DEF Kind
<1>6. CASE Remember
  <2>1. Call1.name \in Locals /\ Call1.roc \in Rocs /\ Call1.dac \in Dacs
    BY <1>2, <1>6 DEF Remember, Doing, Fits
  <2>2. dacval \in [Rocs -> [Dacs -> Values]] /\ kept \in [Locals -> Values]
    BY <1>1 DEF TypeOK
  <2>3. kept' = [kept EXCEPT ![Call1.name] = dacval[Call1.roc][Call1.dac]]
    BY <1>6 DEF Remember
  <2>4. kept' \in [Locals -> Values]
    BY <2>1, <2>2, <2>3
  <2>5. UNCHANGED <<line, dacval, phase, timeout>>
    BY <1>6 DEF Remember
  <2>6. TypeOK'
    BY <1>1, <1>3, <2>4, <2>5 DEF TypeOK
  <2> QED BY <1>4, <2>6 DEF Kind
<1>7. CASE AssignModtrm
  <2>1. Call1.roc \in Rocs
    BY <1>2, <1>7 DEF AssignModtrm, Doing, Fits
  <2>2. line \in Seq(Board) /\ line # <<>>
    BY <1>1 DEF TypeOK
  <2>3. line' = [k \in 1 .. Len(line) |-> [line[k] EXCEPT !.trims[Call1.roc] = FALSE]]
    BY <1>7 DEF AssignModtrm
  <2>4. line' \in Seq(Board) /\ line' # <<>>
    BY <2>1, <2>2, <2>3, LineMapped
  <2>5. UNCHANGED <<dacval, phase, timeout, kept>>
    BY <1>7 DEF AssignModtrm, host
  <2>6. TypeOK'
    BY <1>1, <1>3, <2>4, <2>5 DEF TypeOK
  <2> QED BY <1>4, <2>6 DEF Kind
<1>8. CASE AssignPhase
  <2>1. phase' \in {"tuned", "new"} /\ UNCHANGED <<line, dacval, timeout, kept>>
    BY <1>2, <1>8 DEF AssignPhase, Doing, Fits
  <2>2. TypeOK'
    BY <1>1, <1>3, <2>1 DEF TypeOK
  <2> QED BY <1>4, <2>2 DEF Kind
<1>9. CASE AssignTimeout
  <2>1. timeout' \in {"long", "short"} /\ UNCHANGED <<line, dacval, phase, kept>>
    BY <1>2, <1>9 DEF AssignTimeout, Doing, Fits
  <2>2. TypeOK'
    BY <1>1, <1>3, <2>1 DEF TypeOK
  <2> QED BY <1>4, <2>2 DEF Kind
<1> QED BY <1>5, <1>6, <1>7, <1>8, <1>9

\* Another selection: what is left are calls of the command there, too.
LEMMA SelectKept ==
    ASSUME NEW calls, AllTyped(calls), Kind(calls), AssignRoclist PROVE Kind(calls)'
<1>1. TypeOK /\ InProgress(calls) /\ todo # <<>> /\ Call1.do = "select"
  BY DEF Kind, Doing, AssignRoclist
<1>2. /\ command \in Commands /\ Allowed(command, Call1.of) /\ Fits(Call1)
      /\ Rest \in Seq(Here(calls)) /\ Here(calls) \subseteq calls[command][Call1.of]
  BY <1>1, CallFacts
<1>3. /\ roclist' = Call1.of /\ todo' = Rest
      /\ UNCHANGED <<line, dacval, phase, timeout, kept>>
      /\ UNCHANGED <<unsent, command, outcome, started, read, live, typed, throws>>
  BY DEF AssignRoclist, Onward, history
<1>4. Rest \in Seq(calls[command][Call1.of])
  BY <1>2, SeqMonotonic
<1>5. Here(calls)' = calls[command][Call1.of]
  BY <1>3 DEF Here
<1>6. InProgress(calls)'
  BY <1>2, <1>3, <1>4, <1>5 DEF InProgress, Allowed, Commands
<1>7. Call1.of \in SUBSET Rocs /\ Call1.of # {}
  BY <1>1, <1>2 DEF Fits, Selections
<1>8. TypeOK'
  BY <1>1, <1>3, <1>7 DEF TypeOK
<1> QED BY <1>6, <1>8 DEF Kind

LEMMA UnfoldKept ==
    ASSUME NEW calls, AllTyped(calls), Kind(calls), todo # <<>>,
           NEW p \in Seq(Here(calls)), Unfold(p)
    PROVE  Kind(calls)'
<1>1. TypeOK /\ InProgress(calls)
  BY DEF Kind
<1>2. todo' = p /\ UNCHANGED <<command, roclist>>
  BY DEF Unfold, host, history
<1>3. InProgress(calls)'
  BY <1>1, <1>2, StillInProgress
<1>4. UNCHANGED <<line, unsent, host, history>>
  BY DEF Unfold
<1>5. TypeOK'
  BY <1>1, <1>4 DEF TypeOK, host, history
<1> QED BY <1>3, <1>5 DEF Kind

LEMMA ControlKept ==
    ASSUME NEW calls, AllTyped(calls), Kind(calls),
           Choose \/ Repeat \/ NextRoc \/ Enter \/ Leave \/ ReturnEarly
    PROVE  Kind(calls)'
<1> DEFINE S == Here(calls)
<1>1. TypeOK /\ InProgress(calls) /\ todo # <<>>
  BY DEF Kind, Doing, Choose, Repeat, NextRoc, Enter, Leave, ReturnEarly
<1>2. /\ Rest \in Seq(S) /\ todo \in Seq(S) /\ EndOfCall \in S /\ EndOfTry \in S
      /\ \A p \in Leads(Call1, roclist) : p \in Seq(S)
  BY <1>1, CallFacts
<1>3. <<EndOfCall>> \in Seq(S) /\ <<EndOfTry>> \in Seq(S) /\ <<>> \in Seq(S)
  BY <1>2, Alone, EmptySeq
<1>4. \A p \in Seq(S), q \in Seq(S) : p \o q \in Seq(S)
  BY ConcatProperties
<1>5. ASSUME NEW p \in Seq(S), Unfold(p) PROVE Kind(calls)'
  BY <1>1, <1>5, UnfoldKept
<1> HIDE DEF S
<1>6. CASE Choose
  <2>1. PICK k \in DOMAIN Call1.of : Unfold(Call1.of[k] \o Rest)
    BY <1>6 DEF Choose
  <2>2. Call1.of[k] \in Leads(Call1, roclist)
    BY <1>6 DEF Choose, Doing, Leads
  <2>3. Call1.of[k] \o Rest \in Seq(S)
    BY <1>2, <1>4, <2>2
  <2> QED BY <1>5, <2>1, <2>3
<1>7. CASE Repeat
  <2>1. Unfold(Call1.of[1] \o todo) \/ Unfold(Rest)
    BY <1>7 DEF Repeat
  <2>2. Call1.of[1] \in Leads(Call1, roclist)
    BY <1>7 DEF Repeat, Doing, Leads
  <2>3. Call1.of[1] \o todo \in Seq(S)
    BY <1>2, <1>4, <2>2
  <2> QED BY <1>2, <1>5, <2>1, <2>3
<1>8. CASE NextRoc
  <2> DEFINE r == Call1.roc
             body == IF Call1.all \/ r \in roclist THEN Call1.of[r] ELSE <<>>
             more == IF r = MaxRoc THEN <<>> ELSE <<[Call1 EXCEPT !.roc = r + 1]>>
  <2>1. Unfold(body \o more \o Rest)
    BY <1>8 DEF NextRoc
  <2>2. Leads(Call1, roclist) =
            (IF Call1.all \/ r \in roclist THEN {Call1.of[r]} ELSE {})
            \cup (IF r = MaxRoc THEN {} ELSE {<<[Call1 EXCEPT !.roc = r + 1]>>})
    BY <1>8 DEF NextRoc, Doing, Leads
  <2>3. body \in Seq(S)
    BY <1>2, <1>3, <2>2
  <2>4. more \in Seq(S)
    BY <1>2, <1>3, <2>2
  <2> HIDE DEF body, more
  <2>5. body \o more \o Rest \in Seq(S)
    BY <1>2, <1>4, <2>3, <2>4
  <2> QED BY <1>5, <2>1, <2>5
<1>9. CASE Enter
  <2>1. Unfold(Call1.of[1] \o <<EndOfCall>> \o Rest) \/ Unfold(Call1.of[1] \o <<EndOfTry>> \o Rest)
    BY <1>9 DEF Enter
  <2>2. Call1.of[1] \in Leads(Call1, roclist)
    BY <1>9 DEF Enter, Doing, Leads
  <2>3. /\ Call1.of[1] \o <<EndOfCall>> \o Rest \in Seq(S)
        /\ Call1.of[1] \o <<EndOfTry>> \o Rest \in Seq(S)
    BY <1>2, <1>3, <1>4, <2>2
  <2> QED BY <1>5, <2>1, <2>3
<1>10. CASE Leave
  BY <1>2, <1>5, <1>10 DEF Leave
<1>11. CASE ReturnEarly
  <2>1. Behind(Rest) \in Seq(S)
    BY <1>2, BehindType
  <2> QED BY <1>5, <1>11, <2>1 DEF ReturnEarly
<1> QED BY <1>6, <1>7, <1>8, <1>9, <1>10, <1>11

LEMMA ThrowKept ==
    ASSUME NEW calls, AllTyped(calls), Kind(calls), Throw PROVE Kind(calls)'
<1>1. TypeOK /\ InProgress(calls) /\ todo # <<>>
  BY DEF Kind, Throw
<1>2. todo \in Seq(Here(calls))
  BY <1>1, CallFacts
<1>3. /\ throws < MaxThrows /\ throws' = throws + 1 /\ unsent' = FALSE
      /\ outcome' \in {"caught", "thrown"}
      /\ UNCHANGED <<dacval, phase, timeout, roclist, kept, command, started, read, live, typed>>
  BY DEF Throw, host
<1>4. todo' \in Seq(Here(calls))
  <2>1. CASE (\E k \in 1 .. Len(todo) : todo[k] = EndOfTry) /\ todo' = Behind(Caught(todo))
    BY <1>2, <2>1, CaughtType, BehindType
  <2>2. CASE todo' = <<>>
    BY <2>2, EmptySeq
  <2> QED BY <2>1, <2>2 DEF Throw
<1>5. InProgress(calls)'
  BY <1>1, <1>3, <1>4, StillInProgress
<1>6. line' \in Seq(Board) /\ line' # <<>>
  <2>1. PICK k \in 1 .. Len(line) : line' = <<line[k]>>
    BY DEF Throw
  <2>2. line \in Seq(Board)
    BY <1>1 DEF TypeOK
  <2>3. line[k] \in Board
    BY <2>2, ElementOfSeq
  <2> QED BY <2>1, <2>3, LineType
<1>7. TypeOK'
  <2>1. throws' \in 0 .. MaxThrows
    BY <1>1, <1>3, BoundsAssumption DEF TypeOK
  <2> QED BY <1>1, <1>3, <1>6, <2>1 DEF TypeOK
<1> QED BY <1>5, <1>7 DEF Kind

LEMMA PromptKept ==
    ASSUME NEW calls, AllTyped(calls), Kind(calls), Finish \/ \E c \in Commands : Type(c)
    PROVE  Kind(calls)'
<1>1. TypeOK /\ todo = <<>>
  BY DEF Kind, Finish, Type, Prompt
<1>2. CASE Finish
  <2>1. todo' = <<>> /\ outcome' = "done"
        /\ UNCHANGED <<line, unsent, host, command, started, read, live, typed, throws>>
    BY <1>1, <1>2 DEF Finish
  <2>2. TypeOK'
    BY <1>1, <2>1 DEF TypeOK, host
  <2> QED BY <2>1, <2>2 DEF Kind, InProgress
<1>3. ASSUME NEW c \in Commands, Type(c) PROVE Kind(calls)'
  <2>1. /\ command' = c /\ outcome' = "running" /\ todo' = Procedure[c]
        /\ started' = {} /\ read' = {} /\ live' = FALSE
        /\ typed < MaxCommands /\ typed' = typed + 1
        /\ UNCHANGED <<line, unsent, host, throws>>
    BY <1>3 DEF Type
  <2>2. Allowed(c, roclist)
    BY <1>3 DEF Type, Allowed
  <2>3. roclist \in Selections
    BY <1>1 DEF TypeOK, Selections
  <2>4. Procedure[c] \in Seq(calls[c][roclist])
    BY <2>2, <2>3 DEF AllTyped, Typed
  <2>5. roclist' = roclist
    BY <2>1 DEF host
  <2>6. Here(calls)' = calls[c][roclist]
    BY <2>1, <2>5 DEF Here
  <2>7. InProgress(calls)'
    BY <2>1, <2>2, <2>4, <2>5, <2>6 DEF InProgress, Allowed, Commands
  <2>8. typed' \in 0 .. MaxCommands
    BY <1>1, <2>1, BoundsAssumption DEF TypeOK
  <2>9. TypeOK'
    BY <1>1, <2>1, <2>8 DEF TypeOK, host, Commands
  <2> QED BY <2>7, <2>9 DEF Kind
<1> QED BY <1>2, <1>3

LEMMA InitKind == \A calls : Init => Kind(calls)
<1> SUFFICES ASSUME NEW calls, Init PROVE Kind(calls)
  OBVIOUS
<1>1. 0 \in Rocs
  BY CallsAssumption DEF Rocs
<1>2. \A d \in Dacs, r \in Rocs : Set(r, d) \in Values
  BY DEF Values
<1>3. Scan \in Values
  BY DEF Values
<1>4. Healthy.dac \in [Rocs -> [Dacs -> Values]]
  BY <1>2 DEF Healthy
<1>5. \A a \in Rocs : [Healthy EXCEPT !.addr = a] \in Board
  BY <1>1, <1>4 DEF Healthy, Board
<1>6. roclist \in SUBSET Rocs /\ roclist # {}
  BY DEF Init
<1>7. line \in Seq(Board) /\ line # <<>>
  BY <1>5, <1>6, LineType DEF Init
<1>8. dacval \in [Rocs -> [Dacs -> Values]] /\ kept \in [Locals -> Values]
  BY <1>3, <1>4 DEF Init
<1>9. TypeOK
  <2>1. /\ unsent = FALSE /\ phase = "tuned" /\ timeout = "long"
        /\ command = "none" /\ outcome = "done"
        /\ started = {} /\ read = {} /\ live = FALSE
        /\ typed = 0 /\ throws = 0
    BY DEF Init
  <2>2. 0 \in 0 .. MaxCommands /\ 0 \in 0 .. MaxThrows
    BY BoundsAssumption
  <2> QED BY <1>6, <1>7, <1>8, <2>1, <2>2 DEF TypeOK
<1>10. InProgress(calls)
  BY DEF Init, InProgress
<1> QED BY <1>9, <1>10 DEF Kind

LEMMA KindKept ==
    ASSUME NEW calls, AllTyped(calls), Kind(calls), [Next]_vars PROVE Kind(calls)'
<1>1. CASE Request
  BY <1>1, RequestKept
<1>2. CASE FlushAll \/ LoadTrimTable \/ OpenMemory \/ ReadChannel \/ LoopOne \/ LoopSelected
  BY <1>2, WaitKept
<1>3. CASE AssignDacval \/ Remember \/ AssignModtrm \/ AssignPhase \/ AssignTimeout
  BY <1>3, AssignKept
<1>4. CASE AssignRoclist
  BY <1>4, SelectKept
<1>5. CASE Choose \/ Repeat \/ NextRoc \/ Enter \/ Leave \/ ReturnEarly
  BY <1>5, ControlKept
<1>6. CASE Throw
  BY <1>6, ThrowKept
<1>7. CASE Finish \/ \E c \in Commands : Type(c)
  BY <1>7, PromptKept
<1>8. CASE UNCHANGED vars
  BY <1>8 DEF vars, host, history, Kind, TypeOK, InProgress, Here, Allowed, Commands
<1> QED BY <1>1, <1>2, <1>3, <1>4, <1>5, <1>6, <1>7, <1>8 DEF Next

\* However the procedures unfold, are thrown out of and are typed again, the
\* variables keep their types: no address, channel or DAC that is out of
\* range, and an exception always leaves a board behind.
THEOREM ProceduresTypes == \A calls : AllTyped(calls) /\ Spec => []TypeOK
<1> SUFFICES ASSUME NEW calls PROVE AllTyped(calls) /\ Spec => []TypeOK
  OBVIOUS
<1>1. Init => Kind(calls)
  BY InitKind
<1>2. AllTyped(calls) /\ Kind(calls) /\ [Next]_vars => Kind(calls)'
  BY KindKept
<1>3. Kind(calls) => TypeOK
  BY DEF Kind
<1>4. AllTyped(calls) => AllTyped(calls)'
  BY DEF AllTyped, Typed, Commands
<1> QED BY <1>1, <1>2, <1>3, <1>4, PTL DEF Spec

-----------------------------------------------------------------------------
\* The copies of the DACs.

\* A step that leaves the copies, the command and the selection as they are.
LEMMA SameExcused ==
    Excused /\ UNCHANGED <<dacval, before, command, roclist>> => Excused'
  BY DEF Excused, Commands

LEMMA SameCopies ==
    ASSUME \/ Request \/ FlushAll \/ LoadTrimTable \/ OpenMemory \/ ReadChannel \/ LoopOne
           \/ LoopSelected \/ Remember \/ AssignModtrm \/ AssignPhase \/ AssignTimeout
           \/ Choose \/ Repeat \/ NextRoc \/ Enter \/ Leave \/ ReturnEarly \/ Throw \/ Finish
    PROVE  UNCHANGED <<dacval, before, command, roclist>>
  BY DEF Request, FlushAll, LoadTrimTable, OpenMemory, ReadChannel, LoopOne, LoopSelected,
         Remember, AssignModtrm, AssignPhase, AssignTimeout, Choose, Repeat, NextRoc, Enter,
         Leave, ReturnEarly, Throw, Finish, Barrier, Onward, Unfold, host, history

LEMMA ExcusedKept ==
    ASSUME NEW calls, AllTyped(calls), AllPurposeful(calls), Kind(calls), Excused, [Next]_vars
    PROVE  Excused'
<1>1. TypeOK /\ InProgress(calls)
  BY DEF Kind
<1>2. roclist \in Selections
  BY <1>1 DEF TypeOK, Selections
<1>3. dacval \in [Rocs -> [Dacs -> Values]]
  BY <1>1 DEF TypeOK
<1>4. ASSUME todo # <<>>
      PROVE  /\ command \in Commands /\ Fits(Call1) /\ Purposeful(command, roclist, Call1)
             /\ Call1.do = "select" =>
                   roclist \subseteq Call1.of \/ Purpose[command] = {} \/ command \in Naming
  <2>1. /\ command \in Commands /\ Allowed(command, roclist)
        /\ Call1 \in calls[command][roclist] /\ Fits(Call1)
    BY <1>1, <1>4, CallFacts DEF Here
  <2> QED BY <1>2, <2>1 DEF AllPurposeful, PurposeOnly
<1>5. CASE AssignDacval
  <2>1. todo # <<>> /\ Call1.do = "dacval"
    BY <1>5 DEF AssignDacval, Doing
  <2>2. /\ command \in Commands /\ Call1.roc \in Rocs /\ Call1.dac \in Dacs
        /\ Call1.dac \in Purpose[command] /\ (Call1.roc \in roclist \/ command \in Naming)
    BY <1>4, <2>1 DEF Fits, Purposeful
  <2>3. \A r \in Rocs, d \in Dacs : dacval'[r][d] # dacval[r][d] => r = Call1.roc /\ d = Call1.dac
    BY <1>3, <1>5, <2>2 DEF AssignDacval
  <2>4. UNCHANGED <<before, command, roclist>>
    BY <1>5 DEF AssignDacval, Onward, history
  <2> QED BY <2>2, <2>3, <2>4 DEF Excused, Commands
<1>6. CASE AssignRoclist
  <2>1. todo # <<>> /\ Call1.do = "select"
    BY <1>6 DEF AssignRoclist, Doing
  <2>2. roclist \subseteq Call1.of \/ Purpose[command] = {} \/ command \in Naming
    BY <1>4, <2>1
  <2>3. roclist' = Call1.of /\ UNCHANGED <<dacval, before, command>>
    BY <1>6 DEF AssignRoclist, Onward, history
  <2> QED BY <2>2, <2>3 DEF Excused, Commands
<1>7. ASSUME NEW c \in Commands, Type(c) PROVE Excused'
  <2>1. /\ command' = c /\ outcome # "running" /\ UNCHANGED <<dacval, roclist>>
        /\ before' = IF outcome = "done" THEN [dacval |-> dacval, on |-> Now.on] ELSE before
        /\ outcome \in {"caught", "thrown"} => c = command
    BY <1>7 DEF Type, host
  <2>2. CASE outcome = "done"
    <3>1. before'.dacval = dacval
      BY <2>1, <2>2
    <3> QED BY <2>1, <3>1 DEF Excused
  <2>3. CASE outcome # "done"
    <3>1. outcome \in {"caught", "thrown"}
      BY <1>1, <2>1, <2>3 DEF TypeOK
    <3> QED BY <2>1, <2>3, <3>1, SameExcused
  <2> QED BY <2>2, <2>3
<1>8. CASE UNCHANGED vars
  BY <1>8, SameExcused DEF vars, host, history
<1> QED BY <1>5, <1>6, <1>7, <1>8, SameCopies, SameExcused DEF Next

\* OnPurpose: a command that came to its end has changed the DACs it is there
\* for, of the selected ROCs, and no other ones, however often it threw and
\* was typed again.
THEOREM ChangedOnPurpose ==
    \A calls : AllTyped(calls) /\ AllPurposeful(calls) /\ Spec => []OnPurpose
<1> SUFFICES ASSUME NEW calls
             PROVE  AllTyped(calls) /\ AllPurposeful(calls) /\ Spec => []OnPurpose
  OBVIOUS
<1>1. Init => Kind(calls) /\ Excused
  <2>1. Init => Excused
    BY DEF Init, Excused
  <2> QED BY <2>1, InitKind
<1>2. AllTyped(calls) /\ AllPurposeful(calls) /\ Kind(calls) /\ Excused /\ [Next]_vars
        => Kind(calls)' /\ Excused'
  BY KindKept, ExcusedKept
<1>3. Excused => OnPurpose
  BY DEF Excused, OnPurpose
<1>4. AllTyped(calls) /\ AllPurposeful(calls) => (AllTyped(calls) /\ AllPurposeful(calls))'
  BY DEF AllTyped, AllPurposeful, Typed, PurposeOnly, Commands
<1> QED BY <1>1, <1>2, <1>3, <1>4, PTL DEF Spec

-----------------------------------------------------------------------------
\* The commands of cmd.cpp: all the calls to which they lead fit (Programs).

\* The licence l of a procedure: the copies of DACs that it may change, what
\* few procedures do, which ROCs it may select, and on which channels it may
\* start the DAQ and read.  A single call of a function is none of the ends
\* that Procedures sets.
Granted(l, i) ==
    /\ i.do = "dacval" => <<i.roc, i.dac>> \in l.copies
    /\ i.do = "switch" => /\ i.part \in {"lv", "hv"} => "power" \in l.does
                          /\ i.part = "loop" /\ i.to = "on" => "loop" \in l.does
    /\ i.do = "modtrm" => "trims" \in l.does
    /\ i.do = "SetTrimValues" => i.same \/ "trims" \in l.does
    /\ i.do = "return" => "return" \in l.does
    /\ i.do = "select" => i.of \in l.selects
    /\ i.do \in {"Daq_Start", "Daq_Read"} => i.ch \in l.channels
    /\ i.do # "end of call"

\* The calls S are within the licence l, with the ROCs s selected, and lead to
\* no others.
Good(l, s, S) ==
    \A i \in S : /\ Fits(i) /\ Granted(l, i)
                 /\ \A p \in Leads(i, s) : p \in Seq(S)

\* The call i, and the program p, lead to calls within the licence only.
Legal(l, s, i) == \E S : Good(l, s, S) /\ i \in S
Within(l, s, p) == \E S : Good(l, s, S) /\ p \in Seq(S)

LEMMA SeqOfMore == \A S, U : S \subseteq U => Seq(S) \subseteq Seq(U)
<1> SUFFICES ASSUME NEW S, NEW U, S \subseteq U, NEW p \in Seq(S) PROVE p \in Seq(U)
  OBVIOUS
<1>1. \A k \in 1 .. Len(p) : p[k] \in U
  BY ElementOfSeq
<1>2. p = [k \in 1 .. Len(p) |-> p[k]] /\ Len(p) \in Nat
  BY SeqDef, LenProperties
<1> QED BY <1>1, <1>2, IsASeq

LEMMA GoodUnion ==
    \A l, s, F : (\A S \in F : Good(l, s, S)) => Good(l, s, UNION F)
<1> SUFFICES ASSUME NEW l, NEW s, NEW F, \A S \in F : Good(l, s, S), NEW i \in UNION F
             PROVE  /\ Fits(i) /\ Granted(l, i)
                    /\ \A p \in Leads(i, s) : p \in Seq(UNION F)
  BY DEF Good
<1>1. PICK S \in F : i \in S
  OBVIOUS
<1>2. Good(l, s, S)
  BY <1>1
<1>3. S \subseteq UNION F
  OBVIOUS
<1>4. \A p \in Leads(i, s) : p \in Seq(UNION F)
  BY <1>1, <1>2, <1>3, SeqOfMore DEF Good
<1> QED BY <1>1, <1>2, <1>4 DEF Good

\* A program is made of its calls.
LEMMA LegalCalls ==
    \A l, s, p : (\E A : p \in Seq(A)) /\ (\A k \in 1 .. Len(p) : Legal(l, s, p[k]))
        => Within(l, s, p)
<1> SUFFICES ASSUME NEW l, NEW s, NEW p, \E A : p \in Seq(A),
                    \A k \in 1 .. Len(p) : Legal(l, s, p[k])
             PROVE  Within(l, s, p)
  OBVIOUS
<1> DEFINE of(k) == CHOOSE S : Good(l, s, S) /\ p[k] \in S
           F == {of(k) : k \in 1 .. Len(p)}
<1>1. \A k \in 1 .. Len(p) : Good(l, s, of(k)) /\ p[k] \in of(k)
  BY DEF Legal
<1> HIDE DEF of
<1>2. \A S \in F : Good(l, s, S)
  BY <1>1
<1>3. Good(l, s, UNION F)
  BY <1>2, GoodUnion
<1>4. \A k \in 1 .. Len(p) : p[k] \in UNION F
  BY <1>1
<1>5. p = [k \in 1 .. Len(p) |-> p[k]] /\ Len(p) \in Nat
  BY SeqDef, LenProperties
<1>6. p \in Seq(UNION F)
  BY <1>4, <1>5, IsASeq
<1> QED BY <1>3, <1>6 DEF Within

LEMMA CallsLegal == \A l, s, p : Within(l, s, p) => \A k \in 1 .. Len(p) : Legal(l, s, p[k])
  BY ElementOfSeq DEF Within, Legal

LEMMA NoCalls == \A l, s : Within(l, s, <<>>)
<1>1. \A l, s : Good(l, s, {}) /\ <<>> \in Seq({})
  BY EmptySeq DEF Good
<1> QED BY <1>1 DEF Within

LEMMA Join == \A l, s, p, q : Within(l, s, p) /\ Within(l, s, q) => Within(l, s, p \o q)
<1> SUFFICES ASSUME NEW l, NEW s, NEW p, NEW q, Within(l, s, p), Within(l, s, q)
             PROVE  Within(l, s, p \o q)
  OBVIOUS
<1>1. PICK S : Good(l, s, S) /\ p \in Seq(S)
  BY DEF Within
<1>2. PICK U : Good(l, s, U) /\ q \in Seq(U)
  BY DEF Within
<1>3. Good(l, s, S \cup U)
  <2>1. \A V \in {S, U} : Good(l, s, V)
    BY <1>1, <1>2
  <2>2. Good(l, s, UNION {S, U})
    BY <2>1, GoodUnion
  <2>3. UNION {S, U} = S \cup U
    OBVIOUS
  <2> QED BY <2>2, <2>3
<1>4. p \in Seq(S \cup U) /\ q \in Seq(S \cup U)
  BY <1>1, <1>2, SeqOfMore
<1>5. p \o q \in Seq(S \cup U)
  BY <1>4, ConcatProperties
<1> QED BY <1>3, <1>5 DEF Within

LEMMA One == \A l, s, i : Legal(l, s, i) => Within(l, s, <<i>>)
<1> SUFFICES ASSUME NEW l, NEW s, NEW i, Legal(l, s, i) PROVE Within(l, s, <<i>>)
  OBVIOUS
<1>1. PICK S : Good(l, s, S) /\ i \in S
  BY DEF Legal
<1>2. <<i>> \in Seq(S)
  BY <1>1
<1> QED BY <1>1, <1>2 DEF Within


LEMMA LegalSet == \A l, s, S : Good(l, s, S) => \A i \in S : Legal(l, s, i)
  BY DEF Legal

-----------------------------------------------------------------------------
\* The structures of C++.

LEMMA WithinCalls ==
    \A l, s, i, p : i \in {Call(p), Try(p), Again(p)} /\ Within(l, s, p) => Legal(l, s, i)
<1> SUFFICES ASSUME NEW l, NEW s, NEW p, NEW i \in {Call(p), Try(p), Again(p)}, Within(l, s, p)
             PROVE  Legal(l, s, i)
  OBVIOUS
<1>1. PICK S : Good(l, s, S) /\ p \in Seq(S)
  BY DEF Within
<1>2. i.do \in {"call", "try", "again"} /\ i.of = <<p>>
  BY DEF Call, Try, Again
<1>3. Leads(i, s) = {p}
  BY <1>2 DEF Leads
<1>4. Fits(i) /\ Granted(l, i)
  BY <1>2 DEF Fits, Granted
<1>5. p \in Seq(S \cup {i}) /\ \A q \in Seq(S) : q \in Seq(S \cup {i})
  BY <1>1, SeqOfMore
<1>6. Good(l, s, S \cup {i})
  BY <1>1, <1>3, <1>4, <1>5 DEF Good
<1> QED BY <1>6 DEF Legal

LEMMA Ways ==
    \A l, s, f : (\A k \in DOMAIN f : Within(l, s, f[k])) => Legal(l, s, Either(f))
<1> SUFFICES ASSUME NEW l, NEW s, NEW f, \A k \in DOMAIN f : Within(l, s, f[k])
             PROVE  Legal(l, s, Either(f))
  OBVIOUS
<1> DEFINE i == Either(f)
           of(k) == CHOOSE S : Good(l, s, S) /\ f[k] \in Seq(S)
           F == {of(k) : k \in DOMAIN f}
           S == UNION F
<1>1. \A k \in DOMAIN f : Good(l, s, of(k)) /\ f[k] \in Seq(of(k))
  BY DEF Within
<1> HIDE DEF of
<1>2. Good(l, s, S)
  BY <1>1, GoodUnion
<1>3. \A k \in DOMAIN f : of(k) \subseteq S \cup {i}
  OBVIOUS
<1>4. \A k \in DOMAIN f : f[k] \in Seq(S \cup {i})
  BY <1>1, <1>3, SeqOfMore
<1>5. \A q \in Seq(S) : q \in Seq(S \cup {i})
  BY SeqOfMore
<1>6. i.do = "either" /\ i.of = f
  BY DEF Either
<1>7. Leads(i, s) = {f[k] : k \in DOMAIN f}
  BY <1>6 DEF Leads
<1>8. Fits(i) /\ Granted(l, i)
  BY <1>6 DEF Fits, Granted
<1> HIDE DEF i, S
<1>9. Good(l, s, S \cup {i})
  BY <1>2, <1>4, <1>5, <1>7, <1>8 DEF Good
<1> QED BY <1>9 DEF Legal, i

LEMMA AllWays ==
    \A l, s, A, f : f = [x \in A |-> f[x]] /\ (\A x \in A : Within(l, s, f[x]))
        => Legal(l, s, Either(f))
  BY Ways

LEMMA Rounds ==
    \A l, s, f : \A all \in BOOLEAN :
        (\A r \in Rocs : all \/ r \in s => Within(l, s, f[r]))
        => Legal(l, s, [do |-> "each", of |-> f, roc |-> 0, all |-> all])
<1> SUFFICES ASSUME NEW l, NEW s, NEW f, NEW all \in BOOLEAN,
                    \A r \in Rocs : all \/ r \in s => Within(l, s, f[r])
             PROVE  Legal(l, s, [do |-> "each", of |-> f, roc |-> 0, all |-> all])
  OBVIOUS
<1> DEFINE at(r) == [do |-> "each", of |-> f, roc |-> r, all |-> all]
           of(k) == CHOOSE S : Good(l, s, S) /\ f[k] \in Seq(S)
           D == {r \in Rocs : all \/ r \in s}
           F == {of(k) : k \in D}
           S == UNION F
           E == {at(r) : r \in Rocs}
<1>1. \A k \in D : Good(l, s, of(k)) /\ f[k] \in Seq(of(k))
  BY DEF Within
<1> HIDE DEF of
<1>2. Good(l, s, S)
  BY <1>1, GoodUnion
<1>3. \A k \in D : of(k) \subseteq S \cup E
  OBVIOUS
<1>4. \A k \in D : f[k] \in Seq(S \cup E)
  BY <1>1, <1>3, SeqOfMore
<1>5. \A q \in Seq(S) : q \in Seq(S \cup E)
  BY SeqOfMore
<1>6. ASSUME NEW r \in Rocs, NEW p \in Leads(at(r), s) PROVE p \in Seq(S \cup E)
  <2>1. p \in (IF all \/ r \in s THEN {f[r]} ELSE {})
            \cup (IF r = MaxRoc THEN {} ELSE {<<[at(r) EXCEPT !.roc = r + 1]>>})
    BY DEF Leads
  <2>2. CASE p = f[r] /\ (all \/ r \in s)
    BY <2>2, <1>4
  <2>3. CASE r # MaxRoc /\ p = <<[at(r) EXCEPT !.roc = r + 1]>>
    <3>1. r + 1 \in Rocs
      BY <2>3, CallsAssumption DEF Rocs
    <3>2. [at(r) EXCEPT !.roc = r + 1] = at(r + 1)
      OBVIOUS
    <3>3. at(r + 1) \in S \cup E
      BY <3>1
    <3> HIDE DEF at, S, E
    <3> QED BY <2>3, <3>2, <3>3
  <2> QED BY <2>1, <2>2, <2>3
<1>7. \A r \in Rocs : Fits(at(r)) /\ Granted(l, at(r))
  BY DEF Fits, Granted
<1>8. at(0) \in S \cup E
  BY CallsAssumption DEF Rocs
<1> HIDE DEF at, S
<1>9. Good(l, s, S \cup E)
  BY <1>2, <1>5, <1>6, <1>7 DEF Good
<1>10. Legal(l, s, at(0))
  BY <1>8, <1>9 DEF Legal
<1> QED BY <1>10 DEF at

LEMMA SelectedRounds ==
    \A l, s, f : (\A r \in s : Within(l, s, f[r])) => Legal(l, s, EachRoc(f))
  BY Rounds DEF EachRoc

LEMMA AllRounds ==
    \A l, s, f : (\A r \in Rocs : Within(l, s, f[r])) => Legal(l, s, EveryRoc(f))
  BY Rounds DEF EveryRoc

-----------------------------------------------------------------------------
\* Single calls.

Plain == {"roc_I2cAddr", "first", "SetDAC", "pixels", "Daq_Close", "Daq_Start", "Daq_Stop",
          "switch", "send", "flush", "SetTrimValues", "Daq_Open", "Daq_Read", "LoopSingleRoc",
          "LoopMultiRoc", "dacval", "keep", "modtrm", "phase", "timeout", "return"}

LEMMA PlainLegal ==
    \A l, s, i : i.do \in Plain /\ Fits(i) /\ Granted(l, i) => Legal(l, s, i)
<1> SUFFICES ASSUME NEW l, NEW s, NEW i, i.do \in Plain, Fits(i), Granted(l, i)
             PROVE  Legal(l, s, i)
  OBVIOUS
<1>1. Leads(i, s) = {}
  BY DEF Leads, Plain
<1>2. i.do # "select"
  BY DEF Plain
<1>3. Good(l, s, {i})
  BY <1>1, <1>2 DEF Good
<1> QED BY <1>3 DEF Legal

LEMMA ChannelOfRoc == \A r \in Rocs : ChannelOf(r) \in Channels
<1> SUFFICES ASSUME NEW r \in Rocs PROVE ChannelOf(r) \in Channels
  OBVIOUS
<1>1. PICK n \in 1 .. MaxRoc + 1 : n * NChannels = MaxRoc + 1
  BY CallsAssumption
<1>2. n \in Nat /\ n > 0 /\ NChannels \in Nat /\ NChannels > 0 /\ MaxRoc \in Nat
  BY CallsAssumption
<1>3. (MaxRoc + 1) \div NChannels = n
  BY <1>1, <1>2, Z3T(60)
<1>4. r \in Nat /\ r < n * NChannels
  BY <1>1, <1>2 DEF Rocs
<1>5. r \div n \in Nat /\ r \div n < NChannels
  BY <1>2, <1>4, Z3T(60)
<1> QED BY <1>2, <1>3, <1>5 DEF ChannelOf, Channels

LEMMA Requests ==
    \A l, s :
        /\ \A i \in {Send, AddrFirst, Flush} : Legal(l, s, i)
        /\ "return" \in l.does => Legal(l, s, Return)
        /\ \A i \in {roc_Col_Enable(1), roc_Col_Enable(0), roc_Pix_Trim, roc_Pix_Mask,
                      roc_Chip_Mask, roc_Pix_Cal, roc_ClrCal} : Legal(l, s, i)
  BY PlainLegal DEF Plain, Fits, Granted, Send, AddrFirst, Flush, Return, Pixels,
     roc_Col_Enable, roc_Pix_Trim, roc_Pix_Mask, roc_Chip_Mask, roc_Pix_Cal, roc_ClrCal

LEMMA Addressed ==
    \A l, s : \A r \in Rocs :
        /\ Legal(l, s, roc_I2cAddr(r)) /\ Legal(l, s, SetTrimValues(r))
        /\ "trims" \in l.does => Legal(l, s, SetOtherTrims(r)) /\ Legal(l, s, NewTrims(r))
        /\ \A ds : Legal(l, s, LoopSingleRoc(r, ds))
<1>1. \A l, s : \A r \in Rocs : Legal(l, s, roc_I2cAddr(r)) /\ Legal(l, s, SetTrimValues(r))
  BY PlainLegal DEF Plain, Fits, Granted, roc_I2cAddr, SetTrimValues
<1>2. \A l, s : \A r \in Rocs : "trims" \in l.does => Legal(l, s, SetOtherTrims(r))
  BY PlainLegal DEF Plain, Fits, Granted, SetOtherTrims
<1>3. \A l, s : \A r \in Rocs : "trims" \in l.does => Legal(l, s, NewTrims(r))
  BY PlainLegal DEF Plain, Fits, Granted, NewTrims
<1>4. \A l, s : \A r \in Rocs : \A ds : Legal(l, s, LoopSingleRoc(r, ds))
  BY PlainLegal DEF Plain, Fits, Granted, LoopSingleRoc
<1> QED BY <1>1, <1>2, <1>3, <1>4

\* Programs written down call by call.

LEMMA Two ==
    \A l, s, i1, i2 :
          /\ Legal(l, s, i1) /\ Legal(l, s, i2)
        => Within(l, s, <<i1, i2>>)
<1> SUFFICES ASSUME NEW l, NEW s, NEW i1, NEW i2,
                    Legal(l, s, i1), Legal(l, s, i2)
             PROVE  Within(l, s, <<i1, i2>>)
  OBVIOUS
<1> DEFINE p == <<i1, i2>>
<1>1. p \in Seq({i1, i2}) /\ Len(p) = 2
  OBVIOUS
<1>2. \A k \in 1 .. 2 : Legal(l, s, p[k])
  OBVIOUS
<1> QED BY <1>1, <1>2, LegalCalls

LEMMA Three ==
    \A l, s, i1, i2, i3 :
          /\ Legal(l, s, i1) /\ Legal(l, s, i2) /\ Legal(l, s, i3)
        => Within(l, s, <<i1, i2, i3>>)
<1> SUFFICES ASSUME NEW l, NEW s, NEW i1, NEW i2, NEW i3,
                    Legal(l, s, i1), Legal(l, s, i2), Legal(l, s, i3)
             PROVE  Within(l, s, <<i1, i2, i3>>)
  OBVIOUS
<1> DEFINE p == <<i1, i2, i3>>
<1>1. p \in Seq({i1, i2, i3}) /\ Len(p) = 3
  OBVIOUS
<1>2. \A k \in 1 .. 3 : Legal(l, s, p[k])
  OBVIOUS
<1> QED BY <1>1, <1>2, LegalCalls

LEMMA Four ==
    \A l, s, i1, i2, i3, i4 :
          /\ Legal(l, s, i1) /\ Legal(l, s, i2) /\ Legal(l, s, i3) /\ Legal(l, s, i4)
        => Within(l, s, <<i1, i2, i3, i4>>)
<1> SUFFICES ASSUME NEW l, NEW s, NEW i1, NEW i2, NEW i3, NEW i4,
                    Legal(l, s, i1), Legal(l, s, i2), Legal(l, s, i3), Legal(l, s, i4)
             PROVE  Within(l, s, <<i1, i2, i3, i4>>)
  OBVIOUS
<1> DEFINE p == <<i1, i2, i3, i4>>
<1>1. p \in Seq({i1, i2, i3, i4}) /\ Len(p) = 4
  OBVIOUS
<1>2. \A k \in 1 .. 4 : Legal(l, s, p[k])
  OBVIOUS
<1> QED BY <1>1, <1>2, LegalCalls

LEMMA Five ==
    \A l, s, i1, i2, i3, i4, i5 :
          /\ Legal(l, s, i1) /\ Legal(l, s, i2) /\ Legal(l, s, i3) /\ Legal(l, s, i4)
          /\ Legal(l, s, i5)
        => Within(l, s, <<i1, i2, i3, i4, i5>>)
<1> SUFFICES ASSUME NEW l, NEW s, NEW i1, NEW i2, NEW i3, NEW i4, NEW i5,
                    Legal(l, s, i1), Legal(l, s, i2), Legal(l, s, i3), Legal(l, s, i4),
                    Legal(l, s, i5)
             PROVE  Within(l, s, <<i1, i2, i3, i4, i5>>)
  OBVIOUS
<1> DEFINE p == <<i1, i2, i3, i4, i5>>
<1>1. p \in Seq({i1, i2, i3, i4, i5}) /\ Len(p) = 5
  OBVIOUS
<1>2. \A k \in 1 .. 5 : Legal(l, s, p[k])
  OBVIOUS
<1> QED BY <1>1, <1>2, LegalCalls

LEMMA Six ==
    \A l, s, i1, i2, i3, i4, i5, i6 :
          /\ Legal(l, s, i1) /\ Legal(l, s, i2) /\ Legal(l, s, i3) /\ Legal(l, s, i4)
          /\ Legal(l, s, i5) /\ Legal(l, s, i6)
        => Within(l, s, <<i1, i2, i3, i4, i5, i6>>)
<1> SUFFICES ASSUME NEW l, NEW s, NEW i1, NEW i2, NEW i3, NEW i4, NEW i5, NEW i6,
                    Legal(l, s, i1), Legal(l, s, i2), Legal(l, s, i3), Legal(l, s, i4),
                    Legal(l, s, i5), Legal(l, s, i6)
             PROVE  Within(l, s, <<i1, i2, i3, i4, i5, i6>>)
  OBVIOUS
<1> DEFINE p == <<i1, i2, i3, i4, i5, i6>>
<1>1. p \in Seq({i1, i2, i3, i4, i5, i6}) /\ Len(p) = 6
  OBVIOUS
<1>2. \A k \in 1 .. 6 : Legal(l, s, p[k])
  OBVIOUS
<1> QED BY <1>1, <1>2, LegalCalls

LEMMA Seven ==
    \A l, s, i1, i2, i3, i4, i5, i6, i7 :
          /\ Legal(l, s, i1) /\ Legal(l, s, i2) /\ Legal(l, s, i3) /\ Legal(l, s, i4)
          /\ Legal(l, s, i5) /\ Legal(l, s, i6) /\ Legal(l, s, i7)
        => Within(l, s, <<i1, i2, i3, i4, i5, i6, i7>>)
<1> SUFFICES ASSUME NEW l, NEW s, NEW i1, NEW i2, NEW i3, NEW i4, NEW i5, NEW i6,
                    NEW i7,
                    Legal(l, s, i1), Legal(l, s, i2), Legal(l, s, i3), Legal(l, s, i4),
                    Legal(l, s, i5), Legal(l, s, i6), Legal(l, s, i7)
             PROVE  Within(l, s, <<i1, i2, i3, i4, i5, i6, i7>>)
  OBVIOUS
<1> DEFINE p == <<i1, i2, i3, i4, i5, i6, i7>>
<1>1. p \in Seq({i1, i2, i3, i4, i5, i6, i7}) /\ Len(p) = 7
  OBVIOUS
<1>2. \A k \in 1 .. 7 : Legal(l, s, p[k])
  OBVIOUS
<1> QED BY <1>1, <1>2, LegalCalls

LEMMA Eight ==
    \A l, s, i1, i2, i3, i4, i5, i6, i7, i8 :
          /\ Legal(l, s, i1) /\ Legal(l, s, i2) /\ Legal(l, s, i3) /\ Legal(l, s, i4)
          /\ Legal(l, s, i5) /\ Legal(l, s, i6) /\ Legal(l, s, i7) /\ Legal(l, s, i8)
        => Within(l, s, <<i1, i2, i3, i4, i5, i6, i7, i8>>)
<1> SUFFICES ASSUME NEW l, NEW s, NEW i1, NEW i2, NEW i3, NEW i4, NEW i5, NEW i6,
                    NEW i7, NEW i8,
                    Legal(l, s, i1), Legal(l, s, i2), Legal(l, s, i3), Legal(l, s, i4),
                    Legal(l, s, i5), Legal(l, s, i6), Legal(l, s, i7), Legal(l, s, i8)
             PROVE  Within(l, s, <<i1, i2, i3, i4, i5, i6, i7, i8>>)
  OBVIOUS
<1> DEFINE p == <<i1, i2, i3, i4, i5, i6, i7, i8>>
<1>1. p \in Seq({i1, i2, i3, i4, i5, i6, i7, i8}) /\ Len(p) = 8
  OBVIOUS
<1>2. \A k \in 1 .. 8 : Legal(l, s, p[k])
  OBVIOUS
<1> QED BY <1>1, <1>2, LegalCalls

LEMMA Nine ==
    \A l, s, i1, i2, i3, i4, i5, i6, i7, i8, i9 :
          /\ Legal(l, s, i1) /\ Legal(l, s, i2) /\ Legal(l, s, i3) /\ Legal(l, s, i4)
          /\ Legal(l, s, i5) /\ Legal(l, s, i6) /\ Legal(l, s, i7) /\ Legal(l, s, i8)
          /\ Legal(l, s, i9)
        => Within(l, s, <<i1, i2, i3, i4, i5, i6, i7, i8, i9>>)
<1> SUFFICES ASSUME NEW l, NEW s, NEW i1, NEW i2, NEW i3, NEW i4, NEW i5, NEW i6,
                    NEW i7, NEW i8, NEW i9,
                    Legal(l, s, i1), Legal(l, s, i2), Legal(l, s, i3), Legal(l, s, i4),
                    Legal(l, s, i5), Legal(l, s, i6), Legal(l, s, i7), Legal(l, s, i8),
                    Legal(l, s, i9)
             PROVE  Within(l, s, <<i1, i2, i3, i4, i5, i6, i7, i8, i9>>)
  OBVIOUS
<1> DEFINE p == <<i1, i2, i3, i4, i5, i6, i7, i8, i9>>
<1>1. p \in Seq({i1, i2, i3, i4, i5, i6, i7, i8, i9}) /\ Len(p) = 9
  OBVIOUS
<1>2. \A k \in 1 .. 9 : Legal(l, s, p[k])
  OBVIOUS
<1> QED BY <1>1, <1>2, LegalCalls

LEMMA Ten ==
    \A l, s, i1, i2, i3, i4, i5, i6, i7, i8, i9, i10 :
          /\ Legal(l, s, i1) /\ Legal(l, s, i2) /\ Legal(l, s, i3) /\ Legal(l, s, i4)
          /\ Legal(l, s, i5) /\ Legal(l, s, i6) /\ Legal(l, s, i7) /\ Legal(l, s, i8)
          /\ Legal(l, s, i9) /\ Legal(l, s, i10)
        => Within(l, s, <<i1, i2, i3, i4, i5, i6, i7, i8, i9, i10>>)
<1> SUFFICES ASSUME NEW l, NEW s, NEW i1, NEW i2, NEW i3, NEW i4, NEW i5, NEW i6,
                    NEW i7, NEW i8, NEW i9, NEW i10,
                    Legal(l, s, i1), Legal(l, s, i2), Legal(l, s, i3), Legal(l, s, i4),
                    Legal(l, s, i5), Legal(l, s, i6), Legal(l, s, i7), Legal(l, s, i8),
                    Legal(l, s, i9), Legal(l, s, i10)
             PROVE  Within(l, s, <<i1, i2, i3, i4, i5, i6, i7, i8, i9, i10>>)
  OBVIOUS
<1> DEFINE p == <<i1, i2, i3, i4, i5, i6, i7, i8, i9, i10>>
<1>1. p \in Seq({i1, i2, i3, i4, i5, i6, i7, i8, i9, i10}) /\ Len(p) = 10
  OBVIOUS
<1>2. \A k \in 1 .. 10 : Legal(l, s, p[k])
  OBVIOUS
<1> QED BY <1>1, <1>2, LegalCalls

LEMMA Eleven ==
    \A l, s, i1, i2, i3, i4, i5, i6, i7, i8, i9, i10, i11 :
          /\ Legal(l, s, i1) /\ Legal(l, s, i2) /\ Legal(l, s, i3) /\ Legal(l, s, i4)
          /\ Legal(l, s, i5) /\ Legal(l, s, i6) /\ Legal(l, s, i7) /\ Legal(l, s, i8)
          /\ Legal(l, s, i9) /\ Legal(l, s, i10) /\ Legal(l, s, i11)
        => Within(l, s, <<i1, i2, i3, i4, i5, i6, i7, i8, i9, i10, i11>>)
<1> SUFFICES ASSUME NEW l, NEW s, NEW i1, NEW i2, NEW i3, NEW i4, NEW i5, NEW i6,
                    NEW i7, NEW i8, NEW i9, NEW i10, NEW i11,
                    Legal(l, s, i1), Legal(l, s, i2), Legal(l, s, i3), Legal(l, s, i4),
                    Legal(l, s, i5), Legal(l, s, i6), Legal(l, s, i7), Legal(l, s, i8),
                    Legal(l, s, i9), Legal(l, s, i10), Legal(l, s, i11)
             PROVE  Within(l, s, <<i1, i2, i3, i4, i5, i6, i7, i8, i9, i10, i11>>)
  OBVIOUS
<1> DEFINE p == <<i1, i2, i3, i4, i5, i6, i7, i8, i9, i10, i11>>
<1>1. p \in Seq({i1, i2, i3, i4, i5, i6, i7, i8, i9, i10, i11}) /\ Len(p) = 11
  OBVIOUS
<1>2. \A k \in 1 .. 11 : Legal(l, s, p[k])
  OBVIOUS
<1> QED BY <1>1, <1>2, LegalCalls

LEMMA Channeled ==
    \A l, s : \A ch \in Channels :
        /\ Legal(l, s, Daq_Open(ch)) /\ Legal(l, s, Daq_Close(ch)) /\ Legal(l, s, Daq_Stop(ch))
        /\ ch \in l.channels => Legal(l, s, Daq_Start(ch)) /\ Legal(l, s, Daq_Read(ch))
  BY PlainLegal DEF Plain, Fits, Granted, Daq_Open, Daq_Close, Daq_Start, Daq_Stop,
     Daq_Read

LEMMA Stated ==
    \A l, s :
        /\ \A ds : Legal(l, s, LoopMultiRoc(ds))
        /\ \A d \in Dacs, v \in Expressions : Legal(l, s, SetDAC(d, v))
        /\ \A r \in Rocs, d \in Dacs : Legal(l, s, Restore(r, d))
        /\ \A r \in Rocs, d \in Dacs, x \in Locals : Legal(l, s, Keep(x, r, d))
        /\ Legal(l, s, Pg_Stop) /\ Legal(l, s, Pg_Single)
        /\ "loop" \in l.does => Legal(l, s, Pg_Loop)
        /\ "power" \in l.does => \A x \in {Pon, Poff, HVon, HVoff} : Legal(l, s, x)
        /\ \A x \in {"pg", "other"} : Legal(l, s, Trigger_Select(x))
        /\ \A x \in {"tuned", "scan", "new", "phase"} : Legal(l, s, Sig_SetDelay(x))
        /\ \A x \in {"tuned", "new"} : Legal(l, s, SetPhase(x))
        /\ \A x \in {"long", "short"} : Legal(l, s, SetTimeout(x))
<1>1. \A l, s : \A ds : Legal(l, s, LoopMultiRoc(ds))
  BY PlainLegal DEF Plain, Fits, Granted, LoopMultiRoc
<1>7. \A l, s : \A d \in Dacs, v \in Expressions : Legal(l, s, SetDAC(d, v))
  BY PlainLegal DEF Plain, Fits, Granted, SetDAC
<1>8. \A l, s : \A r \in Rocs, d \in Dacs : Legal(l, s, Restore(r, d))
  BY <1>7 DEF Restore, Expressions
<1>2. \A l, s : \A r \in Rocs, d \in Dacs, x \in Locals : Legal(l, s, Keep(x, r, d))
  BY PlainLegal DEF Plain, Fits, Granted, Keep
<1>3. \A l, s : /\ Legal(l, s, Pg_Stop) /\ Legal(l, s, Pg_Single)
                /\ \A x \in {"pg", "other"} : Legal(l, s, Trigger_Select(x))
                /\ \A x \in {"tuned", "scan", "new", "phase"} : Legal(l, s, Sig_SetDelay(x))
  BY PlainLegal DEF Plain, Fits, Granted, Pg_Stop, Pg_Single, Send, Trigger_Select,
     Sig_SetDelay, Switch, Positions
<1>4. \A l, s : "loop" \in l.does => Legal(l, s, Pg_Loop)
  BY PlainLegal DEF Plain, Fits, Granted, Pg_Loop, Switch, Positions
<1>5. \A l, s : "power" \in l.does =>
          Legal(l, s, Pon) /\ Legal(l, s, Poff) /\ Legal(l, s, HVon) /\ Legal(l, s, HVoff)
  BY PlainLegal DEF Plain, Fits, Granted, Pon, Poff, HVon, HVoff, Switch, Positions
<1>6. \A l, s : /\ \A x \in {"tuned", "new"} : Legal(l, s, SetPhase(x))
                /\ \A x \in {"long", "short"} : Legal(l, s, SetTimeout(x))
  BY PlainLegal DEF Plain, Fits, Granted, SetPhase, SetTimeout
<1> QED BY <1>1, <1>2, <1>3, <1>4, <1>5, <1>6, <1>7, <1>8

\* It may change dacval[r][d].
May(l, r, d) == <<r, d>> \in l.copies

LEMMA Copied ==
    \A l, s : \A r \in Rocs, d \in Dacs, v \in Expressions :
        May(l, r, d) => Legal(l, s, SetCopy(r, d, v)) /\ Within(l, s, SetBoth(r, d, v))
<1>1. \A l, s : \A r \in Rocs, d \in Dacs, v \in Expressions :
          May(l, r, d) => Legal(l, s, SetCopy(r, d, v))
  BY PlainLegal DEF Plain, Fits, Granted, SetCopy, May
<1> QED BY <1>1, Stated, Two DEF SetBoth

LEMMA Controls ==
    /\ \A l, s, p : Within(l, s, p) =>
          /\ Legal(l, s, Call(p)) /\ Legal(l, s, Try(p)) /\ Legal(l, s, Again(p))
          /\ Legal(l, s, Maybe(p)) /\ Within(l, s, Some(p))
    /\ \A l, s, p, q : Within(l, s, p) /\ Within(l, s, q) => Legal(l, s, Either(<<p, q>>))
<1>1. \A l, s, p : Within(l, s, p) =>
          Legal(l, s, Call(p)) /\ Legal(l, s, Try(p)) /\ Legal(l, s, Again(p))
  BY WithinCalls
<1>2. \A l, s, p, q : Within(l, s, p) /\ Within(l, s, q) => Legal(l, s, Either(<<p, q>>))
  <2> SUFFICES ASSUME NEW l, NEW s, NEW p, NEW q, Within(l, s, p), Within(l, s, q)
               PROVE  Legal(l, s, Either(<<p, q>>))
    OBVIOUS
  <2>1. \A k \in DOMAIN <<p, q>> : Within(l, s, <<p, q>>[k])
    OBVIOUS
  <2> QED BY <2>1, Ways
<1>3. \A l, s, p : Within(l, s, p) => Legal(l, s, Maybe(p)) /\ Within(l, s, Some(p))
  BY <1>1, <1>2, NoCalls, One, Join DEF Maybe, Some
<1> QED BY <1>1, <1>2, <1>3

\* What the procedures name.

LEMMA Zero == 0 \in Rocs /\ 0 \in Channels /\ ChannelOf(0) = 0
<1>1. 0 \in Rocs /\ 0 \in Channels
  BY CallsAssumption DEF Rocs, Channels
<1>2. ChannelOf(0) = 0
  <2>1. PICK n \in 1 .. MaxRoc + 1 : n * NChannels = MaxRoc + 1
    BY CallsAssumption
  <2>2. n \in Nat /\ n > 0 /\ NChannels \in Nat /\ NChannels > 0 /\ MaxRoc \in Nat
    BY CallsAssumption
  <2>3. (MaxRoc + 1) \div NChannels = n
    BY <2>1, <2>2, Z3T(60)
  <2>4. 0 \div n = 0
    BY <2>2, Z3T(60)
  <2> QED BY <2>3, <2>4 DEF ChannelOf
<1> QED BY <1>1, <1>2
LEMMA Named ==
    {"Vana", "Vcal", "Vtrim", "VthrComp", "PHOffset", "PHScale", "CalDel", "CtrlReg"}
        \subseteq Dacs
  BY NamesAssumption
LEMMA Shown ==
    /\ {Scan, New, Lost} \subseteq Expressions
    /\ \A x \in Locals : Kept(x) \in Expressions
    /\ \A r \in Rocs, d \in Dacs : Copy(r, d) \in Expressions
  BY DEF Expressions, Values

LEMMA Listed ==
    \A l, s, p : \A n \in Nat : p = [k \in 1 .. n |-> p[k]] /\ (\A k \in 1 .. n : Legal(l, s, p[k]))
        => Within(l, s, p)
<1> SUFFICES ASSUME NEW l, NEW s, NEW p, NEW n \in Nat, p = [k \in 1 .. n |-> p[k]],
                    \A k \in 1 .. n : Legal(l, s, p[k])
             PROVE  Within(l, s, p)
  OBVIOUS
<1>1. p \in Seq({p[k] : k \in 1 .. n})
  BY SeqDef
<1>2. Len(p) = n
  BY <1>1
<1> QED BY <1>1, <1>2, LegalCalls

LEMMA Chosen ==
    \A l, s : \A t \in Selections : t \in l.selects => Legal(l, s, Select(t))
<1> SUFFICES ASSUME NEW l, NEW s, NEW t \in Selections, t \in l.selects
             PROVE  Legal(l, s, Select(t))
  OBVIOUS
<1> DEFINE i == Select(t)
<1>1. i.do = "select" /\ i.of = t
  BY DEF Select
<1> HIDE DEF i
<1>2. Leads(i, s) = {} /\ Fits(i) /\ Granted(l, i)
  BY <1>1 DEF Leads, Fits, Granted
<1>3. Good(l, s, {i})
  BY <1>1, <1>2 DEF Good
<1> QED BY <1>3 DEF Legal, i

LEMMA Variables == {"val", "ctl"} \subseteq Locals
  BY DEF Locals

LEMMA Shared ==
    \A l, s : /\ Within(l, s, Arm) /\ Within(l, s, MaskPixel) /\ Within(l, s, MaskRoc)
              /\ \A ch \in Channels : ch \in l.channels => Within(l, s, ReadAll(ch))
  BY One, Two, Three, Join, Requests, Controls, Channeled DEF Arm, MaskPixel, MaskRoc, ReadAll

LEMMA LegalMaskSelected == \A l : \A s \in SUBSET Rocs : Within(l, s, MaskSelected)
  BY One, Two, Join, Requests, Addressed, Shared, SelectedRounds DEF MaskSelected

\* It is there for the pulse height of ROC r.
MayTune(l, r) == "return" \in l.does /\ May(l, r, "PHOffset") /\ May(l, r, "PHScale")
\* It is there for all that a test of a chip finds.
MayFind(l) ==
    /\ "return" \in l.does
    /\ \A d \in {"Vana", "CalDel", "VthrComp", "PHOffset", "PHScale", "CtrlReg"} : May(l, 0, d)
\* The module test.
MayAll(l, s) ==
    /\ s = Rocs /\ Rocs \in l.selects /\ {"power", "return"} \subseteq l.does
    /\ \A r \in Rocs, d \in Dacs : May(l, r, d)

-----------------------------------------------------------------------------
\* The procedures, one after the other: RocTests, ModuleTests, DataTaking,
\* Tuning, Settings and TestSequences.

LEMMA LegalGetPixData ==
    \A l : \A s \in SUBSET Rocs : \A r \in Rocs :
        ChannelOf(r) \in l.channels => Within(l, s, GetPixData(r))
  BY One, Seven, Join, Addressed, Shared, Requests, Channeled, ChannelOfRoc
  DEF GetPixData, Ask

LEMMA LegalFire ==
    \A l : \A s \in SUBSET Rocs : 0 \in l.channels => Within(l, s, fire)
  BY One, Eight, Join, Shared, Requests, Channeled, Controls, Stated, Zero
  DEF fire, Ask

LEMMA LegalFire2 ==
    \A l : \A s \in SUBSET Rocs : 0 \in l.channels => Within(l, s, fire2)
  BY One, Nine, Join, Shared, Requests, Channeled, Controls, Stated, Zero
  DEF fire2, Ask

LEMMA LegalDacScanPix ==
    \A l : \A s \in SUBSET Rocs : \A r \in Rocs, d \in Dacs :
        ChannelOf(r) \in l.channels => Within(l, s, DacScanPix(r, d))
  BY One, Ten, Join, ChannelOfRoc, Addressed, Shared, Requests, Channeled, Stated, Variables,
     Controls, Shown
  DEF DacScanPix, Ask

LEMMA LegalThrPix ==
    \A l : \A s \in SUBSET Rocs : \A r \in Rocs, d \in Dacs :
        ChannelOf(r) \in l.channels => Within(l, s, ThrPix(r, d))
  BY LegalDacScanPix
  DEF ThrPix

LEMMA LegalSetcaldel ==
    \A l : \A s \in SUBSET Rocs :
        \A r \in Rocs : May(l, r, "CalDel") /\ ChannelOf(r) \in l.channels
            => Within(l, s, setcaldel(r))
  BY One, Two, Three, Controls, LegalDacScanPix, Named, Copied, Shown, Stated, Requests
  DEF setcaldel

LEMMA LegalCaldel ==
    \A l : \A s \in SUBSET Rocs : May(l, 0, "CalDel") /\ 0 \in l.channels
            => Within(l, s, caldel)
  BY One, Controls, LegalSetcaldel, Zero
  DEF caldel

LEMMA LegalCaldelmap ==
    \A l : \A s \in SUBSET Rocs : 0 \in l.channels => Within(l, s, caldelmap)
  BY One, Two, Four, Five, Join, Stated, Named, Shown, Controls, Requests, LegalThrPix, Zero
  DEF caldelmap

LEMMA LegalPhdac ==
    \A l : \A s \in SUBSET Rocs : \A r \in Rocs :
        ChannelOf(r) \in l.channels => Within(l, s, phdac(r))
  BY One, Controls, LegalDacScanPix, Ways
  DEF phdac, AnyOf, Scannable

LEMMA LegalCalsdacOf ==
    \A l : \A s \in SUBSET Rocs : \A d \in Dacs : 0 \in l.channels => Within(l, s, calsdacOf(d))
  BY Four, Stated, Named, Shown, Controls, LegalDacScanPix, Requests, Zero
  DEF calsdacOf

LEMMA LegalCalsdac ==
    \A l : \A s \in SUBSET Rocs : 0 \in l.channels => Within(l, s, calsdac)
  BY One, LegalCalsdacOf, Ways
  DEF calsdac, AnyOf, Scannable

LEMMA LegalEffvsdac ==
    \A l : \A s \in SUBSET Rocs : \A r \in Rocs, d \in Dacs :
        ChannelOf(r) \in l.channels => Within(l, s, effvsdac(r, d))
  BY LegalDacScanPix
  DEF effvsdac

LEMMA LegalEffdac ==
    \A l : \A s \in SUBSET Rocs : \A r \in Rocs :
        ChannelOf(r) \in l.channels => Within(l, s, effdac(r))
  BY One, Controls, LegalEffvsdac, Ways
  DEF effdac, AnyOf, Scannable

LEMMA LegalThrdacOf ==
    \A l : \A s \in SUBSET Rocs : \A d \in Dacs : 0 \in l.channels => Within(l, s, thrdacOf(d))
  BY One, Three, Six, Join, Stated, Named, Shown, Shared, Requests, Controls, LegalThrPix,
     Zero
  DEF thrdacOf

LEMMA LegalThrdac ==
    \A l : \A s \in SUBSET Rocs : 0 \in l.channels => Within(l, s, thrdac)
  BY One, LegalThrdacOf, Ways
  DEF thrdac, AnyOf, Scannable

LEMMA LegalModthrdacOf ==
    \A l : \A s \in SUBSET Rocs : \A d \in Dacs :
        0 \in l.channels => Within(l, s, modthrdacOf(d))
  BY Three, Join, Addressed, Stated, Named, Shown, Requests, Controls, LegalThrPix, Zero
  DEF modthrdacOf

LEMMA LegalModthrdac ==
    \A l : \A s \in SUBSET Rocs : 0 \in l.channels => Within(l, s, modthrdac)
  BY One, LegalModthrdacOf, Ways
  DEF modthrdac, AnyOf, Scannable

LEMMA LegalGetEff ==
    \A l : \A s \in SUBSET Rocs : 0 \in l.channels => Within(l, s, GetEff)
  BY One, Four, Controls, Addressed, Channeled, Requests, Shared, Zero
  DEF GetEff, Ask

LEMMA LegalGetRocData ==
    \A l : \A s \in SUBSET Rocs : 0 \in l.channels => Within(l, s, GetRocData)
  BY One, Join, Channeled, Shared, Requests, LegalGetEff, Zero
  DEF GetRocData

LEMMA LegalGeteffmap ==
    \A l : \A s \in SUBSET Rocs : 0 \in l.channels => Within(l, s, geteffmap)
  BY One, Controls, LegalGetRocData
  DEF geteffmap

LEMMA LegalEffmap ==
    \A l : \A s \in SUBSET Rocs : 0 \in l.channels => Within(l, s, effmap)
  BY One, Controls, LegalGeteffmap
  DEF effmap

LEMMA LegalPhmap ==
    \A l : \A s \in SUBSET Rocs : 0 \in l.channels => Within(l, s, phmap)
  BY One, Controls, LegalGetRocData
  DEF phmap

LEMMA LegalCalsmap ==
    \A l : \A s \in SUBSET Rocs : 0 \in l.channels => Within(l, s, calsmap)
  BY One, Controls, LegalGetRocData
  DEF calsmap

LEMMA LegalBbtest ==
    \A l : \A s \in SUBSET Rocs : 0 \in l.channels => Within(l, s, bbtest)
  BY Seven, Stated, Named, Shown, Requests, Controls, LegalGetRocData, Zero
  DEF bbtest

LEMMA LegalCalDelRoc ==
    \A l : \A s \in SUBSET Rocs : May(l, 0, "CalDel") /\ 0 \in l.channels
            => Within(l, s, CalDelRoc)
  BY One, Two, Three, Four, Join, Shared, Requests, Controls, Stated, Named, Shown, Channeled,
     LegalGetEff, Copied, Zero
  DEF CalDelRoc

LEMMA LegalCaldelroc ==
    \A l : \A s \in SUBSET Rocs : May(l, 0, "CalDel") /\ 0 \in l.channels
            => Within(l, s, caldelroc)
  BY One, Controls, LegalCalDelRoc
  DEF caldelroc

LEMMA LegalVanaroc ==
    \A l : \A s \in SUBSET Rocs : 0 \in l.channels => Within(l, s, vanaroc)
  BY One, Two, Five, Join, Shared, Requests, Controls, Stated, Named, Shown, Channeled,
     LegalGetEff, Zero
  DEF vanaroc, Ask

LEMMA LegalGaindac ==
    \A l : \A s \in SUBSET Rocs : 0 \in l.channels => Within(l, s, gaindac)
  BY Two, Four, Join, Controls, Stated, Named, Shown, Channeled, Requests, LegalGetRocData,
     Zero
  DEF gaindac

LEMMA LegalRocThrMap ==
    \A l : \A s \in SUBSET Rocs : \A r \in Rocs : 0 \in l.channels => Within(l, s, RocThrMap(r))
  BY One, Two, Three, Join, Addressed, Requests, Controls, LegalThrPix, Named, Stated, Zero
  DEF RocThrMap

LEMMA LegalThrmap ==
    \A l : \A s \in SUBSET Rocs : 0 \in l.channels => Within(l, s, thrmap)
  BY One, Five, SelectedRounds, Addressed, Stated, Named, Shown, Controls, LegalRocThrMap,
     Requests
  DEF thrmap

LEMMA LegalThrmapsc ==
    \A l : \A s \in SUBSET Rocs : 0 \in l.channels => Within(l, s, thrmapsc)
  BY One, Three, Five, Join, Stated, Named, Shown, Shared, Requests, Controls, Channeled,
     Addressed, Zero
  DEF thrmapsc, Ask

LEMMA LegalScanvthr ==
    \A l : \A s \in SUBSET Rocs : 0 \in l.channels => Within(l, s, scanvthr)
  BY Two, Three, Four, Join, Addressed, Stated, Named, Shown, Requests, Controls,
     LegalRocThrMap, Zero
  DEF scanvthr

LEMMA LegalDacscanroc ==
    \A l : \A s \in SUBSET Rocs : \A d \in Dacs :
        0 \in l.channels => Within(l, s, dacscanroc(d))
  BY One, Two, Five, Join, Shared, Controls, Stated, Named, Shown, Requests, Channeled,
     Addressed, Zero
  DEF dacscanroc, Ask

LEMMA LegalDacscanrocCommand ==
    \A l : \A s \in SUBSET Rocs : 0 \in l.channels => Within(l, s, dacscanrocCommand)
  BY One, Controls, LegalDacscanroc, Ways
  DEF dacscanrocCommand, AnyOf, Scannable

LEMMA LegalDacdac ==
    \A l : \A s \in SUBSET Rocs :
        \A d1, d2 \in Dacs :
            /\ d1 = "CalDel" /\ d2 = "VthrComp" => May(l, 0, d1) /\ May(l, 0, d2)
            /\ 0 \in l.channels
            => Within(l, s, dacdac(d1, d2))
  BY NoCalls, One, Four, Six, Join, Channeled, Shared, Requests, Controls, Addressed, Stated,
     Named, Copied, Shown, Zero
  DEF dacdac, Ask

LEMMA LegalDacdacCommand ==
    \A l : \A s \in SUBSET Rocs :
        May(l, 0, "CalDel") /\ May(l, 0, "VthrComp") /\ 0 \in l.channels
            => Within(l, s, dacdacCommand)
  BY One, Controls, LegalDacdac, Ways
  DEF dacdacCommand, AnyOf, Scannable

LEMMA LegalReadback ==
    \A l : \A s \in SUBSET Rocs : 0 \in l.channels => Within(l, s, readback)
  BY One, Five, Stated, Channeled, Controls, Zero
  DEF readback

LEMMA LegalLoadTrims ==
    \A l : \A s \in SUBSET Rocs : Within(l, s, LoadTrims)
  BY Two, SelectedRounds, Addressed, Requests
  DEF LoadTrims

LEMMA LegalStartChannels ==
    \A l : \A s \in SUBSET Rocs : Channels \subseteq l.channels => Within(l, s, StartChannels)
  BY One, Channeled, NoCalls, AllRounds
  DEF StartChannels, ForChannels

LEMMA LegalStopChannels ==
    \A l : \A s \in SUBSET Rocs : Within(l, s, StopChannels)
  BY One, Channeled, NoCalls, AllRounds
  DEF StopChannels, ForChannels

LEMMA LegalReadChannels ==
    \A l : \A s \in SUBSET Rocs : Channels \subseteq l.channels => Within(l, s, ReadChannels)
  BY Three, Requests, Channeled, Controls, Shared, One, NoCalls, AllRounds
  DEF ReadChannels, Ask, ForChannels

LEMMA LegalScanBlocks ==
    \A l : \A s \in SUBSET Rocs : \A ds :
        Channels \subseteq l.channels => Within(l, s, ScanBlocks(ds))
  BY One, Join, Controls, LegalStartChannels, Stated, LegalReadChannels
  DEF ScanBlocks

LEMMA LegalEnableSelected ==
    \A l : \A s \in SUBSET Rocs : Within(l, s, EnableSelected)
  BY Two, Join, SelectedRounds, Addressed, Requests, Shared
  DEF EnableSelected

LEMMA LegalModcaldel ==
    \A l : \A s \in SUBSET Rocs :
        (\A r \in s : May(l, r, "CalDel")) /\ Channels \subseteq l.channels
            => Within(l, s, modcaldel)
  BY One, SelectedRounds, Controls, LegalSetcaldel, ChannelOfRoc
  DEF modcaldel

LEMMA LegalModpixsc ==
    \A l : \A s \in SUBSET Rocs : Channels \subseteq l.channels => Within(l, s, modpixsc)
  BY One, Two, Three, Join, SelectedRounds, Addressed, Stated, Named, Shown, Shared, Requests,
     LegalStartChannels, Controls, LegalReadChannels
  DEF modpixsc

LEMMA LegalDacScanMod ==
    \A l : \A s \in SUBSET Rocs : \A d \in Dacs :
        Channels \subseteq l.channels => Within(l, s, DacScanMod(d))
  BY Two, Three, Join, LegalLoadTrims, LegalScanBlocks, SelectedRounds, Addressed, Stated,
     Named, Shown, Shared, Requests
  DEF DacScanMod

LEMMA LegalDacscanmod ==
    \A l : \A s \in SUBSET Rocs : \A ds \in SUBSET Dacs :
        Channels \subseteq l.channels => Within(l, s, dacscanmod(ds))
  BY One, Controls, LegalDacScanMod, Ways
  DEF dacscanmod, AnyOf

LEMMA LegalModThrMap ==
    \A l : \A s \in SUBSET Rocs : Channels \subseteq l.channels => Within(l, s, ModThrMap)
  BY Two, Three, Join, SelectedRounds, Addressed, Stated, Named, Shown, Requests,
     LegalScanBlocks, Shared
  DEF ModThrMap

LEMMA LegalModthrmap ==
    \A l : \A s \in SUBSET Rocs : Channels \subseteq l.channels => Within(l, s, modthrmap)
  BY One, Controls, LegalModThrMap
  DEF modthrmap

LEMMA LegalModPixelAlive ==
    \A l : \A s \in SUBSET Rocs : Channels \subseteq l.channels => Within(l, s, ModPixelAlive)
  BY Join, LegalLoadTrims, LegalScanBlocks, LegalMaskSelected
  DEF ModPixelAlive

LEMMA LegalModMap ==
    \A l : \A s \in SUBSET Rocs : Channels \subseteq l.channels => Within(l, s, ModMap)
  BY One, Controls, LegalModPixelAlive
  DEF ModMap

LEMMA LegalModmap ==
    \A l : \A s \in SUBSET Rocs : Channels \subseteq l.channels => Within(l, s, modmap)
  BY One, Controls, LegalModMap
  DEF modmap

LEMMA LegalDopen ==
    \A l : \A s \in SUBSET Rocs : Within(l, s, dopen)
  BY One, Channeled, Ways
  DEF dopen, AnyOf

LEMMA LegalDclose ==
    \A l : \A s \in SUBSET Rocs : Within(l, s, dclose)
  BY One, Two, Controls, Channeled, Requests, NoCalls, AllRounds, Ways
  DEF dclose, ForChannels, AnyOf

LEMMA LegalDreset ==
    \A l : \A s \in SUBSET Rocs : Within(l, s, dreset)
  BY Two, Requests
  DEF dreset

LEMMA LegalDstart ==
    \A l : \A s \in SUBSET Rocs : Channels \subseteq l.channels => Within(l, s, dstart)
  BY One, Two, Channeled, Requests, Ways
  DEF dstart, AnyOf

LEMMA LegalDstop ==
    \A l : \A s \in SUBSET Rocs : Within(l, s, dstop)
  BY One, Two, Controls, LegalStopChannels, Channeled, Requests, Ways
  DEF dstop, AnyOf

LEMMA LegalDsize ==
    \A l : \A s \in SUBSET Rocs : Within(l, s, dsize)
  BY One, Requests
  DEF dsize, Ask

LEMMA LegalDread ==
    \A l : \A s \in SUBSET Rocs : 0 \in l.channels => Within(l, s, dread)
  BY One, Channeled, Zero
  DEF dread

LEMMA LegalDreadm ==
    \A l : \A s \in SUBSET Rocs : Channels \subseteq l.channels => Within(l, s, dreadm)
  BY One, Channeled, Ways
  DEF dreadm, AnyOf

LEMMA LegalTakedataPeriod ==
    \A l : \A s \in SUBSET Rocs : "loop" \in l.does =>
        \A period \in {1, 2} : 0 \in l.channels => Within(l, s, takedataPeriod(period))
  BY NoCalls, One, Two, Six, Join, Channeled, Stated, Requests, Controls, Zero
  DEF takedataPeriod

LEMMA LegalTakedata ==
    \A l : \A s \in SUBSET Rocs : "loop" \in l.does /\ 0 \in l.channels
            => Within(l, s, takedata)
  BY One, LegalTakedataPeriod, Ways
  DEF takedata, AnyOf

LEMMA LegalTdscan ==
    \A l : \A s \in SUBSET Rocs : 0 \in l.channels => Within(l, s, tdscan)
  BY One, Three, Four, Eight, Join, Stated, Requests, Controls, Named, Shown, Channeled, Zero
  DEF tdscan, Ask

LEMMA LegalOnevst ==
    \A l : \A s \in SUBSET Rocs : "loop" \in l.does /\ 0 \in l.channels => Within(l, s, onevst)
  BY One, Six, Nine, Join, Shared, Requests, Channeled, Stated, Controls, Zero
  DEF onevst

LEMMA LegalModtdPeriod ==
    \A l : \A s \in SUBSET Rocs : "loop" \in l.does =>
        \A period \in {1, 2} :
        Channels \subseteq l.channels => Within(l, s, modtdPeriod(period))
  BY NoCalls, One, Two, Join, LegalStartChannels, Stated, Requests, Controls,
     LegalStopChannels, Channeled, AllRounds
  DEF modtdPeriod, ForChannels

LEMMA LegalModtd ==
    \A l : \A s \in SUBSET Rocs : "loop" \in l.does /\ Channels \subseteq l.channels
            => Within(l, s, modtd)
  BY One, LegalModtdPeriod, Ways
  DEF modtd, AnyOf

LEMMA LegalTbmscan ==
    \A l : \A s \in SUBSET Rocs : Channels \subseteq l.channels => Within(l, s, tbmscan)
  BY One, Three, Join, Stated, Controls, Requests, LegalStartChannels, LegalStopChannels,
     Channeled, Zero, NoCalls, AllRounds
  DEF tbmscan, ForChannels

LEMMA LegalTbmscant ==
    \A l : \A s \in SUBSET Rocs : Channels \subseteq l.channels => Within(l, s, tbmscant)
  BY One, Four, Join, LegalEnableSelected, Stated, LegalStartChannels, Controls, Requests,
     Channeled, LegalStopChannels, LegalMaskSelected, NoCalls, AllRounds
  DEF tbmscant, ForChannels

LEMMA LegalSetia ==
    \A l : \A s \in SUBSET Rocs : May(l, 0, "Vana") => Within(l, s, setia)
  BY One, Two, Three, Join, Controls, Copied, Named, Shown, Requests, Zero
  DEF setia, Ask

LEMMA LegalOptia ==
    \A l : \A s \in SUBSET Rocs : May(l, 0, "Vana") => Within(l, s, optia)
  BY One, Controls, LegalSetia
  DEF optia

LEMMA LegalSetiamod ==
    \A l : \A s \in SUBSET Rocs : (\A r \in s : May(l, r, "Vana")) => Within(l, s, setiamod)
  BY Two, Three, Four, Five, Seven, AllRounds, Addressed, Stated, Named, Shown, Requests,
     SelectedRounds, Controls, Copied
  DEF setiamod, Ask

LEMMA LegalOptiamod ==
    \A l : \A s \in SUBSET Rocs : (\A r \in s : May(l, r, "Vana")) => Within(l, s, optiamod)
  BY One, Controls, LegalSetiamod
  DEF optiamod

LEMMA LegalAllTrims ==
    \A l : \A s \in SUBSET Rocs : "trims" \in l.does =>
        Within(l, s, AllTrims)
  BY Two, Three, SelectedRounds, Addressed, Requests
  DEF AllTrims

LEMMA LegalModvthrcomp ==
    \A l : \A s \in SUBSET Rocs : "trims" \in l.does /\
        (\A r \in s : May(l, r, "VthrComp")) /\ Channels \subseteq l.channels
            => Within(l, s, modvthrcomp)
  BY Two, Three, Join, LegalAllTrims, Controls, LegalModThrMap, SelectedRounds, Addressed,
     Stated, Named, Shown, Requests, LegalThrPix, Copied, ChannelOfRoc
  DEF modvthrcomp

LEMMA LegalModvtrim ==
    \A l : \A s \in SUBSET Rocs : "trims" \in l.does /\
        (\A r \in s : May(l, r, "Vtrim")) /\ Channels \subseteq l.channels
            => Within(l, s, modvtrim)
  BY One, Two, Three, Join, LegalAllTrims, Controls, LegalModThrMap, SelectedRounds,
     Addressed, Stated, Named, Shown, Requests, LegalThrPix, Copied, Shared, ChannelOfRoc
  DEF modvtrim

LEMMA LegalModtrimscale ==
    \A l : \A s \in SUBSET Rocs : "trims" \in l.does /\ Channels \subseteq l.channels
            => Within(l, s, modtrimscale)
  BY One, Two, Join, LegalAllTrims, Controls, LegalModThrMap, SelectedRounds, Addressed,
     LegalLoadTrims
  DEF modtrimscale

LEMMA LegalModtrimstep ==
    \A l : \A s \in SUBSET Rocs : "trims" \in l.does /\ Channels \subseteq l.channels
            => Within(l, s, modtrimstep)
  BY One, Two, Join, LegalLoadTrims, Controls, LegalModThrMap, SelectedRounds, Addressed
  DEF modtrimstep

LEMMA LegalNoiseRun ==
    \A l : \A s \in SUBSET Rocs : "loop" \in l.does /\ Channels \subseteq l.channels
            => Within(l, s, NoiseRun)
  BY One, Two, Join, LegalStartChannels, Stated, Requests, Controls, Channeled,
     LegalStopChannels, Zero, NoCalls, AllRounds
  DEF NoiseRun, ForChannels

LEMMA LegalRaiseTrims ==
    \A l : \A s \in SUBSET Rocs : "trims" \in l.does =>
        Within(l, s, RaiseTrims)
  BY One, Two, Three, SelectedRounds, Controls, Addressed, Requests
  DEF RaiseTrims

LEMMA LegalModtrimbits ==
    \A l : \A s \in SUBSET Rocs :
        {"loop", "trims"} \subseteq l.does /\ Channels \subseteq l.channels => Within(l, s, modtrimbits)
  BY Join, LegalEnableSelected, Controls, LegalNoiseRun, LegalRaiseTrims, LegalMaskSelected
  DEF modtrimbits

LEMMA LegalSubtb ==
    \A l : \A s \in SUBSET Rocs : "trims" \in l.does =>
        Within(l, s, subtb)
  BY One, SelectedRounds, Controls, Addressed
  DEF subtb

LEMMA LegalModnoise ==
    \A l : \A s \in SUBSET Rocs :
        {"loop", "trims"} \subseteq l.does /\ Channels \subseteq l.channels => Within(l, s, modnoise)
  BY Join, LegalEnableSelected, Controls, LegalNoiseRun, LegalRaiseTrims, LegalMaskSelected
  DEF modnoise

LEMMA LegalTried ==
    \A l : \A s \in SUBSET Rocs : \A d \in Dacs : Within(l, s, Tried(d))
  BY Two, Stated, Shown, Requests
  DEF Tried

LEMMA LegalAtVcal ==
    \A l : \A s \in SUBSET Rocs : Within(l, s, AtVcal)
  BY Two, Stated, Named, Shown, Requests
  DEF AtVcal

LEMMA LegalTunePHScans ==
    \A l : \A s \in SUBSET Rocs : \A r \in Rocs :
        ChannelOf(r) \in l.channels => Within(l, s, tunePHScans(r))
  BY One, Eight, Join, Stated, Named, Shown, Requests, Controls, LegalDacScanPix, LegalTried,
     LegalAtVcal
  DEF tunePHScans

LEMMA LegalTunePHPixels ==
    \A l : \A s \in SUBSET Rocs : 0 \in l.channels => Within(l, s, tunePHPixels)
  BY One, Two, Join, LegalAtVcal, Controls, LegalGetRocData, LegalTried, Named
  DEF tunePHPixels

LEMMA LegalTunePHEnd ==
    \A l : \A s \in SUBSET Rocs : \A r \in Rocs : MayTune(l, r) /\ ChannelOf(r) \in l.channels
            => Within(l, s, tunePHEnd(r))
  BY One, Five, Join, LegalAtVcal, Controls, LegalGetPixData, LegalTried, Named, Copied,
     Shown, Stated, Requests
  DEF tunePHEnd, MayTune

LEMMA LegalTunePH ==
    \A l : \A s \in SUBSET Rocs : \A r \in Rocs :
        MayTune(l, r) /\ {0, ChannelOf(r)} \subseteq l.channels => Within(l, s, tunePH(r))
  BY One, Two, Join, Controls, LegalDacScanPix, Named, Requests, LegalTunePHScans,
     LegalTunePHPixels, LegalTunePHEnd
  DEF tunePH, MayTune

LEMMA LegalTune ==
    \A l : \A s \in SUBSET Rocs : MayTune(l, 0) /\ 0 \in l.channels => Within(l, s, tune)
  BY One, Controls, LegalTunePH, Zero
  DEF tune

LEMMA LegalTunePHmodPixels ==
    \A l : \A s \in SUBSET Rocs : \A r \in Rocs :
        Channels \subseteq l.channels => Within(l, s, tunePHmodPixels(r))
  BY One, Two, Three, Join, LegalAtVcal, Controls, LegalModPixelAlive, LegalDacScanPix, Named,
     Stated, Shown, LegalTried, ChannelOfRoc
  DEF tunePHmodPixels

LEMMA LegalTunePHmod ==
    \A l : \A s \in SUBSET Rocs : \A r \in Rocs : MayTune(l, r) /\ Channels \subseteq l.channels
            => Within(l, s, tunePHmod(r))
  BY NoCalls, One, Three, Join, Stated, Named, Shown, Requests, Controls, LegalDacScanPix,
     LegalTunePHScans, LegalTunePHmodPixels, LegalTunePHEnd, ChannelOfRoc
  DEF tunePHmod, MayTune

LEMMA LegalSickPixels ==
    \A l : \A s \in SUBSET Rocs : \A p : Within(l, s, p) /\ Channels \subseteq l.channels
            => Within(l, s, SickPixels(p))
  BY One, Three, Join, AllRounds, Addressed, Stated, Named, Shown, Requests, Controls,
     LegalModPixelAlive
  DEF SickPixels

LEMMA LegalModtune ==
    \A l : \A s \in SUBSET Rocs : (\A r \in Rocs : MayTune(l, r)) /\ Channels \subseteq l.channels
            => Within(l, s, modtune)
  BY NoCalls, One, Two, Three, Five, Join, LegalSickPixels, Stated, Named, Shown, AllRounds,
     Addressed, Requests, Controls, LegalTunePHmod
  DEF modtune

LEMMA LegalTrimStep ==
    \A l : \A s \in SUBSET Rocs : "trims" \in l.does /\ 0 \in l.channels
            => Within(l, s, TrimStep)
  BY One, Three, Addressed, Controls, LegalRocThrMap, Zero
  DEF TrimStep

LEMMA LegalSearchVthrComp ==
    \A l : \A s \in SUBSET Rocs : May(l, 0, "VthrComp") /\ 0 \in l.channels
            => Within(l, s, SearchVthrComp)
  BY Two, Three, Four, Join, Shared, Requests, Controls, Stated, Named, Shown, LegalThrPix,
     Copied, Zero
  DEF SearchVthrComp

LEMMA LegalVthrcomp5 ==
    \A l : \A s \in SUBSET Rocs : May(l, 0, "VthrComp") /\ 0 \in l.channels
            => Within(l, s, vthrcomp5)
  BY Two, Three, Join, Addressed, Stated, Named, Shown, Requests, Controls, Shared,
     LegalThrPix, LegalSearchVthrComp, Zero
  DEF vthrcomp5

LEMMA LegalVthrcomp ==
    \A l : \A s \in SUBSET Rocs : May(l, 0, "VthrComp") /\ 0 \in l.channels
            => Within(l, s, vthrcomp)
  BY Three, Join, Addressed, Stated, Named, Shown, Controls, LegalRocThrMap,
     LegalSearchVthrComp, Zero
  DEF vthrcomp

LEMMA LegalTrimStart ==
    \A l : \A s \in SUBSET Rocs : "trims" \in l.does /\ 0 \in l.channels
            => Within(l, s, trimStart)
  BY Four, Addressed, Stated, Named, Shown, Controls, LegalRocThrMap, Zero
  DEF trimStart

LEMMA LegalTrimGoesOn ==
    \A l : \A s \in SUBSET Rocs : "trims" \in l.does /\
        May(l, 0, "Vtrim") /\ 0 \in l.channels
            => Within(l, s, trimGoesOn)
  BY Three, Ten, Join, Addressed, Requests, Controls, Stated, Named, Shown, LegalThrPix,
     Copied, Shared, LegalTrimStep, Zero
  DEF trimGoesOn

LEMMA LegalTrim ==
    \A l : \A s \in SUBSET Rocs : "trims" \in l.does =>
        \A skips \in BOOLEAN : May(l, 0, "Vtrim") /\ 0 \in l.channels
            => Within(l, s, trim(skips))
  BY One, Join, LegalTrimStart, Controls, LegalTrimGoesOn
  DEF trim

LEMMA LegalTrimbits ==
    \A l : \A s \in SUBSET Rocs : "trims" \in l.does /\ 0 \in l.channels
            => Within(l, s, trimbits)
  BY Three, Four, Addressed, Controls, LegalGetRocData, Requests, LegalGetPixData, Zero
  DEF trimbits

LEMMA LegalCommand ==
    \A l : \A s \in SUBSET Rocs : \A p : Within(l, s, p) => Within(l, s, Command(p))
  BY One, Join, Requests
  DEF Command

LEMMA LegalUpdateDTB ==
    \A l : \A s \in SUBSET Rocs : "return" \in l.does =>
        Within(l, s, UpdateDTB)
  BY One, Two, Eleven, Requests, Controls
  DEF UpdateDTB, Ask

LEMMA LegalUpgrade ==
    \A l : \A s \in SUBSET Rocs : "return" \in l.does =>
        Within(l, s, upgrade)
  BY One, Controls, LegalUpdateDTB
  DEF upgrade

LEMMA LegalInformation ==
    \A l : \A s \in SUBSET Rocs : Within(l, s, information)
  BY One, Controls, Requests
  DEF information, Ask

LEMMA LegalTbmgetraw ==
    \A l : \A s \in SUBSET Rocs : Within(l, s, tbmgetraw)
  BY One, Two, Join, Requests, Controls
  DEF tbmgetraw, Ask

LEMMA LegalClk ==
    \A l : \A s \in SUBSET Rocs : Within(l, s, clk)
  BY Two, LegalCommand, Stated
  DEF clk

LEMMA LegalTrgsel ==
    \A l : \A s \in SUBSET Rocs : Within(l, s, trgsel)
  BY One, LegalCommand, Stated, Ways
  DEF trgsel, AnyOf

LEMMA LegalSelect ==
    \A l : \A s \in SUBSET Rocs :
        "trims" \in l.does /\ (\A t \in Selections : t \in l.selects) =>
        Within(l, s, select)
<1> SUFFICES ASSUME NEW l, NEW s \in SUBSET Rocs, "trims" \in l.does,
                    \A t \in Selections : t \in l.selects
             PROVE  Within(l, s, select)
  OBVIOUS
<1> DEFINE Ranges == {t \in SUBSET Rocs : t # {} /\ \A r \in Rocs :
                         (\E a, b \in t : a <= r /\ r <= b) => r \in t}
<1>1. \A t \in Selections : Legal(l, s, Select(t))
  BY Chosen
<1>2. Ranges \subseteq Selections
  BY DEF Selections
<1> HIDE DEF Ranges
<1>3. Legal(l, s, AnyOf(Ranges, LAMBDA t : <<Select(t)>>))
  BY <1>1, <1>2, One, Ways DEF AnyOf
<1>4. Legal(l, s, OnSelected(LAMBDA r : <<SetOtherTrims(r)>>))
  BY One, Addressed, Join, SelectedRounds DEF OnSelected
<1>5. Legal(l, s, Ask) /\ Legal(l, s, AddrFirst) /\ Legal(l, s, Flush)
  BY Requests DEF Ask
<1>6. Within(l, s, <<AnyOf(Ranges, LAMBDA t : <<Select(t)>>), Ask,
                     OnSelected(LAMBDA r : <<SetOtherTrims(r)>>), AddrFirst, Flush>>)
  BY <1>3, <1>4, <1>5, Five
<1> QED BY <1>6 DEF select, Ranges

LEMMA LegalSeltbm ==
    \A l : \A s \in SUBSET Rocs : Within(l, s, seltbm)
  BY One, LegalCommand, Addressed, Zero, Ways
  DEF seltbm, AnyOf

LEMMA LegalScanPhases ==
    \A l : \A s \in SUBSET Rocs : \A p : Within(l, s, p) /\ 0 \in l.channels
            => Within(l, s, ScanPhases(p))
  BY One, Three, Join, Controls, Stated, Channeled, Requests, Zero
  DEF ScanPhases, Ask

LEMMA LegalDeser160 ==
    \A l : \A s \in SUBSET Rocs : 0 \in l.channels => Within(l, s, deser160)
  BY One, Two, Join, LegalScanPhases, Stated, Controls
  DEF deser160

LEMMA LegalDeserext ==
    \A l : \A s \in SUBSET Rocs : 0 \in l.channels => Within(l, s, deserext)
  BY NoCalls, One, Two, Join, Stated, LegalScanPhases, Controls
  DEF deserext

LEMMA LegalSamples ==
    \A l : \A s \in SUBSET Rocs : "return" \in l.does =>
        \A p : Within(l, s, p) /\ 0 \in l.channels
            => Within(l, s, Samples(p))
  BY One, Two, Three, Join, Controls, Stated, Channeled, Requests, Zero
  DEF Samples

LEMMA LegalShowclk ==
    \A l : \A s \in SUBSET Rocs : "return" \in l.does /\ 0 \in l.channels
            => Within(l, s, showclk)
  BY One, Join, Stated, LegalSamples
  DEF showclk

LEMMA LegalShowctr ==
    \A l : \A s \in SUBSET Rocs : "return" \in l.does /\ 0 \in l.channels
            => Within(l, s, showctr)
  BY One, Join, Stated, LegalSamples
  DEF showctr

LEMMA LegalShowsda ==
    \A l : \A s \in SUBSET Rocs : "return" \in l.does /\ 0 \in l.channels
            => Within(l, s, showsda)
  BY One, LegalSamples, Requests
  DEF showsda

LEMMA LegalGetSdata ==
    \A l : \A s \in SUBSET Rocs : 0 \in l.channels => Within(l, s, GetSdata)
  BY One, Two, Five, Join, Requests, Controls, Stated, Channeled, Zero
  DEF GetSdata

LEMMA LegalSdata ==
    \A l : \A s \in SUBSET Rocs : 0 \in l.channels => Within(l, s, sdata)
  BY One, Controls, LegalGetSdata
  DEF sdata

LEMMA LegalDecoding ==
    \A l : \A s \in SUBSET Rocs : 0 \in l.channels => Within(l, s, decoding)
  BY One, Four, Join, Controls, Stated, Channeled, Zero
  DEF decoding

LEMMA LegalSetDACallROCs ==
    \A l : \A s \in SUBSET Rocs :
        \A d \in Dacs : (\A r \in s : May(l, r, d))
            => Within(l, s, SetDACallROCs(d))
  BY One, Copied, Shown, Join, SelectedRounds, Addressed
  DEF SetDACallROCs, OnSelected

LEMMA LegalDac ==
    \A l : \A s \in SUBSET Rocs :
        (\A r \in s, d \in Dacs : May(l, r, d))
            => Within(l, s, dac)
  BY One, Two, Join, LegalCommand, Controls, LegalSetDACallROCs, Addressed, Copied, Shown,
     SelectedRounds, NoCalls, Ways
  DEF dac, OnRoc, AnyOf

LEMMA LegalVdig ==
    \A l : \A s \in SUBSET Rocs :
        (\A r \in s, d \in Dacs : May(l, r, d))
            => Within(l, s, vdig)
  BY One, LegalCommand, LegalSetDACallROCs, Ways
  DEF vdig, AnyOf

LEMMA EachDACLegal ==
    \A l, s, p :
          /\ p = [k \in 1 .. Len(DacOrder) |-> p[k]]
          /\ \A k \in 1 .. Len(DacOrder) : Legal(l, s, p[k])
        => Within(l, s, p)
<1>1. Len(DacOrder) \in Nat
  BY DacOrderAssumption
<1> QED BY <1>1, Listed

LEMMA Ordered == \A k \in 1 .. Len(DacOrder) : DacOrder[k] \in Dacs
  BY DacOrderAssumption, ElementOfSeq

LEMMA LegalRddac ==
    \A l : \A s \in SUBSET Rocs :
        (\A r \in Rocs, d \in Dacs : May(l, r, d))
            => Within(l, s, rddac)
<1> SUFFICES ASSUME NEW l, NEW s \in SUBSET Rocs, \A r \in Rocs, d \in Dacs : May(l, r, d)
             PROVE  Within(l, s, rddac)
  OBVIOUS
<1> DEFINE Dacs1(r) == EachDAC(LAMBDA d : SetBoth(r - 1, d, New))
           One1(r) == <<roc_I2cAddr(r - 1)>> \o Dacs1(r)
           Some1(last) == [r \in 1 .. last + 1 |-> Call(One1(r))]
<1>1. ASSUME NEW r \in Int, r - 1 \in Rocs PROVE Within(l, s, Dacs1(r))
  <2>1. \A k \in 1 .. Len(DacOrder) : Legal(l, s, Call(SetBoth(r - 1, DacOrder[k], New)))
    BY <1>1, Copied, Shown, Ordered, Controls
  <2> QED BY <2>1, EachDACLegal DEF EachDAC
<1> HIDE DEF Dacs1
<1>2. ASSUME NEW r \in Int, r - 1 \in Rocs PROVE Legal(l, s, Call(One1(r)))
  BY <1>1, <1>2, One, Join, Addressed, Controls
<1>3. ASSUME NEW last \in Rocs PROVE Within(l, s, Some1(last))
  <2>1. last + 1 \in Nat /\ \A r \in 1 .. last + 1 : r \in Int /\ r - 1 \in Rocs
    BY CallsAssumption DEF Rocs
  <2>2. \A r \in 1 .. last + 1 : Legal(l, s, Some1(last)[r])
    BY <2>1, <1>2
  <2> HIDE DEF One1
  <2> QED BY <2>1, <2>2, Listed
<1> HIDE DEF Some1
<1>4. Legal(l, s, AnyOf(Rocs, LAMBDA last : Some1(last)))
  BY <1>3, Ways DEF AnyOf
<1>5. Within(l, s, <<AnyOf(Rocs, LAMBDA last : Some1(last)), Flush>>)
  BY <1>4, Two, Requests
<1> QED BY <1>5 DEF rddac, Some1, One1, Dacs1

LEMMA LegalDaciOf ==
    \A l : \A s \in SUBSET Rocs : \A d \in Dacs : Within(l, s, daciOf(d))
  BY Two, Three, Join, Addressed, Stated, Variables, Controls, Shown, Requests, Zero
  DEF daciOf, Ask

LEMMA LegalDaci ==
    \A l : \A s \in SUBSET Rocs : Within(l, s, daci)
  BY One, LegalDaciOf, Ways
  DEF daci, AnyOf

LEMMA LegalVthrcompiOf ==
    \A l : \A s \in SUBSET Rocs :
        \A r \in Rocs : May(l, r, "VthrComp")
            => Within(l, s, vthrcompiOf(r))
  BY One, Three, Four, Join, Addressed, Shared, Requests, Controls, Stated, Named, Shown,
     Copied
  DEF vthrcompiOf, Ask

LEMMA LegalVthrcompi ==
    \A l : \A s \in SUBSET Rocs :
        (\A r \in Rocs : May(l, r, "VthrComp"))
            => Within(l, s, vthrcompi)
  BY One, LegalVthrcompiOf, Ways
  DEF vthrcompi, AnyOf

LEMMA LegalLoadTrim ==
    \A l : \A s \in SUBSET Rocs : "trims" \in l.does =>
        \A r \in Rocs : Within(l, s, LoadTrim(r))
  BY Three, Addressed
  DEF LoadTrim

LEMMA LegalRdtrim ==
    \A l : \A s \in SUBSET Rocs : "trims" \in l.does =>
        Within(l, s, rdtrim)
  BY One, Join, SelectedRounds, LegalLoadTrim, Requests
  DEF rdtrim

LEMMA LegalSetbits ==
    \A l : \A s \in SUBSET Rocs : "trims" \in l.does =>
        Within(l, s, setbits)
  BY Two, SelectedRounds, LegalLoadTrim, Requests
  DEF setbits

LEMMA LegalPixt ==
    \A l : \A s \in SUBSET Rocs : "trims" \in l.does =>
        Within(l, s, pixt)
  BY One, Join, LegalLoadTrim, Requests, SelectedRounds, NoCalls, Ways
  DEF pixt, OnRoc, AnyOf

LEMMA LegalCole ==
    \A l : \A s \in SUBSET Rocs : Within(l, s, cole)
  BY One, LegalCommand, Requests, Join, SelectedRounds, Addressed
  DEF cole, OnSelected

LEMMA LegalCold ==
    \A l : \A s \in SUBSET Rocs : Within(l, s, cold)
  BY One, Two, LegalCommand, Addressed, Requests, Zero, SelectedRounds, NoCalls, Ways
  DEF cold, OnRoc, AnyOf

LEMMA LegalPixe ==
    \A l : \A s \in SUBSET Rocs : Within(l, s, pixe)
  BY One, Two, LegalCommand, Controls, Requests, Join, SelectedRounds, Addressed
  DEF pixe, OnSelected

LEMMA LegalArm ==
    \A l : \A s \in SUBSET Rocs : Within(l, s, arm)
  BY One, Join, LegalCommand, Shared, Requests, SelectedRounds, Addressed
  DEF arm, OnSelected

LEMMA LegalPixd ==
    \A l : \A s \in SUBSET Rocs : "trims" \in l.does =>
        Within(l, s, pixd)
  BY One, Three, LegalCommand, Addressed, Requests, SelectedRounds, NoCalls, Ways
  DEF pixd, OnRoc, AnyOf

LEMMA LegalCal ==
    \A l : \A s \in SUBSET Rocs : Within(l, s, cal)
  BY One, LegalCommand, Requests, Join, SelectedRounds, Addressed
  DEF cal, OnSelected

LEMMA LegalCald ==
    \A l : \A s \in SUBSET Rocs : Within(l, s, cald)
  BY One, LegalCommand, Requests, Join, SelectedRounds, Addressed
  DEF cald, OnSelected

LEMMA LegalMask ==
    \A l : \A s \in SUBSET Rocs : Within(l, s, mask)
  BY One, LegalCommand, Requests, Join, SelectedRounds, Addressed
  DEF mask, OnSelected

LEMMA LegalSetRange ==
    \A l : \A s \in SUBSET Rocs :
        \A r \in Rocs : May(l, r, "CtrlReg")
            => Within(l, s, SetRange(r))
  BY Copied, Named, Shown
  DEF SetRange

LEMMA LegalChip ==
    \A l : \A s \in SUBSET Rocs : MayFind(l) /\ 0 \in l.channels => Within(l, s, chip)
  BY One, Two, Three, Join, Controls, LegalSetia, Requests, Stated, Variables, Named,
     LegalSetRange, LegalSetcaldel, LegalGeteffmap, LegalEffvsdac, Copied, Shown, LegalTunePH,
     Zero
  DEF chip, MayFind, MayTune

LEMMA LegalEndOfChip ==
    \A l : \A s \in SUBSET Rocs : MayFind(l) => Within(l, s, endOfChip)
  BY One, Join, Copied, Named, Shown, Variables, Requests, Zero
  DEF endOfChip, MayFind, MayTune

LEMMA LegalOneroc ==
    \A l : \A s \in SUBSET Rocs : MayFind(l) /\ 0 \in l.channels => Within(l, s, oneroc)
  BY One, Join, LegalChip, LegalSetRange, Controls, LegalDacscanroc, Named, LegalEndOfChip,
     Zero
  DEF oneroc, MayFind, MayTune

LEMMA LegalBare ==
    \A l : \A s \in SUBSET Rocs : MayFind(l) /\ 0 \in l.channels => Within(l, s, bare)
<1> SUFFICES ASSUME NEW l, NEW s \in SUBSET Rocs, MayFind(l), 0 \in l.channels
             PROVE  Within(l, s, bare)
  OBVIOUS
<1> DEFINE H1 == SetRange(0) \o <<Call(dacscanroc("Vcal"))>>
           H2 == <<Call(dacscanroc("Vcal"))>>
           Bumps(h) == (IF h = 1 THEN H1 ELSE <<>>) \o SetRange(0)
                       \o <<Call(dacdac("CalDel", "VthrComp"))>>
                       \o (IF h = 1 THEN H2 ELSE <<>>)
                       \o <<Call(dacscanroc("VthrComp"))>>
<1>1. May(l, 0, "CtrlReg") /\ May(l, 0, "CalDel") /\ May(l, 0, "VthrComp")
  BY DEF MayFind
<1>2. Within(l, s, SetRange(0))
  BY <1>1, LegalSetRange, Zero
<1>3. Within(l, s, H2) /\ Within(l, s, H1)
  BY <1>2, LegalDacscanroc, One, Join, Controls, Named
<1>4. Within(l, s, <<Call(dacdac("CalDel", "VthrComp"))>>)
      /\ Within(l, s, <<Call(dacscanroc("VthrComp"))>>)
  BY <1>1, LegalDacdac, LegalDacscanroc, One, Controls, Named
<1> HIDE DEF H1, H2
<1>5. \A h \in 1 .. 2 : Within(l, s, Bumps(h))
  BY <1>2, <1>3, <1>4, Join, NoCalls
<1>6. Legal(l, s, Either([h \in 1 .. 2 |-> Bumps(h)]))
  <2> HIDE DEF Bumps
  <2> QED BY <1>5, Ways
<1>7. Within(l, s, chip \o <<Either([h \in 1 .. 2 |-> Bumps(h)])>> \o endOfChip)
  <2> HIDE DEF Bumps
  <2> QED BY <1>6, LegalChip, LegalEndOfChip, One, Join
<1> QED BY <1>7 DEF bare, H1, H2

LEMMA LegalCloseChannels ==
    \A l : \A s \in SUBSET Rocs : Within(l, s, CloseChannels)
  BY One, Channeled, NoCalls, AllRounds
  DEF CloseChannels, ForChannels

LEMMA LegalPowerDown ==
    \A l : \A s \in SUBSET Rocs : "power" \in l.does =>
        Within(l, s, PowerDown)
  BY Four, Join, LegalCloseChannels, Stated, Requests
  DEF PowerDown

LEMMA LegalMtBoard ==
    \A l : \A s \in SUBSET Rocs : {"power", "return"} \subseteq l.does =>
        Within(l, s, mtBoard)
  BY NoCalls, One, Two, Three, Seven, Join, Requests, Stated, Controls, Addressed, Zero
  DEF mtBoard, Ask

LEMMA LegalMtModule ==
    \A l : \A s \in SUBSET Rocs : MayAll(l, s) => Within(l, s, mtModule)
<1> SUFFICES ASSUME NEW l, NEW s \in SUBSET Rocs, MayAll(l, s) PROVE Within(l, s, mtModule)
  OBVIOUS
<1>1. Legal(l, s, Select(Rocs))
  BY Chosen, Zero DEF MayAll, Selections
<1>2. \A k \in 1 .. Len(DacOrder) : Legal(l, s, Call(SetDACallROCs(DacOrder[k])))
  BY LegalSetDACallROCs, Ordered, Controls DEF MayAll
<1>3. Within(l, s, EachDAC(SetDACallROCs))
  BY <1>2, EachDACLegal DEF EachDAC
<1>4. Within(l, s, ForChannels(LAMBDA ch : <<Daq_Open(ch), Daq_Stop(ch)>>))
  BY One, Two, NoCalls, Channeled, AllRounds DEF ForChannels
<1>5. \A f : (\A r \in s : Within(l, s, f[r]))
            => Within(l, s, <<Flush, EachRoc(f), Flush, HVon, Flush, Ask>>)
  BY Six, Requests, Stated, SelectedRounds DEF Ask, MayAll
<1>6. Within(l, s, <<Flush, EachRoc([r \in Rocs |-> <<roc_I2cAddr(r), roc_ClrCal, roc_Chip_Mask>>]),
                     Flush, HVon, Flush, Ask>>)
  BY <1>5, Three, Addressed, Requests
<1> QED BY <1>1, <1>3, <1>4, <1>6, One, Join DEF mtModule

LEMMA LegalMtCalDel ==
    \A l : \A s \in SUBSET Rocs :
        (\A r \in s : May(l, r, "CalDel") /\ May(l, r, "CtrlReg")) /\ Channels \subseteq l.channels
            => Within(l, s, mtCalDel)
  BY One, Two, Four, Join, SelectedRounds, Addressed, Stated, Variables, Named, LegalSetRange,
     Controls, LegalSetcaldel, Shown, Requests, Copied, ChannelOfRoc
  DEF mtCalDel

LEMMA LegalMt ==
    \A l : \A s \in SUBSET Rocs : MayAll(l, s) /\ Channels \subseteq l.channels
            => Within(l, s, mt)
<1> SUFFICES ASSUME NEW l, NEW s \in SUBSET Rocs, MayAll(l, s), Channels \subseteq l.channels
             PROVE  Within(l, s, mt)
  OBVIOUS
<1> DEFINE unless == <<Maybe(PowerDown \o <<Return>>)>>
           B1 == <<Call(setiamod)>> \o unless \o <<Ask>> \o unless
           B2 == <<Call(DacScanMod("VthrComp"))>>
           Bumps(b) == (IF b = 1 THEN B1 ELSE <<>>)
                       \o <<Call(GetSdata), Maybe(<<Call(GetSdata)>>)>>
                       \o mtCalDel \o unless
                       \o <<Call(ModMap)>>
                       \o (IF b = 1 THEN B2 ELSE <<>>)
<1>1. Within(l, s, unless)
  BY One, Join, Controls, Requests, LegalPowerDown DEF MayAll
<1> HIDE DEF unless
<1>2. Within(l, s, B1)
  BY <1>1, One, Join, Controls, Requests, LegalSetiamod, Named DEF MayAll, Ask
<1>3. Within(l, s, B2)
  BY One, Controls, LegalDacScanMod, Named
<1>4. Within(l, s, <<Call(GetSdata), Maybe(<<Call(GetSdata)>>)>>)
  BY One, Two, Controls, LegalGetSdata, Zero
<1>5. Within(l, s, <<Call(ModMap)>>) /\ Within(l, s, mtCalDel)
  BY One, Controls, LegalModMap, LegalMtCalDel, Named DEF MayAll
<1> HIDE DEF B1, B2
<1>6. \A b \in 1 .. 2 : Within(l, s, Bumps(b))
  BY <1>1, <1>2, <1>3, <1>4, <1>5, Join, NoCalls
<1> HIDE DEF Bumps
<1>7. Legal(l, s, Either([b \in 1 .. 2 |-> Bumps(b)]))
  BY <1>6, Ways
<1>8. Within(l, s, <<Pg_Stop, Pg_Single, Flush>>) /\ Within(l, s, <<HVoff, Flush>>)
      /\ Within(l, s, <<Poff, Flush>>)
  BY Two, Three, Requests, Stated DEF MayAll
<1>9. Within(l, s, mtBoard \o mtModule \o unless \o <<Pg_Stop, Pg_Single, Flush>>
                   \o <<Either([b \in 1 .. 2 |-> Bumps(b)])>>
                   \o <<HVoff, Flush>> \o CloseChannels \o <<Poff, Flush>>)
  <2>1. Within(l, s, mtBoard)
    BY LegalMtBoard DEF MayAll
  <2> QED BY <1>1, <1>7, <1>8, <2>1, LegalMtModule, LegalCloseChannels, One, Join
<1> QED BY <1>9 DEF mt, Bumps, B1, B2, unless

-----------------------------------------------------------------------------
\* The table.

\* Commands that select other ROCs, that fire a trigger loop, and that start or
\* read other channels than the first.
Selecting == {"select", "mt"}
Looping == {"pgloop", "takedata", "onevst", "modtd", "modtrimbits", "modnoise"}
Channeling ==
    {"dstart", "dreadm", "modtd", "tbmscan", "tbmscant", "phdac", "effdac", "modcaldel",
     "modpixsc", "dacscanmod", "modthrmap", "modmap", "modvthrcomp", "modvtrim",
     "modtrimscale", "modtrimstep", "modtrimbits", "modnoise", "modtune", "mt"}

\* The ROCs that may be selected meanwhile, and the licence of a command.
Around(c, s) == IF c \in Selecting THEN Rocs ELSE s
Licence(c, s) ==
    [copies |-> {x \in Rocs \X Dacs : x[2] \in Purpose[c] /\ (x[1] \in s \/ c \in Naming)},
     does |-> {"power", "trims", "return"} \cup (IF c \in Looping THEN {"loop"} ELSE {}),
     selects |-> IF c \in Selecting
                 THEN {t \in Selections : Allowed(c, t) /\ (Purpose[c] = {} \/ t = Rocs)}
                 ELSE {},
     channels |-> IF c \in Channeling THEN Channels ELSE {0}]

LEMMA Licensed ==
    \A c, s :
        /\ \A r \in Rocs, d \in Dacs :
              d \in Purpose[c] /\ (r \in s \/ c \in Naming) => May(Licence(c, s), r, d)
        /\ {"power", "trims", "return"} \subseteq Licence(c, s).does
        /\ c \in Looping => "loop" \in Licence(c, s).does
        /\ 0 \in Licence(c, s).channels
        /\ c \in Channeling => Channels \subseteq Licence(c, s).channels
        /\ c \in Selecting => \A t \in Selections :
              Allowed(c, t) /\ (Purpose[c] = {} \/ t = Rocs) => t \in Licence(c, s).selects
  BY Zero DEF Licence, May

Simple == {upgrade, information, pauses, welcome, probes, clocks, levels, modes, lines, pon, poff,
    supplies, meters, hvon, hvoff, resets, addresses, module, selections, tbms, tbmget, tbmgetraw,
    clk, delays, pgstop, pgtrig, trgsel, triggers, seltbm, deserext, showclk, showctr,
    showsda, decoding, rdtrim, setbits, pixt, cole, cold, pixe, arm, pixd, cal, cald, mask, dopen,
    dclose, dreset, dstop, dsize, dread}

LEMMA LegalSimple ==
    \A l : \A s \in SUBSET Rocs :
        {"power", "trims", "return"} \subseteq l.does /\ 0 \in l.channels =>
        /\ \A p \in Simple : Within(l, s, p)
        /\ "loop" \in l.does => Within(l, s, pgloop)
<1> SUFFICES ASSUME NEW l, NEW s \in SUBSET Rocs, {"power", "trims", "return"} \subseteq l.does,
                    0 \in l.channels
             PROVE  /\ \A p \in Simple : Within(l, s, p)
                    /\ "loop" \in l.does => Within(l, s, pgloop)
  OBVIOUS
<1>1. \A i : Legal(l, s, i) => Within(l, s, Command(<<i>>))
  BY One, LegalCommand
<1>2. \A p \in {pauses, welcome, probes, clocks, levels, modes, lines, supplies, resets, addresses,
                selections, tbms, triggers} : Within(l, s, p)
  BY <1>1, Requests DEF pauses, welcome, probes, clocks, levels, modes, lines, supplies,
     resets,
     addresses, selections, tbms, triggers
<1>3. /\ \A p \in {pon, poff, hvon, hvoff, delays, pgstop, pgtrig} : Within(l, s, p)
      /\ "loop" \in l.does => Within(l, s, pgloop)
  BY <1>1, Stated DEF pon, poff, hvon, hvoff, delays, pgstop, pgtrig, pgloop
<1>4. \A p \in {meters, module, tbmget} : Within(l, s, p)
  BY One, Requests DEF meters, module, tbmget, Ask
<1> QED BY <1>2, <1>3, <1>4, LegalUpgrade, LegalInformation, LegalTbmgetraw, LegalClk,
      LegalTrgsel, LegalSeltbm, LegalDeserext, LegalShowclk, LegalShowctr, LegalShowsda,
      LegalDecoding, LegalRdtrim, LegalSetbits, LegalPixt, LegalCole, LegalCold, LegalPixe,
      LegalArm, LegalPixd, LegalCal, LegalCald, LegalMask, LegalDopen, LegalDclose,
      LegalDreset, LegalDstop, LegalDsize, LegalDread DEF Simple

LEMMA SetUpWithin ==
    ASSUME TheTable
    PROVE  \A c \in DOMAIN SetUp : \A s \in Selections :
                Allowed(c, s) =>
                    Within(Licence(c, Around(c, s)), Around(c, s), SetUp[c])
<1> SUFFICES ASSUME NEW c \in DOMAIN SetUp, NEW s \in Selections, Allowed(c, s)
             PROVE  Within(Licence(c, Around(c, s)), Around(c, s), SetUp[c])
  OBVIOUS
<1> DEFINE own == {"select", "dac", "vdig", "rddac", "pgloop", "dstart", "dreadm"}
           l == Licence(c, Around(c, s))
<1>0. {"power", "trims", "return"} \subseteq l.does /\ 0 \in l.channels
  BY Licensed
<1> HIDE DEF l
<1>1. CASE c \notin own
  <2>1. SetUp[c] \in Simple
    BY <1>1 DEF SetUp, Simple
  <2>2. Around(c, s) \in SUBSET Rocs
    BY DEF Around, Selections
  <2> QED BY <1>0, <2>1, <2>2, LegalSimple DEF l
<1>2. CASE c = "select"
  <2>1. SetUp[c] = select
    BY <1>2 DEF SetUp
  <2>2. Purpose[c] = {}
    BY <1>2 DEF TheTable, ThePurpose, TheProcedure, SetUp
  <2>3. \A t \in Selections : Allowed(c, t)
    BY <1>2 DEF TheTable, Allowed, TheForOneRoc, TheForAllRocs, OneRoc, AllRocs
  <2>4. \A t \in Selections : t \in l.selects
    BY <1>2, <2>2, <2>3, Licensed DEF Selecting, l
  <2> QED BY <1>0, <1>2, <2>1, <2>4, LegalSelect DEF Around, Selecting, l
<1>4. CASE c = "pgloop"
  <2>1. "loop" \in l.does /\ SetUp[c] = pgloop /\ Around(c, s) \in SUBSET Rocs
    BY <1>4, Licensed DEF Looping, SetUp, Around, Selections, l
  <2> QED BY <1>0, <2>1, LegalSimple DEF l
<1>5. CASE c \in {"dstart", "dreadm"}
  <2>1. Channels \subseteq l.channels /\ Around(c, s) \in SUBSET Rocs
    BY <1>5, Licensed DEF Channeling, Around, Selections, l
  <2> QED BY <1>5, <2>1, LegalDstart, LegalDreadm DEF SetUp, l
<1>3. CASE c \in {"dac", "vdig", "rddac"}
  <2>1. Purpose[c] = Dacs
    BY <1>3 DEF TheTable, ThePurpose, TheProcedure, SetUp
  <2>2. Around(c, s) = s /\ s \in SUBSET Rocs
    BY <1>3 DEF Around, Selecting, Selections
  <2>3. \A r \in s, d \in Dacs : May(l, r, d)
    BY <2>1, <2>2, Licensed DEF l
  <2>4. CASE c = "dac"
    BY <2>2, <2>3, <2>4, LegalDac DEF SetUp, l
  <2>5. CASE c = "vdig"
    BY <2>2, <2>3, <2>5, LegalVdig DEF SetUp, l
  <2>6. CASE c = "rddac"
    <3>1. c \in Naming
      BY <2>6 DEF TheTable, TheNaming
    <3>2. \A r \in Rocs, d \in Dacs : May(l, r, d)
      BY <2>1, <3>1, Licensed DEF l
    <3> QED BY <2>2, <2>6, <3>2, LegalRddac DEF SetUp, l
  <2> QED BY <1>3, <2>4, <2>5, <2>6
<1> QED BY <1>1, <1>2, <1>3, <1>4, <1>5

LEMMA OneRocWithin ==
    ASSUME TheTable
    PROVE  \A c \in DOMAIN OneRoc : \A s \in Selections :
                Allowed(c, s) =>
                    Within(Licence(c, Around(c, s)), Around(c, s), OneRoc[c])
<1> SUFFICES ASSUME NEW c \in DOMAIN OneRoc PROVE Within(Licence(c, {0}), {0}, OneRoc[c])
  <2>1. \A c \in DOMAIN OneRoc : c \notin Selecting
    BY DEF Selecting, OneRoc
  <2> QED BY <2>1 DEF TheTable, Allowed, TheForOneRoc, Around
<1> DEFINE own == {"caldel", "caldelroc", "dacdac", "optia", "tune", "vthrcomp5", "vthrcomp",
                   "trim", "oneroc", "bare", "takedata", "onevst"}
           l == Licence(c, {0})
           simple == {tdscan, daci, fire, fire2, caldelmap, calsdac, thrdac, effmap,
                      phmap, calsmap, bbtest, vanaroc, gaindac, thrmap, thrmapsc, scanvthr,
                      dacscanrocCommand, readback, trimbits}
<1>1. /\ {0} \in SUBSET Rocs /\ {"power", "trims", "return"} \subseteq l.does
      /\ 0 \in l.channels
      /\ \A d \in Dacs : d \in Purpose[c] => May(l, 0, d)
  BY Zero, Licensed
<1> HIDE DEF l
<1>10. CASE c \in {"takedata", "onevst"}
  <2>1. "loop" \in l.does
    BY <1>10, Licensed DEF Looping, l
  <2> QED BY <1>1, <1>10, <2>1, LegalTakedata, LegalOnevst DEF OneRoc, l
<1>2. CASE c \notin own
  <2>1. OneRoc[c] \in simple
    BY <1>2 DEF OneRoc
  <2>2. \A p \in simple : Within(l, {0}, p)
    BY <1>1, LegalTdscan, LegalDaci, LegalFire, LegalFire2,
       LegalCaldelmap, LegalCalsdac, LegalThrdac, LegalEffmap, LegalPhmap, LegalCalsmap,
       LegalBbtest, LegalVanaroc, LegalGaindac, LegalThrmap, LegalThrmapsc, LegalScanvthr,
       LegalDacscanrocCommand, LegalReadback, LegalTrimbits
  <2> HIDE DEF simple
  <2> QED BY <2>1, <2>2 DEF l
<1>3. CASE c \in {"caldel", "caldelroc"}
  <2>1. May(l, 0, "CalDel")
    BY <1>3, <1>1, Named DEF TheTable, ThePurpose, TheProcedure, TheTests, OneRoc
  <2> QED BY <1>1, <1>3, <2>1, LegalCaldel, LegalCaldelroc DEF OneRoc, l
<1>4. CASE c = "dacdac"
  <2>1. May(l, 0, "CalDel") /\ May(l, 0, "VthrComp")
    BY <1>4, <1>1, Named DEF TheTable, ThePurpose, TheProcedure, TheTests, OneRoc
  <2> QED BY <1>1, <1>4, <2>1, LegalDacdacCommand DEF OneRoc, l
<1>5. CASE c = "optia"
  <2>1. May(l, 0, "Vana")
    BY <1>5, <1>1, Named DEF TheTable, ThePurpose, TheProcedure, TheTests, OneRoc
  <2> QED BY <1>1, <1>5, <2>1, LegalOptia DEF OneRoc, l
<1>6. CASE c = "tune"
  <2>1. MayTune(l, 0)
    BY <1>6, <1>1, Named DEF MayTune, TheTable, ThePurpose, TheProcedure, TheTests, OneRoc
  <2> QED BY <1>1, <1>6, <2>1, LegalTune DEF OneRoc, l
<1>7. CASE c \in {"vthrcomp5", "vthrcomp"}
  <2>1. May(l, 0, "VthrComp")
    BY <1>7, <1>1, Named DEF TheTable, ThePurpose, TheProcedure, TheTests, OneRoc
  <2> QED BY <1>1, <1>7, <2>1, LegalVthrcomp5, LegalVthrcomp DEF OneRoc, l
<1>8. CASE c = "trim"
  <2>1. May(l, 0, "Vtrim")
    BY <1>8, <1>1, Named DEF TheTable, ThePurpose, TheProcedure, TheTests, OneRoc
  <2> QED BY <1>1, <1>8, <2>1, LegalTrim DEF OneRoc, l
<1>9. CASE c \in {"oneroc", "bare"}
  <2>1. MayFind(l)
    BY <1>9, <1>1, Named DEF MayFind, TheTable, ThePurpose, TheProcedure, TheTests, OneRoc
  <2> QED BY <1>1, <1>9, <2>1, LegalOneroc, LegalBare DEF OneRoc, l
<1> QED BY <1>2, <1>3, <1>4, <1>5, <1>6, <1>7, <1>8, <1>9, <1>10

LEMMA SelectedRocsWithin ==
    ASSUME TheTable
    PROVE  \A c \in DOMAIN SelectedRocs : \A s \in Selections :
                Within(Licence(c, Around(c, s)), Around(c, s), SelectedRocs[c])
<1> SUFFICES ASSUME NEW c \in DOMAIN SelectedRocs, NEW s \in SUBSET Rocs
             PROVE  Within(Licence(c, s), s, SelectedRocs[c])
  BY DEF Selections, Around, Selecting, SelectedRocs
<1> DEFINE own == {"phdac", "effdac", "dacscanmod", "vthrcompi", "modcaldel", "modvthrcomp",
                   "modvtrim", "modtd", "modtrimbits", "modnoise"}
           several == {"tbmscan", "tbmscant", "modpixsc", "modthrmap", "modmap", "modtrimscale",
                       "modtrimstep"}
           l == Licence(c, s)
           simple == {deser160, sdata, modthrdac, subtb}
           modules == {tbmscan, tbmscant, modpixsc, modthrmap, modmap, modtrimscale, modtrimstep}
<1>0. /\ {"power", "trims", "return"} \subseteq l.does /\ 0 \in l.channels
      /\ c \in Channeling => Channels \subseteq l.channels
      /\ \A r \in Rocs, d \in Dacs :
            d \in Purpose[c] /\ (r \in s \/ c \in Naming) => May(l, r, d)
  BY Licensed
<1> HIDE DEF l
<1>8. CASE c \in {"modtd", "modtrimbits", "modnoise"}
  <2>1. "loop" \in l.does
    BY <1>8, Licensed DEF Looping, l
  <2>2. Channels \subseteq l.channels
    BY <1>0, <1>8 DEF Channeling
  <2> QED BY <1>0, <1>8, <2>1, <2>2, LegalModtd, LegalModtrimbits, LegalModnoise DEF SelectedRocs, l
<1>1. CASE c \notin own \cup several
  <2>1. SelectedRocs[c] \in simple
    BY <1>1 DEF SelectedRocs
  <2>2. \A p \in simple : Within(l, s, p)
    BY <1>0, LegalDeser160, LegalSdata, LegalModthrdac, LegalSubtb
  <2> HIDE DEF simple
  <2> QED BY <2>1, <2>2 DEF l
<1>9. CASE c \in several
  <2>1. SelectedRocs[c] \in modules
    BY <1>9 DEF SelectedRocs
  <2>2. Channels \subseteq l.channels
    BY <1>0, <1>9 DEF Channeling
  <2>3. \A p \in modules : Within(l, s, p)
    BY <1>0, <2>2, LegalTbmscan, LegalTbmscant, LegalModpixsc, LegalModthrmap, LegalModmap,
       LegalModtrimscale, LegalModtrimstep
  <2> HIDE DEF modules
  <2> QED BY <2>1, <2>3 DEF l
<1>2. CASE c \in {"phdac", "effdac"}
  <2>2. \A r \in Rocs : ChannelOf(r) \in l.channels
    BY <1>0, <1>2, ChannelOfRoc DEF Channeling
  <2>1. Legal(l, s, AnyOf(Rocs, phdac)) /\ Legal(l, s, AnyOf(Rocs, effdac))
    BY <2>2, LegalPhdac, LegalEffdac, Ways DEF AnyOf
  <2> QED BY <1>2, <2>1, One DEF SelectedRocs, l
<1>3. CASE c = "dacscanmod"
  <2>1. {"Vcal"} \in SUBSET Dacs
    BY Named
  <2>2. Channels \subseteq l.channels
    BY <1>0, <1>3 DEF Channeling
  <2> QED BY <1>3, <2>1, <2>2, LegalDacscanmod DEF SelectedRocs, l
<1>4. CASE c = "vthrcompi"
  <2>1. \A r \in Rocs : May(l, r, "VthrComp")
    BY <1>4, <1>0, Named DEF TheTable, ThePurpose, TheProcedure, TheTests, SelectedRocs, TheNaming
  <2> QED BY <1>4, <2>1, LegalVthrcompi DEF SelectedRocs, l
<1>5. CASE c = "modcaldel"
  <2>1. \A r \in s : May(l, r, "CalDel")
    BY <1>5, <1>0, Named DEF TheTable, ThePurpose, TheProcedure, TheTests, SelectedRocs
  <2>2. Channels \subseteq l.channels
    BY <1>0, <1>5 DEF Channeling
  <2> QED BY <1>5, <2>1, <2>2, LegalModcaldel DEF SelectedRocs, l
<1>6. CASE c = "modvthrcomp"
  <2>1. \A r \in s : May(l, r, "VthrComp")
    BY <1>6, <1>0, Named DEF TheTable, ThePurpose, TheProcedure, TheTests, SelectedRocs
  <2>2. Channels \subseteq l.channels
    BY <1>0, <1>6 DEF Channeling
  <2> QED BY <1>6, <1>0, <2>1, <2>2, LegalModvthrcomp DEF SelectedRocs, l
<1>7. CASE c = "modvtrim"
  <2>1. \A r \in s : May(l, r, "Vtrim")
    BY <1>7, <1>0, Named DEF TheTable, ThePurpose, TheProcedure, TheTests, SelectedRocs
  <2>2. Channels \subseteq l.channels
    BY <1>0, <1>7 DEF Channeling
  <2> QED BY <1>7, <1>0, <2>1, <2>2, LegalModvtrim DEF SelectedRocs, l
<1> QED BY <1>1, <1>2, <1>3, <1>4, <1>5, <1>6, <1>7, <1>8, <1>9

LEMMA AllRocsWithin ==
    ASSUME TheTable
    PROVE  \A c \in DOMAIN AllRocs : \A s \in Selections :
                Allowed(c, s) =>
                    Within(Licence(c, Around(c, s)), Around(c, s), AllRocs[c])
<1> SUFFICES ASSUME NEW c \in DOMAIN AllRocs PROVE Within(Licence(c, Rocs), Rocs, AllRocs[c])
  BY DEF TheTable, Allowed, TheForAllRocs, Around
<1> DEFINE l == Licence(c, Rocs)
<1>0. /\ {"power", "trims", "return"} \subseteq l.does
      /\ c \in Channeling => Channels \subseteq l.channels
      /\ \A r \in Rocs, d \in Dacs : d \in Purpose[c] => May(l, r, d)
  BY Licensed
<1> HIDE DEF l
<1>1. CASE c = "optiamod"
  <2>1. \A r \in Rocs : May(l, r, "Vana")
    BY <1>1, <1>0, Named DEF TheTable, ThePurpose, TheProcedure, TheTests, AllRocs
  <2> QED BY <1>1, <2>1, LegalOptiamod DEF AllRocs, l
<1>2. CASE c = "modtune"
  <2>1. \A r \in Rocs : MayTune(l, r)
    BY <1>2, <1>0, Named DEF MayTune, TheTable, ThePurpose, TheProcedure, TheTests, AllRocs
  <2>2. Channels \subseteq l.channels
    BY <1>0, <1>2 DEF Channeling
  <2> QED BY <1>2, <2>1, <2>2, LegalModtune DEF AllRocs, l
<1>3. CASE c = "mt"
  <2>1. \A r \in Rocs, d \in Dacs : May(l, r, d)
    BY <1>3, <1>0, Named DEF TheTable, ThePurpose, TheProcedure, TheTests, AllRocs
  <2>2. Allowed(c, Rocs) /\ c \in Selecting
    BY <1>3 DEF Selecting, Allowed, TheTable, TheForOneRoc, OneRoc
  <2>3. Rocs \in l.selects
    BY <2>2, Licensed, Zero DEF Selections, l
  <2>4. Channels \subseteq l.channels
    BY <1>0, <1>3 DEF Channeling
  <2> QED BY <1>0, <1>3, <2>1, <2>3, <2>4, LegalMt DEF AllRocs, MayAll, l
<1> QED BY <1>1, <1>2, <1>3 DEF AllRocs

LEMMA TableWithin ==
    ASSUME TheTable
    PROVE  \A c \in Commands : \A s \in Selections :
               Allowed(c, s) =>
                   Within(Licence(c, Around(c, s)), Around(c, s), Procedure[c])
<1>1. Commands = DOMAIN SetUp \cup DOMAIN OneRoc \cup DOMAIN SelectedRocs \cup DOMAIN AllRocs
  BY DEF Commands, TheTable, TheProcedure, TheTests
<1>2. \A c \in DOMAIN SetUp :
          c \notin DOMAIN OneRoc /\ c \notin DOMAIN SelectedRocs /\ c \notin DOMAIN AllRocs
  BY DEF SetUp, OneRoc, SelectedRocs, AllRocs
<1>3. \A c \in DOMAIN OneRoc : c \notin DOMAIN SelectedRocs /\ c \notin DOMAIN AllRocs
  BY DEF OneRoc, SelectedRocs, AllRocs
<1>4. \A c \in DOMAIN SelectedRocs : c \notin DOMAIN AllRocs
  BY DEF SelectedRocs, AllRocs
<1>5. \A c \in DOMAIN SetUp : Procedure[c] = SetUp[c]
  BY <1>2 DEF TheTable, TheProcedure, TheTests
<1>6. \A c \in DOMAIN OneRoc : Procedure[c] = OneRoc[c]
  BY <1>2, <1>3 DEF TheTable, TheProcedure, TheTests
<1>7. \A c \in DOMAIN SelectedRocs : Procedure[c] = SelectedRocs[c]
  BY <1>2, <1>3, <1>4 DEF TheTable, TheProcedure, TheTests
<1>8. \A c \in DOMAIN AllRocs : Procedure[c] = AllRocs[c]
  BY <1>2, <1>3, <1>4 DEF TheTable, TheProcedure, TheTests
<1> QED BY <1>1, <1>5, <1>6, <1>7, <1>8, SetUpWithin, OneRocWithin, SelectedRocsWithin,
      AllRocsWithin

LEMMA EndsFit ==
    \A i \in {EndOfCall, EndOfTry} :
        /\ i.do \notin {"dacval", "select"} /\ Fits(i) /\ \A s : Leads(i, s) = {}
<1> SUFFICES ASSUME NEW i \in {EndOfCall, EndOfTry}
             PROVE  i.do \notin {"dacval", "select"} /\ Fits(i) /\ \A s : Leads(i, s) = {}
  OBVIOUS
<1>1. EndOfCall.do = "end of call" /\ EndOfTry.do = "end of try"
  BY DEF EndOfCall, EndOfTry
<1>2. i.do \in {"end of call", "end of try"}
  BY <1>1
<1> QED BY <1>2 DEF Leads, Fits

LEMMA FitsTable ==
    ASSUME TheTable
    PROVE  \E calls : AllTyped(calls) /\ AllPurposeful(calls)
<1> DEFINE L(c, s) == Licence(c, Around(c, s))
           of(c, s) == CHOOSE S : Good(L(c, s), Around(c, s), S) /\ Procedure[c] \in Seq(S)
           Ends == {EndOfCall, EndOfTry}
           calls == [c \in Commands |-> [s \in Selections |-> of(c, s) \cup Ends]]
<1>1. ASSUME NEW c \in Commands, NEW s \in Selections, Allowed(c, s)
      PROVE  Good(L(c, s), Around(c, s), of(c, s)) /\ Procedure[c] \in Seq(of(c, s))
  BY <1>1, TableWithin DEF Within
<1>2. ASSUME NEW c \in Commands, NEW s \in Selections, Allowed(c, s)
      PROVE  /\ Procedure[c] \in Seq(calls[c][s]) /\ Ends \subseteq calls[c][s]
             /\ \A p \in Seq(of(c, s)) : p \in Seq(calls[c][s])
  <2>1. calls[c][s] = of(c, s) \cup Ends
    OBVIOUS
  <2>2. \A p \in Seq(of(c, s)) : p \in Seq(of(c, s) \cup Ends)
    BY SeqOfMore
  <2>3. Procedure[c] \in Seq(of(c, s))
    BY <1>1, <1>2
  <2> QED BY <2>1, <2>2, <2>3
<1>3. \A c \in Commands, s, t \in Selections : c \in Selecting => calls[c][s] = calls[c][t]
  BY DEF Around
<1>4. ASSUME NEW c \in Commands, NEW s \in Selections, NEW i \in calls[c][s]
      PROVE  i \in of(c, s) \/ i \in Ends
  OBVIOUS
<1> HIDE DEF calls, of
<1>5. ASSUME NEW c \in Commands, NEW s \in Selections, Allowed(c, s), NEW i \in calls[c][s]
      PROVE  /\ Fits(i) /\ Purposeful(c, s, i)
             /\ \A p \in Leads(i, s) : p \in Seq(calls[c][s])
             /\ i.do = "select" =>
                    /\ calls[c][s] \subseteq calls[c][i.of] /\ Allowed(c, i.of)
                    /\ s \subseteq i.of \/ Purpose[c] = {}
  <2>1. CASE i \in Ends
    BY <2>1, EndsFit DEF Purposeful
  <2>2. CASE i \in of(c, s)
    <3>1. Good(L(c, s), Around(c, s), of(c, s))
      BY <1>1, <1>5
    <3>2. Fits(i) /\ Granted(L(c, s), i) /\ \A p \in Leads(i, Around(c, s)) : p \in Seq(of(c, s))
      BY <2>2, <3>1 DEF Good
    <3>3. ASSUME i.do = "select"
          PROVE  c \in Selecting /\ Allowed(c, i.of) /\ (Purpose[c] = {} \/ i.of = Rocs)
      BY <3>2, <3>3 DEF Granted, Licence
    <3>4. s \subseteq Rocs /\ s \subseteq Around(c, s)
      BY DEF Selections, Around
    <3>5. Leads(i, s) \subseteq Leads(i, Around(c, s))
      BY <3>4 DEF Leads
    <3>6. ASSUME i.do = "dacval"
          PROVE  i.dac \in Purpose[c] /\ (i.roc \in s \/ c \in Naming)
      <4>1. i.dac \in Purpose[c] /\ (i.roc \in Around(c, s) \/ c \in Naming)
        BY <3>2, <3>6 DEF Granted, Licence
      <4>2. c = "select" => Purpose[c] = {}
        BY DEF TheTable, ThePurpose, TheProcedure, SetUp
      <4>3. c = "mt" => s = Rocs
        BY <1>5 DEF Allowed, TheTable, TheForAllRocs, AllRocs
      <4> QED BY <4>1, <4>2, <4>3 DEF Around, Selecting
    <3>7. ASSUME i.do = "select"
          PROVE  /\ calls[c][s] \subseteq calls[c][i.of] /\ Allowed(c, i.of)
                 /\ s \subseteq i.of \/ Purpose[c] = {}
      <4>1. i.of \in Selections
        BY <3>2, <3>7 DEF Fits
      <4>2. calls[c][s] = calls[c][i.of]
        BY <1>3, <3>3, <3>7, <4>1
      <4> QED BY <3>3, <3>4, <3>7, <4>2
    <3>8. \A p \in Leads(i, s) : p \in Seq(calls[c][s])
      BY <1>2, <1>5, <3>2, <3>5
    <3> QED BY <3>2, <3>6, <3>7, <3>8 DEF Purposeful
  <2> QED BY <1>4, <2>1, <2>2
<1>6. AllTyped(calls)
  BY <1>2, <1>5 DEF AllTyped, Typed
<1>7. AllPurposeful(calls)
  BY <1>5 DEF AllPurposeful, PurposeOnly
<1> QED BY <1>6, <1>7

\* The commands of cmd.cpp fit, for any number of ROCs and channels.
LEMMA TableFits ==
    TheTable => \E calls : AllTyped(calls) /\ AllPurposeful(calls)
  BY FitsTable

-----------------------------------------------------------------------------
\* With the commands of cmd.cpp the variables have their types.
THEOREM CommandsTyped == TheTable /\ Spec => []TypeOK
<1>1. ASSUME TheTable PROVE Spec => []TypeOK
  <2>1. PICK calls : AllTyped(calls)
    BY <1>1, TableFits
  <2> QED BY <2>1, ProceduresTypes
<1> QED BY <1>1

\* OnPurpose, for the commands of cmd.cpp: none of them changes the copy of a
\* DAC that it is not there for, or of a ROC that is not selected, whatever
\* the data say, however often it loops, throws and is typed again.
THEOREM CommandsOnPurpose == TheTable /\ Spec => []OnPurpose
<1>1. ASSUME TheTable PROVE Spec => []OnPurpose
  <2>1. PICK calls : AllTyped(calls) /\ AllPurposeful(calls)
    BY <1>1, TableFits
  <2> QED BY <2>1, ChangedOnPurpose
<1> QED BY <1>1
=============================================================================
