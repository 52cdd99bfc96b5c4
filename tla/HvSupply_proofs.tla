-------------------------- MODULE HvSupply_proofs --------------------------
(***************************************************************************)
(* The program and the high voltage supply: no voltage is ever garbled,    *)
(* and as long as nothing comes late they are in step.                     *)
(***************************************************************************)
EXTENDS HvSupply, SequenceTheorems, TLAPS

-----------------------------------------------------------------------------
(* What there is to do.                                                      *)

Works == {Set(v) : v \in Volts} \cup {Get}
Ops == Works \cup {Apply, Status, Again}

\* The end of the program, from its beginning on.
Ends == {leave, <<Apply, Close>>, <<Close>>}

Busy == pc \in {"exchange", "send", "echo", "answer", "got"}

Plan(ops) ==
    \/ ops = <<>> \/ ops \in Ends
    \/ ops # <<>> /\ Head(ops) \in Ops /\ Tail(ops) \in Seq(Works)

Planned ==
    /\ Plan(todo)
    /\ Busy \/ pc = "op" => todo # <<>>
    /\ Busy => Head(todo) # Close
    /\ pc = "op" => Head(todo) \in Works \cup {Close}

(* The line that is sent.                                                    *)

Bytes == Digits \cup {"D", "G", "S", "U", "CR", "LF", "end", "volts", "????"} \cup States

\* LF is at the end, and only there.
Ended(l) == l # <<>> /\ \A i \in 1 .. Len(l) : l[i] = "LF" <=> i = Len(l)

\* No more characters make a voltage of these.
Spoilt(l) == l # <<>> /\ (l[1] # "D" \/ \E i \in 2 .. Len(l) : l[i] \notin Digits \cup {"CR"})

\* What was sent of the line and what is still to be sent.
Sending ==
    /\ pc \in {"send", "echo"} => cmd \in Seq(Bytes) /\ Ended(cmd)
    /\ pc = "send" => \/ cmd = Line(Head(todo)) \/ Spoilt(input)
                      \/ input \o cmd = Line(Head(todo))
    /\ pc = "echo" /\ Head(cmd) # "LF" => Spoilt(input) \/ input \o Tail(cmd) = Line(Head(todo))

Types ==
    /\ iseg_connected \in BOOLEAN /\ hv_on \in BOOLEAN
    /\ voltage_set \in Volts /\ stored \in Volts /\ target \in Volts
    /\ pc \in {"prompt", "op", "exchange", "send", "echo", "answer", "got", "out"}
    /\ rx \in Seq(Bytes) /\ wire \in Seq(Bytes) /\ input \in Seq(Bytes)
    /\ state \in States
    /\ told \in BOOLEAN /\ late \in BOOLEAN /\ touched \in BOOLEAN
    /\ timeouts \in 0 .. MaxLate /\ turns \in 0 .. MaxTurns

Always == Types /\ Planned /\ Sending

-----------------------------------------------------------------------------
(* As long as nothing is late.                                               *)

\* The supply has executed the line.
Executed == pc \in {"answer", "got"} \/ (pc = "echo" /\ Head(cmd) = "LF")

Answers == {<<>>, <<"volts">>, <<"????">>} \cup {<<s>> : s \in States}

\* What may be answered: a question gets an answer, and a status is that of the
\* supply, but for the moves of its voltage and a trip that is reset.
Apt(r) ==
    /\ r \in Answers
    /\ Head(todo) = Get => r # <<>>
    /\ r = <<"ON">> => state \in Ready
    /\ r \in {<<"OFF">>, <<"MAN">>} => r = <<state>>

\* What is on the line.
OnTheLine ==
    /\ pc \in {"prompt", "op", "exchange", "send", "got"} => rx = <<>> /\ wire = <<>>
    /\ pc = "echo" /\ Head(cmd) # "LF" => rx \o wire = <<Head(cmd)>> \o <<>>
    /\ pc = "echo" /\ Head(cmd) = "LF" =>
          \E r \in Answers : Apt(r) /\ rx \o wire = <<"LF">> \o (r \o <<"end">>)
    /\ pc = "answer" =>
          /\ answer \in Seq(Bytes) /\ ~Complete(answer)
          /\ \E r \in Answers : Apt(r) /\ (answer \o rx) \o wire = r \o <<"end">>
    /\ pc = "got" => Apt(answer)

\* Of lines given up nothing is left, once a status was asked for.
Clean ==
    /\ pc \in {"prompt", "op"} \/ Executed => input = <<>>
    /\ Busy /\ Head(todo) # Status =>
          /\ pc = "exchange" => input = <<>>
          /\ pc = "send" => input \o cmd = Line(Head(todo))
          /\ pc = "echo" /\ Head(cmd) # "LF" => input \o Tail(cmd) = Line(Head(todo))

\* The constructor comes before everything else.
First == Busy /\ Head(todo) \in {Status, Again} => iseg_connected /\ ~told

\* The voltages of the program and of the supply.
Voltages ==
    /\ state \in Ready /\ iseg_connected
    /\ Busy /\ Head(todo).op = "D1" =>
          voltage_set = Head(todo).volts /\ told /\ (Executed => stored = voltage_set)
    /\ Busy /\ Head(todo) = Apply =>
          stored = voltage_set /\ told /\ (Executed => target = voltage_set)
    /\ told /\ (pc \in {"prompt", "op"} \/ (Busy /\ Head(todo) = Get)) => target = voltage_set
    /\ todo \in Ends /\ ~(todo = leave /\ pc = "op") => voltage_set = Zero /\ told
    /\ pc = "out" /\ Head(todo) = Close => target = Zero

InTime == ~late => OnTheLine /\ Clean

HvInv == Always /\ First /\ InTime /\ (~late /\ ~touched /\ hv_on => Voltages)

-----------------------------------------------------------------------------
(* Sequences.                                                                *)

LEMMA Pieces ==
    ASSUME NEW S, NEW a \in S, NEW s \in Seq(S)
    PROVE  /\ <<a>> \in Seq(S) /\ <<a>> \o s \in Seq(S) /\ <<a>> \o s # <<>>
           /\ Head(<<a>> \o s) = a /\ Tail(<<a>> \o s) = s
           /\ Len(<<a>> \o s) = Len(s) + 1
           /\ Len(s) \in Nat /\ s \o <<>> = s /\ <<>> \o s = s
<1>1. <<a>> \in Seq(S) /\ Len(<<a>>) = 1 /\ <<a>>[1] = a
  OBVIOUS
<1>2. /\ <<a>> \o s \in Seq(S) /\ Len(<<a>> \o s) = 1 + Len(s)
      /\ \A i \in 1 .. 1 + Len(s) : (<<a>> \o s)[i] = IF i <= 1 THEN <<a>>[i] ELSE s[i - 1]
      /\ Len(s) \in Nat
  BY <1>1, ConcatProperties, LenProperties
<1> DEFINE t == <<a>> \o s
<1> HIDE DEF t
<1>3. t \in Seq(S) /\ Len(t) = Len(s) + 1 /\ Len(s) \in Nat
      /\ \A i \in 1 .. 1 + Len(s) : t[i] = IF i <= 1 THEN a ELSE s[i - 1]
  BY <1>1, <1>2 DEF t
<1>4. t # <<>>
  BY <1>3, EmptySeq
<1>5. Head(t) = a
  <2>1. Head(t) = t[1] /\ 1 \in 1 .. 1 + Len(s)
    BY <1>3, <1>4, HeadTailProperties
  <2> QED BY <1>3, <2>1
<1>6. Tail(t) = s
  <2>1. Tail(t) \in Seq(S) /\ Len(Tail(t)) = Len(s)
        /\ \A i \in 1 .. Len(Tail(t)) : Tail(t)[i] = t[i + 1]
    BY <1>3, <1>4, HeadTailProperties
  <2>2. ASSUME NEW i \in 1 .. Len(s) PROVE Tail(t)[i] = s[i]
    <3>1. i + 1 \in 1 .. 1 + Len(s) /\ ~(i + 1 <= 1) /\ (i + 1) - 1 = i
      BY <1>3
    <3> QED BY <1>3, <2>1, <3>1
  <2> QED BY <2>1, <2>2, SeqEqual
<1> QED BY <1>1, <1>3, <1>4, <1>5, <1>6, ConcatEmptySeq DEF t

LEMMA Together ==
    ASSUME NEW S, NEW s \in Seq(S), s # <<>>
    PROVE  /\ Head(s) \in S /\ Tail(s) \in Seq(S) /\ <<Head(s)>> \o Tail(s) = s
           /\ Len(s) \in Nat /\ Len(s) # 0 /\ Len(Tail(s)) = Len(s) - 1
           /\ Head(s) = s[1] /\ \A i \in 1 .. Len(Tail(s)) : Tail(s)[i] = s[i + 1]
<1>1. /\ Head(s) \in S /\ Tail(s) \in Seq(S) /\ Len(Tail(s)) = Len(s) - 1 /\ Head(s) = s[1]
      /\ \A i \in 1 .. Len(Tail(s)) : Tail(s)[i] = s[i + 1]
  BY HeadTailProperties
<1>2. Len(s) \in Nat /\ Len(s) # 0
  BY EmptySeq, LenProperties
<1> DEFINE t == <<Head(s)>> \o Tail(s)
<1>3. /\ <<Head(s)>> \in Seq(S) /\ Len(<<Head(s)>>) = 1
      /\ <<Head(s)>>[1] = Head(s)
  BY <1>1
<1>4. /\ t \in Seq(S) /\ Len(t) = 1 + (Len(s) - 1)
      /\ \A i \in 1 .. 1 + (Len(s) - 1) : t[i] = IF i <= 1 THEN <<Head(s)>>[i] ELSE Tail(s)[i - 1]
  BY <1>1, <1>3, ConcatProperties
<1> HIDE DEF t
<1>5. Len(t) = Len(s)
  BY <1>2, <1>4
<1>6. ASSUME NEW i \in 1 .. Len(s) PROVE t[i] = s[i]
  <2>1. CASE i = 1
    <3>1. 1 \in 1 .. 1 + (Len(s) - 1)
      BY <1>2
    <3> QED BY <1>1, <1>3, <1>4, <2>1, <3>1
  <2>2. CASE i # 1
    <3>1. i \in 1 .. 1 + (Len(s) - 1) /\ ~(i <= 1) /\ i - 1 \in 1 .. Len(s) - 1 /\ (i - 1) + 1 = i
      BY <1>2, <2>2
    <3> QED BY <1>1, <1>4, <3>1
  <2> QED BY <2>1, <2>2
<1>7. t = s
  BY <1>4, <1>5, <1>6, SeqEqual
<1> QED BY <1>1, <1>2, <1>7 DEF t

\* An element goes from the front of one sequence to the back of the other.
Moves1(s, t) == Append(s, Head(t)) \o Tail(t) = s \o t

LEMMA MoveOn ==
    ASSUME NEW S, NEW s \in Seq(S), NEW t \in Seq(S), t # <<>>
    PROVE  Append(s, Head(t)) \in Seq(S) /\ Moves1(s, t)
<1>1. Head(t) \in S /\ Tail(t) \in Seq(S) /\ <<Head(t)>> \in Seq(S) /\ <<Head(t)>> \o Tail(t) = t
  BY Together, Pieces
<1>2. Append(s, Head(t)) \in Seq(S) /\ Append(s, Head(t)) = s \o <<Head(t)>>
  BY <1>1, AppendProperties, AppendIsConcat
<1>3. (s \o <<Head(t)>>) \o Tail(t) = s \o (<<Head(t)>> \o Tail(t))
  BY <1>1, ConcatAssociative
<1> QED BY <1>1, <1>2, <1>3 DEF Moves1

\* The first of the bytes that are received and those on the way.
Begun(s, t, a, u) == s \o t = <<a>> \o u
Behind(s, t, u) == Tail(s) \o t = u

LEMMA FirstByte ==
    \A s, t, u \in Seq(Bytes) : \A a \in Bytes :
        s # <<>> /\ Begun(s, t, a, u) => Head(s) = a /\ Behind(s, t, u)
<1> SUFFICES ASSUME NEW s \in Seq(Bytes), NEW t \in Seq(Bytes), NEW u \in Seq(Bytes), NEW a \in Bytes,
                    s # <<>>, Begun(s, t, a, u)
             PROVE  Head(s) = a /\ Behind(s, t, u)
  OBVIOUS
<1>1. s \o t = <<a>> \o u
  BY DEF Begun
<1>2. Head(s) \in Bytes /\ Tail(s) \in Seq(Bytes) /\ <<Head(s)>> \in Seq(Bytes)
      /\ <<Head(s)>> \o Tail(s) = s
  BY Together, Pieces
<1>3. (<<Head(s)>> \o Tail(s)) \o t = <<Head(s)>> \o (Tail(s) \o t)
  BY <1>2, ConcatAssociative
<1>4. Tail(s) \o t \in Seq(Bytes)
  BY <1>2, ConcatProperties
<1> DEFINE v == Tail(s) \o t
<1> HIDE DEF v
<1>5. <<Head(s)>> \o v = <<a>> \o u /\ v \in Seq(Bytes)
  BY <1>1, <1>2, <1>3, <1>4 DEF v
<1>6. Head(<<Head(s)>> \o v) = Head(s) /\ Tail(<<Head(s)>> \o v) = v
  BY <1>2, <1>5, Pieces
<1>7. Head(<<a>> \o u) = a /\ Tail(<<a>> \o u) = u
  BY Pieces
<1> QED BY <1>5, <1>6, <1>7 DEF v, Behind

LEMMA Pair == ASSUME NEW a, NEW b PROVE <<a>> \o <<b>> = <<a, b>>
<1> DEFINE S == {a, b}
<1>1. /\ <<a>> \in Seq(S) /\ <<b>> \in Seq(S) /\ Len(<<a>>) = 1 /\ Len(<<b>>) = 1
      /\ <<a>>[1] = a /\ <<b>>[1] = b
      /\ <<a, b>> \in Seq(S) /\ Len(<<a, b>>) = 2 /\ <<a, b>>[1] = a /\ <<a, b>>[2] = b
  OBVIOUS
<1>2. /\ <<a>> \o <<b>> \in Seq(S) /\ Len(<<a>> \o <<b>>) = 1 + 1
      /\ \A i \in 1 .. 1 + 1 : (<<a>> \o <<b>>)[i] = IF i <= 1 THEN <<a>>[i] ELSE <<b>>[i - 1]
  BY <1>1, ConcatProperties
<1> DEFINE t == <<a>> \o <<b>>
           u == <<a, b>>
<1>3. /\ t \in Seq(S) /\ Len(t) = 2 /\ t[1] = a /\ t[2] = b
      /\ u \in Seq(S) /\ Len(u) = 2 /\ u[1] = a /\ u[2] = b
  BY <1>1, <1>2
<1> HIDE DEF S, t, u
<1>4. \A i \in 1 .. Len(t) : i = 1 \/ i = 2
  BY <1>3
<1>5. t = u
  BY <1>3, <1>4, SeqEqual
<1> QED BY <1>5 DEF t, u

LEMMA Triple == \A a, b, c : <<a, b>> \o <<c>> = <<a, b, c>>
<1> SUFFICES ASSUME NEW a, NEW b, NEW c PROVE <<a, b>> \o <<c>> = <<a, b, c>>
  OBVIOUS
<1>1. <<a, b, c>> = <<a, b>> \o <<c>>
  OBVIOUS
<1> QED BY <1>1

-----------------------------------------------------------------------------
(* Operations and their lines.                                               *)

LEMMA Names ==
    /\ Status.op = "S1" /\ Again.op = "S1 again" /\ Apply.op = "G1" /\ Get.op = "U1"
    /\ Close.op = "close" /\ \A v : Set(v).op = "D1" /\ Set(v).volts = v
    /\ Status # Again /\ Status # Apply /\ Status # Get /\ Status # Close
    /\ Again # Apply /\ Again # Get /\ Again # Close /\ Apply # Get /\ Apply # Close /\ Get # Close
    /\ \A v : Set(v) \notin {Status, Again, Apply, Get, Close}
<1>1. /\ Status.op = "S1" /\ Again.op = "S1 again" /\ Apply.op = "G1" /\ Get.op = "U1"
      /\ Close.op = "close" /\ \A v : Set(v).op = "D1" /\ Set(v).volts = v
  BY DEF Status, Again, Apply, Get, Close, Set
<1> QED BY <1>1

LEMMA Symbols ==
    /\ \A v \in Volts : v \in Seq(Digits) /\ v \in Seq(Bytes) /\ v # <<>> /\ Len(v) \in Nat \ {0}
    /\ \A v \in Volts : \A i \in 1 .. Len(v) : v[i] \in Digits
    /\ {"D", "G", "S", "U", "CR", "LF", "end"} \cap Digits = {} /\ Digits \subseteq Bytes
    /\ {"D", "G", "S", "U", "CR", "LF", "end", "volts", "????"} \subseteq Bytes /\ States \subseteq Bytes
    /\ Zero \in Volts
<1>1. Volts \subseteq Seq(Digits) \ {<<>>} /\ Zero \in Volts
  BY VoltsAssumption
<1>2. Digits \subseteq Bytes
  BY DEF Bytes
<1>3. \A v \in Volts : v \in Seq(Digits) /\ v # <<>> /\ Len(v) \in Nat \ {0}
  BY <1>1, EmptySeq, LenProperties
<1>4. \A v \in Volts : \A i \in 1 .. Len(v) : v[i] \in Digits
  BY <1>3, ElementOfSeq
<1>5. \A v \in Volts : v \in Seq(Bytes)
  BY <1>2, <1>3, SeqMonotonic
<1> QED BY <1>1, <1>2, <1>3, <1>4, <1>5 DEF Digits, Bytes

\* What the supply has of the line of a voltage before its LF.
Body(v) == (<<"D">> \o v) \o <<"CR">>

\* Its letter, its digits, its CR: a number, of this voltage.
LEMMA BodyIs ==
    ASSUME NEW v \in Volts
    PROVE  /\ Body(v) \in Seq(Bytes) /\ Len(Body(v)) = Len(v) + 2 /\ Len(v) \in Nat \ {0}
           /\ Body(v)[1] = "D" /\ Body(v)[Len(v) + 2] = "CR"
           /\ \A i \in 2 .. Len(v) + 1 : Body(v)[i] \in Digits
           /\ Number(Body(v)) /\ Voltage(Body(v)) = v
<1> DEFINE t == <<"D">> \o v
           n == Len(v)
<1>1. /\ v \in Seq(Bytes) /\ n \in Nat \ {0} /\ \A i \in 1 .. n : v[i] \in Digits
      /\ "D" \in Bytes /\ "CR" \in Bytes /\ Digits \subseteq Bytes
  BY Symbols
<1>2. t \in Seq(Bytes) /\ Len(t) = n + 1 /\ Tail(t) = v /\ Head(t) = "D" /\ t # <<>>
  BY <1>1, Pieces
<1>3. t[1] = "D" /\ \A i \in 1 .. n : v[i] = t[i + 1]
  BY <1>1, <1>2, Together
<1> HIDE DEF t
<1>4. <<"CR">> \in Seq(Bytes) /\ Len(<<"CR">>) = 1 /\ <<"CR">>[1] = "CR"
  BY <1>1
<1> DEFINE l == t \o <<"CR">>
<1>5. /\ l \in Seq(Bytes) /\ Len(l) = (n + 1) + 1
      /\ \A i \in 1 .. (n + 1) + 1 : l[i] = IF i <= n + 1 THEN t[i] ELSE <<"CR">>[i - (n + 1)]
  BY <1>2, <1>4, ConcatProperties
<1> HIDE DEF l
<1>6. Len(l) = n + 2 /\ Len(l) - 1 = n + 1
  BY <1>1, <1>5
<1>7. l[1] = "D"
  <2>1. 1 \in 1 .. (n + 1) + 1 /\ 1 <= n + 1
    BY <1>1
  <2> QED BY <1>3, <1>5, <2>1
<1>8. l[n + 2] = "CR"
  <2>1. n + 2 \in 1 .. (n + 1) + 1 /\ ~(n + 2 <= n + 1) /\ (n + 2) - (n + 1) = 1
    BY <1>1
  <2> QED BY <1>4, <1>5, <2>1
<1>9. ASSUME NEW i \in 1 .. n PROVE l[i + 1] = v[i] /\ l[i + 1] \in Bytes
  <2>1. i + 1 \in 1 .. (n + 1) + 1 /\ i + 1 <= n + 1
    BY <1>1
  <2> QED BY <1>1, <1>3, <1>5, <2>1
<1>10. ASSUME NEW i \in 2 .. n + 1 PROVE l[i] \in Digits
  <2>1. i - 1 \in 1 .. n /\ (i - 1) + 1 = i
    BY <1>1
  <2> QED BY <1>1, <1>9, <2>1
<1>11. Number(l)
  <2>1. n + 2 > 2
    BY <1>1
  <2> QED BY <1>6, <1>7, <1>8, <1>10, <2>1 DEF Number
<1>12. Voltage(l) = v
  <2> DEFINE u == SubSeq(l, 2, n + 1)
  <2>1. \A i \in 2 .. n + 1 : l[i] \in Bytes
    BY <1>1, <1>10
  <2>2. /\ u \in Seq(Bytes) /\ Len(u) = IF 2 <= n + 1 THEN (n + 1) - 2 + 1 ELSE 0
        /\ \A i \in 1 .. (n + 1) - 2 + 1 : u[i] = l[2 + i - 1]
    <3>1. 2 \in Int /\ n + 1 \in Int
      BY <1>1
    <3> QED BY <2>1, <3>1, SubSeqProperties
  <2>3. Voltage(l) = u
    BY <1>6 DEF Voltage
  <2> HIDE DEF u
  <2>4. Len(u) = n
    BY <1>1, <2>2
  <2>5. \A i \in 1 .. n : i \in 1 .. (n + 1) - 2 + 1 /\ 2 + i - 1 = i + 1
    BY <1>1
  <2>6. \A i \in 1 .. Len(u) : u[i] = v[i]
    BY <1>9, <2>2, <2>4, <2>5
  <2>7. u = v
    BY <1>1, <2>2, <2>4, <2>6, SeqEqual
  <2> QED BY <2>3, <2>7
<1> QED BY <1>1, <1>5, <1>6, <1>7, <1>8, <1>10, <1>11, <1>12 DEF Body, l, t

\* The line of a voltage.
VoltLine(v) == Body(v) \o <<"LF">>

LEMMA LineIs ==
    /\ \A v \in Volts : Line(Set(v)) = VoltLine(v)
    /\ Line(Apply) = <<"G", "CR", "LF">> /\ Line(Get) = <<"U", "CR", "LF">>
    /\ Line(Status) = <<"S", "CR", "LF">> /\ Line(Again) = <<"S", "CR", "LF">>
<1>1. ASSUME NEW v \in Volts PROVE Line(Set(v)) = VoltLine(v)
  <2>1. Line(Set(v)) = (<<"D">> \o v) \o <<"CR", "LF">>
    BY Names DEF Line
  <2>2. <<"D">> \o v \in Seq(Bytes) /\ <<"CR">> \in Seq(Bytes) /\ <<"LF">> \in Seq(Bytes)
    BY Symbols, Pieces
  <2>3. ((<<"D">> \o v) \o <<"CR">>) \o <<"LF">> = (<<"D">> \o v) \o (<<"CR">> \o <<"LF">>)
    BY <2>2, ConcatAssociative
  <2>4. <<"CR">> \o <<"LF">> = <<"CR", "LF">>
    BY Pair
  <2> QED BY <2>1, <2>3, <2>4 DEF VoltLine, Body
<1>2. /\ Line(Apply) = <<"G", "CR", "LF">> /\ Line(Get) = <<"U", "CR", "LF">>
      /\ Line(Status) = <<"S", "CR", "LF">> /\ Line(Again) = <<"S", "CR", "LF">>
  BY Names DEF Line
<1> QED BY <1>1, <1>2

\* Its letter, its digits, its end.
LEMMA VoltLineIs ==
    ASSUME NEW v \in Volts
    PROVE  /\ VoltLine(v) \in Seq(Bytes) /\ Len(VoltLine(v)) = Len(v) + 3 /\ Len(v) \in Nat \ {0}
           /\ VoltLine(v)[1] = "D" /\ VoltLine(v)[Len(v) + 3] = "LF"
           /\ \A i \in 2 .. Len(v) + 2 : VoltLine(v)[i] \in Digits \cup {"CR"}
<1> DEFINE t == Body(v)
           n == Len(v)
<1>1. /\ t \in Seq(Bytes) /\ Len(t) = n + 2 /\ n \in Nat \ {0} /\ t[1] = "D" /\ t[n + 2] = "CR"
      /\ \A i \in 2 .. n + 1 : t[i] \in Digits
  BY BodyIs
<1>2. <<"LF">> \in Seq(Bytes) /\ Len(<<"LF">>) = 1 /\ <<"LF">>[1] = "LF"
  BY Symbols
<1> HIDE DEF t
<1> DEFINE l == t \o <<"LF">>
<1>3. /\ l \in Seq(Bytes) /\ Len(l) = (n + 2) + 1
      /\ \A i \in 1 .. (n + 2) + 1 : l[i] = IF i <= n + 2 THEN t[i] ELSE <<"LF">>[i - (n + 2)]
  BY <1>1, <1>2, ConcatProperties
<1> HIDE DEF l
<1>4. Len(l) = n + 3
  BY <1>1, <1>3
<1>5. l[1] = "D"
  <2>1. 1 \in 1 .. (n + 2) + 1 /\ 1 <= n + 2
    BY <1>1
  <2> QED BY <1>1, <1>3, <2>1
<1>6. l[n + 3] = "LF"
  <2>1. n + 3 \in 1 .. (n + 2) + 1 /\ ~(n + 3 <= n + 2) /\ (n + 3) - (n + 2) = 1
    BY <1>1
  <2> QED BY <1>2, <1>3, <2>1
<1>7. ASSUME NEW i \in 2 .. n + 2 PROVE l[i] \in Digits \cup {"CR"}
  <2>1. i \in 1 .. (n + 2) + 1 /\ i <= n + 2 /\ (i = n + 2 \/ i \in 2 .. n + 1)
    BY <1>1
  <2> QED BY <1>1, <1>3, <2>1
<1> QED BY <1>1, <1>3, <1>4, <1>5, <1>6, <1>7 DEF VoltLine, l, t

\* Every line begins with a letter and ends with its only LF.
LEMMA LineFacts ==
    ASSUME NEW o \in Ops
    PROVE  /\ Line(o) \in Seq(Bytes) /\ Ended(Line(o))
           /\ Head(Line(o)) \in {"D", "G", "S", "U"} /\ Head(Line(o)) \notin Digits \cup {"CR", "LF"}
<1>1. CASE o \in {Apply, Get, Status, Again}
  <2>1. PICK c \in {"G", "U", "S"} : Line(o) = <<c, "CR", "LF">>
    BY <1>1, LineIs
  <2>2. c \in Bytes /\ {"CR", "LF"} \subseteq Bytes /\ c \notin Digits \cup {"CR", "LF"}
    BY Symbols
  <2>3. <<c, "CR", "LF">> \in Seq(Bytes) /\ Ended(<<c, "CR", "LF">>) /\ Head(<<c, "CR", "LF">>) = c
    BY <2>2 DEF Ended
  <2> QED BY <2>1, <2>2, <2>3
<1>2. CASE o \notin {Apply, Get, Status, Again}
  <2>1. PICK v \in Volts : Line(o) = VoltLine(v)
    BY <1>2, LineIs DEF Ops, Works
  <2> DEFINE l == VoltLine(v)
  <2>2. /\ l \in Seq(Bytes) /\ Len(l) = Len(v) + 3 /\ Len(v) \in Nat \ {0}
        /\ l[1] = "D" /\ l[Len(v) + 3] = "LF"
        /\ \A i \in 2 .. Len(v) + 2 : l[i] \in Digits \cup {"CR"}
    BY VoltLineIs
  <2> HIDE DEF l
  <2>3. l # <<>> /\ Head(l) = "D"
    <3>1. Len(l) # 0
      BY <2>2
    <3> QED BY <2>2, <3>1, EmptySeq, Together
  <2>4. ASSUME NEW i \in 1 .. Len(l) PROVE l[i] = "LF" <=> i = Len(l)
    <3>1. i = 1 \/ i \in 2 .. Len(v) + 2 \/ i = Len(v) + 3
      BY <2>2
    <3>2. 1 # Len(l) /\ \A j \in 2 .. Len(v) + 2 : j # Len(l)
      BY <2>2
    <3> QED BY <2>2, <3>1, <3>2, Symbols
  <2>5. Ended(l)
    BY <2>3, <2>4 DEF Ended
  <2> QED BY <2>1, <2>2, <2>3, <2>5, Symbols DEF l
<1> QED BY <1>1, <1>2

-----------------------------------------------------------------------------
(* What the supply makes of a line.                                          *)

LEMMA SpoiltIsNone ==
    ASSUME NEW l, Spoilt(l) PROVE ~Number(l)
BY DEF Spoilt, Number

\* More characters do not help, and no letter fits behind others.
LEMMA SpoiltMore ==
    ASSUME NEW l \in Seq(Bytes), NEW c \in Bytes, l # <<>>, Spoilt(l) \/ c \notin Digits \cup {"CR"}
    PROVE  Spoilt(Append(l, c))
<1> DEFINE t == Append(l, c)
           n == Len(l)
<1>1. n \in Nat \ {0}
  BY EmptySeq, LenProperties
<1>2. /\ t \in Seq(Bytes) /\ Len(t) = n + 1 /\ t[n + 1] = c
      /\ \A i \in 1 .. n : t[i] = l[i]
  BY AppendProperties
<1> HIDE DEF t
<1>3. t # <<>>
  BY <1>1, <1>2, EmptySeq
<1>4. 1 \in 1 .. n /\ n + 1 \in 2 .. n + 1 /\ \A i \in 2 .. n : i \in 1 .. n /\ i \in 2 .. n + 1
  BY <1>1
<1> QED BY <1>2, <1>3, <1>4 DEF Spoilt, t

\* A line that was sent whole to a supply that had nothing of another line.
LEMMA Whole ==
    ASSUME NEW o \in Ops, NEW l \in Seq(Bytes), l \o <<"LF">> = Line(o)
    PROVE  /\ o.op = "D1" => Number(l) /\ Voltage(l) = o.volts /\ o.volts \in Volts
           /\ o.op # "D1" => ~Number(l)
           /\ o = Apply => l = <<"G", "CR">>
           /\ o = Get => l = <<"U", "CR">>
           /\ o \in {Status, Again} => l = <<"S", "CR">>
<1>1. \A t \in Seq(Bytes) : l \o <<"LF">> = t \o <<"LF">> => l = t
  <2>1. <<"LF">> \in Seq(Bytes)
    BY Symbols
  <2> QED BY <2>1, ConcatSimplifications
<1>2. CASE o \in {Apply, Get, Status, Again}
  <2>1. PICK c \in {"G", "U", "S"} :
            /\ Line(o) = <<c, "CR", "LF">>
            /\ o = Apply => c = "G"
            /\ o = Get => c = "U"
            /\ o \in {Status, Again} => c = "S"
    BY <1>2, LineIs, Names
  <2>2. <<c, "CR">> \in Seq(Bytes)
    BY Symbols
  <2>3. <<c, "CR">> \o <<"LF">> = <<c, "CR", "LF">>
    BY Triple
  <2>4. l = <<c, "CR">>
    BY <1>1, <2>1, <2>2, <2>3
  <2>5. ~Number(l)
    BY <2>4 DEF Number
  <2> QED BY <1>2, <2>1, <2>4, <2>5, Names
<1>3. CASE o \notin {Apply, Get, Status, Again}
  <2>1. PICK v \in Volts : o = Set(v)
    BY <1>3 DEF Ops, Works
  <2>2. l \o <<"LF">> = Body(v) \o <<"LF">>
    BY <2>1, LineIs DEF VoltLine
  <2>3. Body(v) \in Seq(Bytes) /\ Number(Body(v)) /\ Voltage(Body(v)) = v
    BY BodyIs
  <2>4. l = Body(v)
    BY <1>1, <2>2, <2>3
  <2> QED BY <1>3, <2>1, <2>3, <2>4, Names
<1> QED BY <1>2, <1>3

-----------------------------------------------------------------------------
(* What there is to do.                                                      *)

LEMMA EndsFacts ==
    /\ leave # <<>> /\ Head(leave) = Set(Zero) /\ Tail(leave) = <<Close>>
    /\ <<Apply, Close>> # <<>> /\ Head(<<Apply, Close>>) = Apply /\ Tail(<<Apply, Close>>) = <<Close>>
    /\ <<Close>> # <<>> /\ Head(<<Close>>) = Close /\ Tail(<<Close>>) = <<>>
    /\ <<>> \notin Ends
  BY DEF leave, Ends

LEMMA EndsHeads ==
    ASSUME NEW s \in Ends
    PROVE  /\ s # <<>> /\ Head(s) \in Works \cup {Apply, Close}
           /\ Head(s) = Close => s = <<Close>>
           /\ Head(s) = Apply => s = <<Apply, Close>>
           /\ Head(s) # Close => Tail(s) = <<Close>>
<1>1. Set(Zero) \in Works
  BY Symbols DEF Works
<1>2. s = leave \/ s = <<Apply, Close>> \/ s = <<Close>>
  BY DEF Ends
<1> QED BY <1>1, <1>2, EndsFacts, Names

LEMMA MenuPlans ==
    ASSUME NEW ops \in Menu \cup {leave}
    PROVE  Plan(ops) /\ ops # <<>> /\ Head(ops) \in Works /\ (ops \in Ends => ops = leave)
<1>1. \A v \in Volts : Set(v) \in Works
  BY DEF Works
<1>2. Get \in Works
  BY DEF Works
<1>3. CASE ops = leave
  BY <1>1, <1>3, EndsFacts, Symbols DEF Plan, Ends
<1>4. ASSUME ops # <<>>, Head(ops) \in Works, Tail(ops) \in Seq(Works)
      PROVE  Plan(ops) /\ (ops \in Ends => ops = leave)
  <2>1. Plan(ops)
    BY <1>4 DEF Plan, Ops
  <2>2. Head(ops) \notin {Apply, Close}
    BY <1>4, Names DEF Works
  <2> QED BY <2>1, <2>2, EndsFacts DEF Ends
<1>5. CASE \E v \in Volts : ops = vb(v)
  <2>1. PICK v \in Volts : ops = <<Set(v)>>
    BY <1>5 DEF vb
  <2>2. ops # <<>> /\ Head(ops) = Set(v) /\ Tail(ops) = <<>>
    BY <2>1
  <2> QED BY <1>1, <1>4, <2>2, EmptySeq
<1>6. CASE ops = getvb
  <2>1. ops # <<>> /\ Head(ops) = Get /\ Tail(ops) = <<>>
    BY <1>6 DEF getvb
  <2> QED BY <1>2, <1>4, <2>1, EmptySeq
<1>7. CASE ops = hvoff
  <2>1. ops # <<>> /\ Head(ops) = Set(Zero) /\ Tail(ops) = <<>>
    BY <1>7 DEF hvoff
  <2> QED BY <1>1, <1>4, <2>1, EmptySeq, Symbols
<1>8. CASE \E s \in Scans : ops = scanvb(s[1], s[2])
  <2>1. PICK s \in Scans : ops = scanvb(s[1], s[2])
    BY <1>8
  <2>2. s[1] \in Volts /\ s[2] \in Volts
    BY VoltsAssumption
  <2> DEFINE a == Set(s[1])
             b == Set(s[2])
  <2>3. a \in Works /\ b \in Works
    BY <1>1, <2>2
  <2>4. ops = <<a, Get, Get, b, Get, Get, a>>
    BY <2>1 DEF scanvb
  <2> HIDE DEF a, b
  <2>5. <<a, Get, Get, b, Get, Get, a>> \in Seq(Works)
    BY <1>2, <2>3
  <2>6. ops # <<>> /\ Head(ops) = a
    BY <2>4
  <2>7. Tail(ops) \in Seq(Works)
    BY <2>4, <2>5, <2>6, HeadTailProperties
  <2> QED BY <1>4, <2>3, <2>6, <2>7
<1> QED BY <1>3, <1>5, <1>6, <1>7, <1>8 DEF Menu

\* The operations behind the one in progress.
LEMMA Rest ==
    ASSUME Plan(todo), todo # <<>>, Head(todo) # Close
    PROVE  /\ Plan(Tail(todo))
           /\ Tail(todo) # <<>> => Head(Tail(todo)) \in Works \cup {Close}
           /\ Tail(todo) \in Ends => todo \in Ends /\ Tail(todo) = <<Close>>
           /\ Plan(<<Apply>> \o Tail(todo))
           /\ <<Apply>> \o Tail(todo) # <<>> /\ Head(<<Apply>> \o Tail(todo)) = Apply
           /\ <<Apply>> \o Tail(todo) \in Ends => todo \in Ends
           /\ todo \in Ends => Tail(todo) = <<Close>>
           /\ Head(todo) \in Ops
<1>1. CASE todo \in Ends
  <2>1. Tail(todo) = <<Close>> /\ Head(todo) \in Ops
    BY <1>1, EndsHeads DEF Ops
  <2>2. <<Close>> \in Ends /\ <<Apply, Close>> \in Ends
    BY DEF Ends
  <2>3. <<Apply>> \o <<Close>> = <<Apply, Close>>
    BY Pair
  <2> QED BY <1>1, <2>1, <2>2, <2>3, EndsFacts DEF Plan
<1>2. CASE todo \notin Ends
  <2>1. Head(todo) \in Ops /\ Tail(todo) \in Seq(Works)
    BY <1>2 DEF Plan
  <2> DEFINE t == Tail(todo)
             u == <<Apply>> \o t
  <2>2. t # <<>> => Head(t) \in Works /\ Tail(t) \in Seq(Works)
    BY <2>1, HeadTailProperties
  <2>3. Works \subseteq Ops /\ Apply \in Ops /\ Close \notin Ops /\ Apply \notin Works
    BY Names DEF Ops, Works
  <2>4. u # <<>> /\ Head(u) = Apply /\ Tail(u) = t
    <3>1. t \in Seq(Ops)
      BY <2>1, <2>3, SeqMonotonic
    <3> QED BY <2>3, <3>1, Pieces
  <2>5. t \notin Ends
    <3> SUFFICES ASSUME t \in Ends PROVE FALSE
      OBVIOUS
    <3>1. t # <<>>
      BY EndsFacts
    <3>2. Head(t) = Set(Zero)
      BY <2>2, <2>3, <3>1, EndsFacts, Names DEF Ends
    <3>3. t = leave
      BY <2>2, <2>3, <3>1, EndsFacts DEF Ends
    <3>4. Tail(t) = <<Close>> /\ Tail(t) \in Seq(Works)
      BY <2>2, <3>1, <3>3, EndsFacts
    <3>5. Head(Tail(t)) \in Works
      BY <3>4, EndsFacts, HeadTailProperties
    <3> QED BY <2>3, <3>4, <3>5, EndsFacts
  <2>6. u \notin Ends
    <3> SUFFICES ASSUME u \in Ends PROVE FALSE
      OBVIOUS
    <3>1. Tail(u) = <<Close>>
      BY <2>4, EndsHeads, Names
    <3>2. t \in Ends
      BY <2>4, <3>1 DEF Ends
    <3> QED BY <2>5, <3>2
  <2>7. Plan(t) /\ Plan(u)
    BY <2>1, <2>2, <2>3, <2>4 DEF Plan
  <2> HIDE DEF t, u
  <2>8. t = Tail(todo) /\ u = <<Apply>> \o Tail(todo)
    BY DEF t, u
  <2> QED BY <1>2, <2>1, <2>2, <2>4, <2>5, <2>6, <2>7, <2>8
<1> QED BY <1>1, <1>2

\* The operation that is in progress.
LEMMA Present ==
    ASSUME Planned
    PROVE  /\ Busy => todo # <<>> /\ Head(todo) # Close /\ Head(todo) \in Ops
           /\ pc = "op" => todo # <<>> /\ Head(todo) \in Works \cup {Close}
<1>1. Busy => todo # <<>> /\ Head(todo) # Close
  BY DEF Planned
<1>2. pc = "op" => todo # <<>> /\ Head(todo) \in Works \cup {Close}
  BY DEF Planned
<1>3. Busy => Head(todo) \in Ops
  BY <1>1, Rest DEF Planned
<1> QED BY <1>1, <1>2, <1>3

\* The next operation begins, or the prompt comes.
LEMMA OnwardPlanned ==
    ASSUME Plan(todo), todo # <<>>, Head(todo) # Close, Onward(Tail(todo)) PROVE Planned'
<1>1. Plan(Tail(todo)) /\ (Tail(todo) # <<>> => Head(Tail(todo)) \in Works \cup {Close})
  BY Rest
<1>2. todo' = Tail(todo) /\ pc' = IF todo' = <<>> THEN "prompt" ELSE "op"
  BY DEF Onward
<1> QED BY <1>1, <1>2 DEF Planned, Busy

LEMMA DonePlanned == ASSUME Onward(<<>>) PROVE Planned'
BY DEF Onward, Planned, Plan, Busy

LEMMA SinglePlanned ==
    ASSUME NEW o \in {Status, Again}, todo' = <<o>>, pc' = "exchange"
    PROVE  Planned' /\ Head(todo') = o
<1>1. todo' # <<>> /\ Head(todo') = o /\ Tail(todo') = <<>>
  <2>1. <<o>> # <<>> /\ Head(<<o>>) = o /\ Tail(<<o>>) = <<>>
    OBVIOUS
  <2> QED BY <2>1
<1>2. o \in Ops /\ o # Close
  BY Names DEF Ops
<1> QED BY <1>1, <1>2, EmptySeq DEF Planned, Plan, Busy

LEMMA PlannedKept ==
    ASSUME Planned, [Next]_vars PROVE Planned'
<1>1. ASSUME todo' = todo, Busy, Busy' PROVE Planned'
  BY <1>1 DEF Planned, Busy
<1>2. CASE UNCHANGED vars
  BY <1>2 DEF vars, Planned, Busy
<1>3. CASE \E ops \in Menu \cup {leave} : Type(ops)
  BY <1>3, MenuPlans DEF Type, Planned, Busy
<1>4. CASE SetVoltage
  <2>1. Plan(todo) /\ todo # <<>> /\ Head(todo) # Close /\ pc = "op"
    BY <1>4, Names DEF SetVoltage, Planned
  <2>2. CASE Onward(Tail(todo))
    BY <2>1, <2>2, OnwardPlanned
  <2>3. CASE pc' = "exchange" /\ todo' = todo
    BY <2>1, <2>3 DEF Planned, Busy
  <2> QED BY <1>4, <2>2, <2>3 DEF SetVoltage
<1>5. CASE GetVoltage
  <2>1. Plan(todo) /\ todo # <<>> /\ Head(todo) # Close /\ pc = "op"
    BY <1>5, Names DEF GetVoltage, Planned
  <2>2. CASE Onward(Tail(todo))
    BY <2>1, <2>2, OnwardPlanned
  <2>3. CASE pc' = "exchange" /\ todo' = todo
    BY <2>1, <2>3 DEF Planned, Busy
  <2> QED BY <1>5, <2>2, <2>3 DEF GetVoltage
<1>6. CASE ClosePort
  BY <1>6 DEF ClosePort, Planned, Busy
<1>7. CASE Start
  BY <1>7, SinglePlanned DEF Start
<1>8. CASE Begin \/ SendChar \/ Echo \/ EchoLate \/ AnswerPiece \/ AnswerLate
  <2>1. todo' = todo /\ Busy /\ Busy'
    BY <1>8 DEF Begin, SendChar, Send, Echo, EchoLate, Compare, AnswerPiece, AnswerLate, Timeout, Busy
  <2> QED BY <1>1, <2>1
<1>9. ASSUME pc = "got" PROVE Plan(todo) /\ todo # <<>> /\ Head(todo) # Close
  BY <1>9 DEF Planned, Busy
<1>10. CASE GotStatus
  BY <1>10, DonePlanned, SinglePlanned DEF GotStatus
<1>11. CASE GotAgain
  BY <1>11, DonePlanned DEF GotAgain
<1>12. CASE GotSet
  <2>1. todo' = <<Apply>> \o Tail(todo) /\ pc' = "exchange"
    BY <1>12 DEF GotSet
  <2>2. Plan(todo') /\ todo' # <<>> /\ Head(todo') = Apply
    BY <1>9, <1>12, <2>1, Rest DEF GotSet
  <2> QED BY <2>1, <2>2, Names DEF Planned, Busy
<1>13. CASE GotApply \/ GotValue
  BY <1>9, <1>13, OnwardPlanned DEF GotApply, GotValue
<1>14. CASE Crash
  <2>1. todo' = <<Get>> /\ pc' = "out"
    BY <1>14 DEF Crash
  <2>2. todo' # <<>> /\ Head(todo') = Get /\ Tail(todo') = <<>>
    BY <2>1
  <2> QED BY <2>1, <2>2, EmptySeq DEF Planned, Plan, Busy, Ops, Works
<1>15. CASE Deliver \/ Ramped \/ \E s \in {"TRP", "OFF", "MAN"} : Turn(s)
  BY <1>15 DEF Deliver, Ramped, Turn, Planned, Busy
<1> QED BY <1>2, <1>3, <1>4, <1>5, <1>6, <1>7, <1>8, <1>10, <1>11, <1>12, <1>13, <1>14, <1>15 DEF Next

-----------------------------------------------------------------------------
(* The line that is sent.                                                    *)

\* CR LF is the last character, and then everything was sent.
LEMMA EndedFacts ==
    ASSUME NEW l \in Seq(Bytes), Ended(l)
    PROVE  /\ l # <<>> /\ Head(l) \in Bytes /\ Tail(l) \in Seq(Bytes)
           /\ Head(l) = "LF" <=> ~(Len(l) > 1)
           /\ Head(l) = "LF" => l = <<"LF">>
           /\ Len(l) > 1 => Ended(Tail(l)) /\ Tail(l) # <<>>
<1>1. /\ l # <<>> /\ Head(l) \in Bytes /\ Tail(l) \in Seq(Bytes) /\ Head(l) = l[1]
      /\ Len(l) \in Nat /\ Len(l) # 0 /\ Len(Tail(l)) = Len(l) - 1
      /\ \A i \in 1 .. Len(Tail(l)) : Tail(l)[i] = l[i + 1]
  BY Together DEF Ended
<1>2. \A i \in 1 .. Len(l) : l[i] = "LF" <=> i = Len(l)
  BY DEF Ended
<1>3. 1 \in 1 .. Len(l) /\ (1 = Len(l) <=> ~(Len(l) > 1))
  BY <1>1
<1>4. Head(l) = "LF" <=> ~(Len(l) > 1)
  BY <1>1, <1>2, <1>3
<1>5. ASSUME Head(l) = "LF" PROVE l = <<"LF">>
  <2>1. Len(l) = 1 /\ l[1] = "LF"
    BY <1>1, <1>3, <1>4, <1>5
  <2>2. <<"LF">> \in Seq(Bytes) /\ Len(<<"LF">>) = 1 /\ <<"LF">>[1] = "LF"
    BY Symbols
  <2>3. \A i \in 1 .. Len(l) : i = 1
    BY <2>1
  <2> QED BY <2>1, <2>2, <2>3, SeqEqual
<1>6. ASSUME Len(l) > 1 PROVE Ended(Tail(l)) /\ Tail(l) # <<>>
  <2> DEFINE t == Tail(l)
  <2> HIDE DEF t
  <2>1. t \in Seq(Bytes) /\ Len(t) = Len(l) - 1 /\ \A i \in 1 .. Len(t) : t[i] = l[i + 1]
    BY <1>1 DEF t
  <2>2. t # <<>>
    <3>1. Len(t) # 0
      BY <1>1, <1>6, <2>1
    <3> QED BY <3>1, EmptySeq
  <2>3. ASSUME NEW i \in 1 .. Len(t) PROVE t[i] = "LF" <=> i = Len(t)
    <3>1. i + 1 \in 1 .. Len(l) /\ (i + 1 = Len(l) <=> i = Len(t))
      BY <1>1, <2>1
    <3> QED BY <1>2, <2>1, <3>1
  <2>4. Ended(t)
    BY <2>2, <2>3 DEF Ended
  <2> QED BY <2>2, <2>4 DEF t
<1> QED BY <1>1, <1>4, <1>5, <1>6

\* A character is about to be sent.
LEMMA AboutToSend ==
    ASSUME Always, pc = "send"
    PROVE  /\ cmd \in Seq(Bytes) /\ Ended(cmd) /\ Head(todo) \in Ops /\ input \in Seq(Bytes)
           /\ Head(cmd) \in Bytes /\ Tail(cmd) \in Seq(Bytes)
           /\ Append(input, Head(cmd)) \in Seq(Bytes)
           /\ Head(cmd) = "LF" => /\ cmd = <<"LF">>
                                  /\ Spoilt(input) \/ input \o <<"LF">> = Line(Head(todo))
           /\ Head(cmd) # "LF" =>
                 Spoilt(Append(input, Head(cmd))) \/ Append(input, Head(cmd)) \o Tail(cmd) = Line(Head(todo))
<1>1. /\ cmd \in Seq(Bytes) /\ Ended(cmd) /\ Head(todo) \in Ops /\ input \in Seq(Bytes)
  BY Present DEF Always, Types, Sending, Busy
<1>2. /\ cmd # <<>> /\ Head(cmd) \in Bytes /\ Tail(cmd) \in Seq(Bytes)
      /\ Head(cmd) = "LF" => cmd = <<"LF">>
  BY <1>1, EndedFacts
<1>3. Append(input, Head(cmd)) \in Seq(Bytes) /\ Append(input, Head(cmd)) \o Tail(cmd) = input \o cmd
  BY <1>1, <1>2, MoveOn DEF Moves1
<1>4. cmd = Line(Head(todo)) \/ Spoilt(input) \/ input \o cmd = Line(Head(todo))
  BY DEF Always, Sending
<1>5. CASE Spoilt(input)
  <2>1. input # <<>>
    BY <1>5 DEF Spoilt
  <2> QED BY <1>1, <1>2, <1>3, <1>5, <2>1, SpoiltMore
<1>6. CASE input \o cmd = Line(Head(todo))
  BY <1>1, <1>2, <1>3, <1>6
<1>7. CASE cmd = Line(Head(todo))
  <2>1. Head(cmd) \notin Digits \cup {"CR"} /\ Head(cmd) # "LF"
    BY <1>1, <1>7, LineFacts
  <2>2. CASE input = <<>>
    <3>1. input \o cmd = cmd
      BY <1>1, <2>2, ConcatEmptySeq
    <3> QED BY <1>1, <1>2, <1>3, <1>7, <2>1, <3>1
  <2>3. CASE input # <<>>
    <3>1. Spoilt(Append(input, Head(cmd)))
      BY <1>1, <1>2, <2>1, <2>3, SpoiltMore
    <3> QED BY <1>1, <1>2, <1>3, <2>1, <3>1
  <2> QED BY <2>2, <2>3
<1> QED BY <1>4, <1>5, <1>6, <1>7

\* A character of the line in progress came back, or it is taken for that.
LEMMA Compared ==
    ASSUME Sending, pc = "echo", NEW c, Compare(c), UNCHANGED <<todo, input>>
    PROVE  Sending' /\ pc' \in {"send", "answer", "got"}
<1>1. cmd \in Seq(Bytes) /\ Ended(cmd)
  BY DEF Sending
<1>2. CASE pc' \in {"got", "answer"}
  BY <1>2 DEF Sending
<1>3. CASE Len(cmd) > 1 /\ pc' = "send" /\ cmd' = Tail(cmd)
  <2>1. Head(cmd) # "LF" /\ Tail(cmd) \in Seq(Bytes) /\ Ended(Tail(cmd))
    BY <1>1, <1>3, EndedFacts
  <2> QED BY <1>3, <2>1 DEF Sending
<1> QED BY <1>2, <1>3 DEF Compare

LEMMA SendingKept ==
    ASSUME Always, [Next]_vars PROVE Sending'
<1>1. Sending
  BY DEF Always
<1>2. CASE UNCHANGED <<pc, todo, cmd, input>>
  BY <1>1, <1>2 DEF Sending
<1>3. CASE pc' \notin {"send", "echo"}
  BY <1>3 DEF Sending
<1>4. CASE Begin
  <2>1. pc = "exchange" /\ cmd' = Line(Head(todo)) /\ todo' = todo /\ pc' = "send"
    BY <1>4 DEF Begin
  <2>2. Head(todo) \in Ops
    BY <2>1, Present DEF Always, Busy
  <2> QED BY <2>1, <2>2, LineFacts DEF Sending
<1>5. CASE SendChar
  <2>1. pc = "send" /\ pc' = "echo" /\ UNCHANGED <<todo, cmd>> /\ Hear(Head(cmd))
    BY <1>5 DEF SendChar, Send
  <2>2. Head(cmd) # "LF" => input' = Append(input, Head(cmd))
    BY <2>1 DEF Hear
  <2> QED BY <2>1, <2>2, AboutToSend DEF Sending
<1>6. CASE Echo
  BY <1>1, <1>6, Compared DEF Echo, supply
<1>7. CASE EchoLate
  BY <1>1, <1>7, Compared DEF EchoLate, Timeout, supply
<1> QED BY <1>2, <1>3, <1>4, <1>5, <1>6, <1>7 DEF Next, vars, supply, Type, SetVoltage, GetVoltage, ClosePort,
       Start, AnswerPiece, AnswerLate, Timeout, GotStatus, GotAgain, GotSet, GotApply, GotValue, Crash,
       Deliver, Ramped, Turn, Onward

-----------------------------------------------------------------------------
(* Types, and the voltages that the supply gets.                             *)

LEMMA VoltOf ==
    ASSUME NEW o \in Ops \cup {Close}, o.op = "D1"
    PROVE  o.volts \in Volts /\ o = Set(o.volts)
BY Names DEF Ops, Works

LEMMA ReplyIs ==
    /\ \A l : Number(l) => Reply(l) = <<>>
    /\ \A l \in {<<"G", "CR">>, <<"S", "CR">>} : Reply(l) = <<state>>
    /\ Reply(<<"U", "CR">>) = <<"volts">>
    /\ \A l : Number(l) \/ l \in {<<"G", "CR">>, <<"S", "CR">>, <<"U", "CR">>} \/ Reply(l) = <<"????">>
<1>1. ~Number(<<"G", "CR">>) /\ ~Number(<<"S", "CR">>) /\ ~Number(<<"U", "CR">>)
  BY DEF Number
<1> QED BY <1>1 DEF Reply

LEMMA ReplyType ==
    ASSUME state \in States, NEW l
    PROVE  Reply(l) \in Answers /\ Reply(l) \in Seq(Bytes)
<1>1. <<>> \in Seq(Bytes) /\ <<"volts">> \in Seq(Bytes) /\ <<"????">> \in Seq(Bytes)
      /\ <<state>> \in Seq(Bytes)
  <2>1. "volts" \in Bytes /\ "????" \in Bytes /\ state \in Bytes
    BY Symbols
  <2> QED BY <2>1, EmptySeq
<1>2. Reply(l) \in {<<>>, <<"volts">>, <<"????">>, <<state>>}
  BY ReplyIs
<1> QED BY <1>1, <1>2 DEF Answers

\* The end of a line: no voltage gets into the supply that no command set.
LEMMA ExecuteTypes ==
    ASSUME Always, pc = "send", Head(cmd) = "LF", Execute(input)
    PROVE  /\ stored' \in Volts /\ target' \in Volts /\ state' \in States
           /\ input' \in Seq(Bytes) /\ wire' \in Seq(Bytes)
<1>1. /\ Head(todo) \in Ops /\ input \in Seq(Bytes) /\ wire \in Seq(Bytes)
      /\ Spoilt(input) \/ input \o <<"LF">> = Line(Head(todo))
  BY AboutToSend DEF Always, Types
<1>2. Number(input) => Voltage(input) \in Volts
  BY <1>1, SpoiltIsNone, Whole
<1>3. stored' \in Volts /\ target' \in Volts
  BY <1>2 DEF Execute, Always, Types
<1>4. state' \in States
  <2>1. \A v : Moves(v) \subseteq States
    BY DEF Moves, States, Ready
  <2>2. state \in States /\ "ON" \in States
    BY DEF Always, Types, States, Ready
  <2> QED BY <2>1, <2>2 DEF Execute
<1>5. input' \in Seq(Bytes)
  BY EmptySeq DEF Execute
<1>6. wire' \in Seq(Bytes)
  <2>1. <<"LF">> \in Seq(Bytes) /\ <<"end">> \in Seq(Bytes) /\ Reply(input) \in Seq(Bytes)
    BY ReplyType, Symbols DEF Always, Types
  <2>2. wire \o <<"LF">> \in Seq(Bytes)
    BY <1>1, <2>1, ConcatProperties
  <2>3. (wire \o <<"LF">>) \o Reply(input) \in Seq(Bytes)
    BY <2>1, <2>2, ConcatProperties
  <2> QED BY <2>1, <2>3, ConcatProperties DEF Execute
<1> QED BY <1>3, <1>4, <1>5, <1>6

LEMMA TypesKept ==
    ASSUME Always, [Next]_vars PROVE Types'
<1>1. Types /\ Planned
  BY DEF Always
<1>2. CASE UNCHANGED vars
  BY <1>1, <1>2 DEF vars, iseg, line, supply, history, Types
<1>3. CASE \E ops \in Menu \cup {leave} : Type(ops)
  BY <1>1, <1>3 DEF Type, iseg, line, supply, history, Types
<1>4. CASE SetVoltage
  <2>1. Head(todo).volts \in Volts
    BY <1>1, <1>4, Present, VoltOf DEF SetVoltage, Ops
  <2> QED BY <1>1, <1>4, <2>1 DEF SetVoltage, Onward, iseg, line, supply, Types
<1>5. CASE GetVoltage \/ ClosePort \/ Begin
  BY <1>1, <1>5, EmptySeq DEF GetVoltage, ClosePort, Begin, Onward, iseg, line, supply, history, Types
<1>6. CASE Start
  BY <1>1, <1>6, EmptySeq, Symbols DEF Start, supply, Types
<1>7. CASE SendChar
  <2>1. /\ pc = "send" /\ pc' = "echo" /\ Hear(Head(cmd)) /\ rx' = rx
        /\ UNCHANGED <<iseg_connected, hv_on, voltage_set, told, late, touched, timeouts, turns>>
    BY <1>7 DEF SendChar, Send, iseg, history
  <2>2. CASE Head(cmd) = "LF"
    BY <1>1, <2>1, <2>2, ExecuteTypes DEF Hear, Types
  <2>3. CASE Head(cmd) # "LF"
    <3>1. input' \in Seq(Bytes) /\ wire' \in Seq(Bytes)
      <4>1. Head(cmd) \in Bytes /\ Append(input, Head(cmd)) \in Seq(Bytes) /\ wire \in Seq(Bytes)
        BY <1>1, <2>1, AboutToSend DEF Types
      <4>2. Append(wire, Head(cmd)) \in Seq(Bytes)
        BY <4>1, AppendProperties
      <4> QED BY <2>1, <2>3, <4>1, <4>2 DEF Hear
    <3> QED BY <1>1, <2>1, <2>3, <3>1 DEF Hear, Types
  <2> QED BY <2>2, <2>3
<1>8. CASE Echo
  <2>1. rx' \in Seq(Bytes)
    BY <1>1, <1>8, HeadTailProperties DEF Echo, Types
  <2>2. pc' \in {"send", "answer", "got"}
    BY <1>8 DEF Echo, Compare
  <2> QED BY <1>1, <1>8, <2>1, <2>2 DEF Echo, iseg, supply, history, Types
<1>9. CASE EchoLate \/ AnswerLate
  <2>1. Timeout /\ pc' \in {"send", "answer", "got"}
    BY <1>9 DEF EchoLate, AnswerLate, Compare
  <2>2. timeouts' \in 0 .. MaxLate /\ late' \in BOOLEAN
    <3>1. MaxLate \in Nat
      BY VoltsAssumption
    <3>2. timeouts \in 0 .. MaxLate /\ late \in BOOLEAN
      BY <1>1 DEF Types
    <3>3. timeouts < MaxLate => timeouts + 1 \in 0 .. MaxLate
      BY <3>1, <3>2
    <3> QED BY <2>1, <3>2, <3>3 DEF Timeout
  <2> QED BY <1>1, <2>1, <2>2 DEF Timeout, iseg, line, supply, Types
<1>10. CASE AnswerPiece
  BY <1>1, <1>10, EmptySeq DEF AnswerPiece, iseg, supply, history, Types
<1>11. CASE GotStatus \/ GotAgain \/ GotSet \/ GotApply \/ GotValue \/ Crash
  BY <1>1, <1>11 DEF GotStatus, GotAgain, GotSet, GotApply, GotValue, Crash, Handled, Onward,
       iseg, line, supply, history, Types
<1>12. CASE Deliver
  <2>1. rx' \in Seq(Bytes) /\ wire' \in Seq(Bytes)
    BY <1>1, <1>12, HeadTailProperties, AppendProperties DEF Deliver, Types
  <2> QED BY <1>1, <1>12, <2>1 DEF Deliver, iseg, supply, history, Types
<1>13. CASE Ramped
  BY <1>1, <1>13 DEF Ramped, iseg, line, history, Types, States, Ready
<1>14. ASSUME NEW s \in {"TRP", "OFF", "MAN"}, Turn(s) PROVE Types'
  <2>1. MaxTurns \in Nat /\ Zero \in Volts
    BY VoltsAssumption
  <2>2. turns' \in 0 .. MaxTurns
    BY <1>1, <1>14, <2>1 DEF Turn, Types
  <2>3. target' \in Volts /\ state' \in States
    BY <1>1, <1>14, <2>1 DEF Turn, Types, States
  <2> QED BY <1>1, <1>14, <2>2, <2>3 DEF Turn, iseg, line, Types
<1> QED BY <1>2, <1>3, <1>4, <1>5, <1>6, <1>7, <1>8, <1>9, <1>10, <1>11, <1>12, <1>13, <1>14 DEF Next

LEMMA AlwaysKept == ASSUME Always, [Next]_vars PROVE Always'
<1>1. Planned
  BY DEF Always
<1> QED BY <1>1, PlannedKept, SendingKept, TypesKept DEF Always

LEMMA InitAlways == ASSUME Init PROVE Always
<1>1. 0 \in 0 .. MaxLate /\ 0 \in 0 .. MaxTurns
  <2>1. MaxLate \in Nat /\ MaxTurns \in Nat
    BY VoltsAssumption
  <2> QED BY <2>1
<1>2. Types
  BY <1>1, EmptySeq, Symbols DEF Init, Types
<1>3. Planned
  <2>1. todo # <<>> /\ Head(todo) = Status /\ Tail(todo) = <<>>
    BY DEF Init
  <2> QED BY <2>1, EmptySeq, Names DEF Init, Planned, Plan, Busy, Ops
<1>4. Sending
  BY DEF Init, Sending
<1> QED BY <1>2, <1>3, <1>4 DEF Always

-----------------------------------------------------------------------------
(* As long as nothing is late: what is on the line.                          *)

LEMMA FirstKept == ASSUME Always, First, [Next]_vars PROVE First'
<1>1. ASSUME ~Busy' PROVE First'
  BY <1>1 DEF First
<1>2. ASSUME Busy, UNCHANGED <<todo, iseg_connected, told>> PROVE First'
  BY <1>2 DEF First
<1>3. CASE UNCHANGED vars
  BY <1>3 DEF vars, iseg, history, First, Busy
<1>4. CASE SetVoltage
  <2>1. Busy' => todo' = todo /\ Head(todo).op = "D1"
    BY <1>4 DEF SetVoltage, Onward, Busy
  <2> QED BY <2>1, Names DEF First
<1>5. CASE GetVoltage
  <2>1. Busy' => todo' = todo /\ Head(todo) = Get
    BY <1>5 DEF GetVoltage, Onward, Busy
  <2> QED BY <2>1, Names DEF First
<1>6. CASE Start
  BY <1>6 DEF Start, First
<1>7. CASE GotStatus
  <2>1. Busy /\ Head(todo) = Status
    BY <1>7 DEF GotStatus, Busy
  <2>2. Busy' => UNCHANGED <<iseg_connected, told>>
    BY <1>7 DEF GotStatus, Onward, Busy, history
  <2> QED BY <2>1, <2>2 DEF First
<1>8. CASE GotSet
  <2>1. pc = "got" /\ todo' = <<Apply>> \o Tail(todo) /\ Busy
    BY <1>8 DEF GotSet, Busy
  <2>2. Head(todo') = Apply
    BY <2>1, Present, Rest DEF Always, Planned
  <2> QED BY <2>2, Names DEF First
<1>9. CASE \/ \E ops \in Menu \cup {leave} : Type(ops)
           \/ ClosePort \/ GotAgain \/ GotApply \/ GotValue \/ Crash
  <2>1. ~Busy'
    BY <1>9 DEF Type, ClosePort, GotAgain, GotApply, GotValue, Crash, Onward, Busy
  <2> QED BY <1>1, <2>1
<1>10. CASE Begin \/ SendChar \/ Echo \/ EchoLate \/ AnswerPiece \/ AnswerLate \/ Ramped
            \/ \E s \in {"TRP", "OFF", "MAN"} : Turn(s)
  <2>1. Busy /\ UNCHANGED <<todo, iseg_connected, told>>
    BY <1>10 DEF Begin, SendChar, Send, Echo, EchoLate, AnswerPiece, AnswerLate, Timeout, Ramped, Turn,
         Busy, iseg, history
  <2> QED BY <1>2, <2>1
<1>11. CASE Deliver
  BY <1>11 DEF Deliver, First, Busy, iseg, history
<1> QED BY <1>3, <1>4, <1>5, <1>6, <1>7, <1>8, <1>9, <1>10, <1>11 DEF Next

\* Only a new program forgets that something was late.
LEMMA NotLate ==
    ASSUME [Next]_vars, ~late', ~Start PROVE ~late
BY DEF Next, vars, history, Type, SetVoltage, GetVoltage, ClosePort, Begin, SendChar, Send, Echo, EchoLate,
       AnswerPiece, AnswerLate, Timeout, GotStatus, GotAgain, GotSet, GotApply, GotValue, Crash,
       Deliver, Ramped, Turn, Onward

LEMMA AnswerFacts ==
    ASSUME NEW r \in Answers
    PROVE  r \in Seq(Bytes) /\ \A i \in 1 .. Len(r) : r[i] # "end"
<1>1. CASE r = <<>>
  BY <1>1, EmptySeq
<1>2. CASE r # <<>>
  <2>1. PICK c \in {"volts", "????"} \cup States : r = <<c>>
    BY <1>2 DEF Answers
  <2>2. c \in Bytes /\ c # "end"
    BY Symbols DEF States, Ready
  <2> QED BY <2>1, <2>2
<1> QED BY <1>1, <1>2

\* An answer and its CR LF.
LEMMA EndOfAnswer ==
    ASSUME NEW r \in Answers, NEW q, q = r \o <<"end">>
    PROVE  /\ q \in Seq(Bytes) /\ Len(r) \in Nat /\ Len(q) = Len(r) + 1 /\ q # <<>>
           /\ \A i \in 1 .. Len(q) : q[i] = "end" <=> i = Len(q)
           /\ Complete(q) /\ Upto(q) = r
<1>1. r \in Seq(Bytes) /\ (\A i \in 1 .. Len(r) : r[i] # "end") /\ Len(r) \in Nat
  BY AnswerFacts, LenProperties
<1>2. <<"end">> \in Seq(Bytes) /\ Len(<<"end">>) = 1 /\ <<"end">>[1] = "end"
  BY Symbols
<1>3. /\ q \in Seq(Bytes) /\ Len(q) = Len(r) + 1
      /\ \A i \in 1 .. Len(r) + 1 : q[i] = IF i <= Len(r) THEN r[i] ELSE <<"end">>[i - Len(r)]
  BY <1>1, <1>2, ConcatProperties
<1>4. q # <<>> /\ Len(q) \in 1 .. Len(q)
  <2>1. Len(q) # 0
    BY <1>1, <1>3
  <2> QED BY <1>3, <2>1, EmptySeq
<1>5. \A i \in 1 .. Len(q) : /\ q[i] = "end" <=> i = Len(q)
                             /\ i # Len(q) => i \in 1 .. Len(r) /\ q[i] = r[i]
  <2> TAKE i \in 1 .. Len(q)
  <2>1. CASE i = Len(q)
    <3>1. ~(i <= Len(r)) /\ i - Len(r) = 1 /\ i \in 1 .. Len(r) + 1
      BY <1>1, <1>3, <2>1
    <3> QED BY <1>2, <1>3, <2>1, <3>1
  <2>2. CASE i # Len(q)
    <3>1. i <= Len(r) /\ i \in 1 .. Len(r) /\ i \in 1 .. Len(r) + 1
      BY <1>1, <1>3, <2>2
    <3> QED BY <1>1, <1>3, <2>2, <3>1
  <2> QED BY <2>1, <2>2
<1>6. Complete(q)
  BY <1>4, <1>5 DEF Complete
<1> DEFINE k == CHOOSE i \in 1 .. Len(q) : q[i] = "end" /\ \A j \in 1 .. i - 1 : q[j] # "end"
<1>7. k = Len(q)
  <2>1. \A i \in 1 .. Len(q) : q[i] = "end" <=> i = Len(q)
    BY <1>5
  <2>2. \A j \in 1 .. Len(q) - 1 : j \in 1 .. Len(q) /\ j # Len(q)
    BY <1>1, <1>3
  <2>3. q[Len(q)] = "end" /\ \A j \in 1 .. Len(q) - 1 : q[j] # "end"
    BY <1>4, <2>1, <2>2
  <2> QED BY <1>4, <2>1, <2>3
<1>8. Upto(q) = SubSeq(q, 1, Len(r))
  <2>1. Upto(q) = SubSeq(q, 1, k - 1)
    BY DEF Upto
  <2>2. Len(q) - 1 = Len(r)
    BY <1>1, <1>3
  <2> HIDE DEF k
  <2> QED BY <1>7, <2>1, <2>2
<1>9. SubSeq(q, 1, Len(r)) = r
  <2>1. \A i \in 1 .. Len(r) : i \in 1 .. Len(q) /\ i # Len(q) /\ q[i] = r[i] /\ q[i] \in Bytes
    <3>1. \A i \in 1 .. Len(r) : i \in 1 .. Len(q) /\ i # Len(q)
      BY <1>1, <1>3
    <3> QED BY <1>1, <1>5, <3>1, ElementOfSeq
  <2> DEFINE t == SubSeq(q, 1, Len(r))
  <2>2. /\ t \in Seq(Bytes) /\ Len(t) = IF 1 <= Len(r) THEN Len(r) - 1 + 1 ELSE 0
        /\ \A i \in 1 .. Len(r) - 1 + 1 : t[i] = q[1 + i - 1]
    BY <1>1, <2>1, SubSeqProperties
  <2> HIDE DEF t
  <2>3. Len(t) = Len(r)
    BY <1>1, <2>2
  <2>4. \A i \in 1 .. Len(r) : i \in 1 .. Len(r) - 1 + 1 /\ 1 + i - 1 = i
    BY <1>1
  <2>5. \A i \in 1 .. Len(t) : t[i] = r[i]
    BY <2>1, <2>2, <2>3, <2>4
  <2>6. t = r
    BY <1>1, <2>2, <2>3, <2>5, SeqEqual
  <2> QED BY <2>6 DEF t
<1> QED BY <1>1, <1>3, <1>4, <1>5, <1>6, <1>8, <1>9

\* When its CR LF was received, nothing of it is on the way.
LEMMA AllReceived ==
    ASSUME NEW r \in Answers, NEW s \in Seq(Bytes), NEW t \in Seq(Bytes), s \o t = r \o <<"end">>,
           Complete(s)
    PROVE  t = <<>> /\ s = r \o <<"end">>
<1> DEFINE q == r \o <<"end">>
<1>1. /\ Len(r) \in Nat /\ Len(q) = Len(r) + 1 /\ \A i \in 1 .. Len(q) : q[i] = "end" <=> i = Len(q)
  BY EndOfAnswer
<1>2. /\ Len(s) \in Nat /\ Len(t) \in Nat /\ Len(q) = Len(s) + Len(t)
      /\ \A i \in 1 .. Len(s) + Len(t) : q[i] = IF i <= Len(s) THEN s[i] ELSE t[i - Len(s)]
  BY ConcatProperties, LenProperties
<1> HIDE DEF q
<1>3. PICK i \in 1 .. Len(s) : s[i] = "end"
  BY DEF Complete
<1>4. i \in 1 .. Len(q) /\ i <= Len(s) /\ i \in 1 .. Len(s) + Len(t)
  BY <1>2
<1>5. i = Len(q)
  BY <1>1, <1>2, <1>3, <1>4
<1>6. Len(t) = 0
  BY <1>2, <1>4, <1>5
<1>7. t = <<>>
  BY <1>6, EmptySeq
<1> QED BY <1>7, ConcatEmptySeq

\* What is waited for is on the line: nobody waits in vain.
LEMMA NoTimeout ==
    ASSUME Always, OnTheLine, Timeout, pc \in {"echo", "answer"} PROVE late'
<1> SUFFICES ASSUME wire = <<>> PROVE FALSE
  BY DEF Timeout
<1>1. rx = <<>> /\ rx \o wire = <<>>
  BY DEF Timeout
<1>2. \A r \in Answers : r \in Seq(Bytes) /\ r \o <<"end">> \in Seq(Bytes)
  BY AnswerFacts, EndOfAnswer
<1>3. CASE pc = "echo" /\ Head(cmd) # "LF"
  <2>1. Head(cmd) \in Bytes
    BY <1>3, EndedFacts DEF Always, Sending
  <2>2. <<Head(cmd)>> \o <<>> # <<>>
    BY <2>1, EmptySeq, Pieces
  <2> QED BY <1>1, <1>3, <2>2 DEF OnTheLine
<1>4. CASE pc = "echo" /\ Head(cmd) = "LF"
  <2>1. PICK r \in Answers : rx \o wire = <<"LF">> \o (r \o <<"end">>)
    BY <1>4 DEF OnTheLine
  <2>2. <<"LF">> \o (r \o <<"end">>) # <<>>
    BY <1>2, Pieces, Symbols
  <2> QED BY <1>1, <2>1, <2>2
<1>5. CASE pc = "answer"
  <2>1. answer \in Seq(Bytes) /\ ~Complete(answer)
    BY <1>5 DEF OnTheLine
  <2>2. PICK r \in Answers : (answer \o rx) \o wire = r \o <<"end">>
    BY <1>5 DEF OnTheLine
  <2>3. answer = r \o <<"end">>
    BY <1>1, <2>1, <2>2, ConcatEmptySeq
  <2> QED BY <2>1, <2>2, <2>3, EndOfAnswer
<1> QED BY <1>3, <1>4, <1>5

\* Between two exchanges nothing is on the line and nothing of a line is left.
LEMMA Idle ==
    ASSUME pc' \in {"prompt", "op", "exchange"}, rx' = <<>>, wire' = <<>>, input' = <<>>
    PROVE  OnTheLine' /\ Clean'
BY DEF OnTheLine, Clean, Executed

\* The answer the supply gives is apt.
LEMMA RepliesAptly ==
    ASSUME Always, OnTheLine, Clean, pc = "send", Head(cmd) = "LF", Execute(input), todo' = todo,
           NEW r, r = Reply(input)
    PROVE  (Apt(r))'
<1>1. state \in States /\ r \in Answers
  BY ReplyType DEF Always, Types
<1>2. Head(todo) \in Ops /\ input \in Seq(Bytes) /\ cmd = <<"LF">>
  BY AboutToSend
<1>3. Head(todo) = Get => r # <<>>
  <2> SUFFICES ASSUME Head(todo) = Get PROVE r # <<>>
    OBVIOUS
  <2>1. input \o <<"LF">> = Line(Head(todo))
    BY <1>2, Names DEF Clean, Busy
  <2>2. input = <<"U", "CR">>
    BY <1>2, <2>1, Whole
  <2> QED BY <2>2, ReplyIs
<1>4. r \in {<<>>, <<"volts">>, <<"????">>} \/ r = <<state>>
  BY ReplyIs
<1>5. \A c : <<"volts">> # <<c>> \/ c = "volts"
  OBVIOUS
<1>6. r \in {<<"ON">>, <<"OFF">>, <<"MAN">>} => r = <<state>>
  BY <1>4
<1>7. r = <<"ON">> => state' \in Ready
  <2> SUFFICES ASSUME r = <<"ON">> PROVE state' \in Ready
    OBVIOUS
  <2>1. state = "ON" /\ state \in Ready
    BY <1>6 DEF Ready
  <2>2. \A v : Moves(v) \subseteq Ready
    BY DEF Moves, Ready
  <2> QED BY <2>1, <2>2 DEF Execute
<1>8. r \in {<<"OFF">>, <<"MAN">>} => r = <<state'>>
  <2> SUFFICES ASSUME r \in {<<"OFF">>, <<"MAN">>} PROVE r = <<state'>>
    OBVIOUS
  <2>1. state \in {"OFF", "MAN"}
    BY <1>6
  <2>2. state' = state
    BY <2>1 DEF Execute, Ready
  <2> QED BY <1>6, <2>2
<1> QED BY <1>1, <1>3, <1>7, <1>8 DEF Apt, Answers

\* A character is sent to a supply that waits for it.
LEMMA SendInTime ==
    ASSUME Always, OnTheLine, Clean, SendChar PROVE OnTheLine' /\ Clean'
<1>1. /\ pc = "send" /\ pc' = "echo" /\ UNCHANGED <<todo, cmd, rx>> /\ Hear(Head(cmd))
      /\ rx = <<>> /\ wire = <<>>
  BY DEF SendChar, Send, OnTheLine
<1>2. /\ cmd \in Seq(Bytes) /\ Ended(cmd) /\ Head(cmd) \in Bytes /\ input \in Seq(Bytes) /\ cmd # <<>>
      /\ Head(cmd) = "LF" => cmd = <<"LF">>
  BY <1>1, AboutToSend, EndedFacts
<1>3. CASE Head(cmd) = "LF"
  <2>1. Execute(input) /\ input' = <<>>
    BY <1>1, <1>3 DEF Hear, Execute
  <2>2. state \in States
    BY DEF Always, Types
  <2>3. PICK r \in Answers : r = Reply(input)
    BY <2>2, ReplyType
  <2>4. (Apt(r))'
    BY <1>1, <1>3, <2>1, <2>3, RepliesAptly
  <2>5. rx' \o wire' = <<"LF">> \o (r \o <<"end">>)
    <3>1. r \in Seq(Bytes) /\ <<"LF">> \in Seq(Bytes) /\ <<"end">> \in Seq(Bytes)
      BY <2>2, <2>3, ReplyType, Symbols
    <3>2. wire' = ((<<>> \o <<"LF">>) \o r) \o <<"end">>
      BY <1>1, <2>1, <2>3 DEF Execute
    <3>3. <<>> \o <<"LF">> = <<"LF">>
      BY <3>1, ConcatEmptySeq
    <3>4. (<<"LF">> \o r) \o <<"end">> = <<"LF">> \o (r \o <<"end">>)
      BY <3>1, ConcatAssociative
    <3>5. <<"LF">> \o (r \o <<"end">>) \in Seq(Bytes)
      BY <3>1, ConcatProperties
    <3> DEFINE u == <<"LF">> \o (r \o <<"end">>)
    <3> HIDE DEF u
    <3>6. wire' = u /\ u \in Seq(Bytes)
      BY <3>2, <3>3, <3>4, <3>5 DEF u
    <3>7. <<>> \o u = u
      BY <3>6, ConcatEmptySeq
    <3> QED BY <1>1, <3>6, <3>7 DEF u
  <2>7. OnTheLine'
    BY <1>1, <1>3, <2>4, <2>5 DEF OnTheLine
  <2>8. Clean'
    BY <1>1, <1>3, <2>1 DEF Clean, Executed, Busy
  <2> QED BY <2>7, <2>8
<1>4. CASE Head(cmd) # "LF"
  <2>1. input' = Append(input, Head(cmd)) /\ wire' = Append(<<>>, Head(cmd))
    BY <1>1, <1>4 DEF Hear
  <2>2. rx' \o wire' = <<Head(cmd)>> \o <<>>
    <3> DEFINE c == Head(cmd)
    <3> HIDE DEF c
    <3>1. rx' = <<>> /\ wire' = <<c>>
      BY <1>1, <2>1 DEF c
    <3>2. <<c>> \in Seq(Bytes)
      BY <1>2 DEF c
    <3>3. <<>> \o <<c>> = <<c>> /\ <<c>> \o <<>> = <<c>>
      BY <3>2, ConcatEmptySeq
    <3> QED BY <3>1, <3>3 DEF c
  <2>3. input' \o Tail(cmd) = input \o cmd
    BY <1>2, <2>1, MoveOn DEF Moves1
  <2>4. OnTheLine'
    BY <1>1, <1>4, <2>2 DEF OnTheLine
  <2>5. Clean'
    BY <1>1, <1>4, <2>3 DEF Clean, Executed, Busy
  <2> QED BY <2>4, <2>5
<1> QED BY <1>3, <1>4

\* The echo is the character that was sent.
LEMMA EchoInTime ==
    ASSUME Always, OnTheLine, Clean, Echo
    PROVE  /\ OnTheLine' /\ Clean'
           /\ pc' = IF Head(cmd) = "LF" THEN "answer" ELSE "send"
<1>1. /\ pc = "echo" /\ rx # <<>> /\ rx' = Tail(rx) /\ Compare(Head(rx))
      /\ UNCHANGED <<todo, wire, input, state>>
  BY DEF Echo, supply
<1>2. cmd \in Seq(Bytes) /\ Ended(cmd) /\ rx \in Seq(Bytes) /\ wire \in Seq(Bytes)
  BY <1>1 DEF Always, Types, Sending
<1>3. Head(cmd) \in Bytes /\ (Head(cmd) = "LF" <=> ~(Len(cmd) > 1))
  BY <1>2, EndedFacts
<1>4. CASE Head(cmd) = "LF"
  <2>1. PICK r \in Answers : Apt(r) /\ rx \o wire = <<"LF">> \o (r \o <<"end">>)
    BY <1>1, <1>4 DEF OnTheLine
  <2>2. r \o <<"end">> \in Seq(Bytes)
    BY EndOfAnswer
  <2>3. Head(rx) = "LF" /\ rx' \o wire' = r \o <<"end">>
    <3> DEFINE u == r \o <<"end">>
    <3> HIDE DEF u
    <3>1. u \in Seq(Bytes) /\ Begun(rx, wire, "LF", u)
      BY <2>1, <2>2 DEF u, Begun
    <3>2. "LF" \in Bytes
      BY Symbols
    <3>3. Head(rx) = "LF" /\ Behind(rx, wire, u)
      BY <1>1, <1>2, <3>1, <3>2, FirstByte
    <3> QED BY <1>1, <3>3 DEF u, Behind
  <2>4. pc' = "answer" /\ answer' = <<>>
    BY <1>1, <1>3, <1>4, <2>3 DEF Compare
  <2>5. answer' \in Seq(Bytes) /\ ~Complete(answer)'
    BY <2>4, EmptySeq DEF Complete
  <2>6. (answer' \o rx') \o wire' = r \o <<"end">>
    <3>1. rx' \in Seq(Bytes)
      BY <1>1, <1>2, HeadTailProperties
    <3> QED BY <2>3, <2>4, <3>1, ConcatEmptySeq
  <2>7. (Apt(r))'
    BY <1>1, <2>1 DEF Apt
  <2>8. OnTheLine'
    BY <2>4, <2>5, <2>6, <2>7 DEF OnTheLine
  <2>9. Clean'
    BY <1>1, <1>4, <2>4 DEF Clean, Executed, Busy
  <2> QED BY <1>4, <2>4, <2>8, <2>9
<1>5. CASE Head(cmd) # "LF"
  <2>1. rx \o wire = <<Head(cmd)>> \o <<>>
    BY <1>1, <1>5 DEF OnTheLine
  <2>2. Head(rx) = Head(cmd) /\ rx' \o wire' = <<>>
    <3> DEFINE u == <<>>
    <3> HIDE DEF u
    <3>1. u \in Seq(Bytes) /\ Begun(rx, wire, Head(cmd), u)
      BY <2>1, EmptySeq DEF u, Begun
    <3>2. Head(rx) = Head(cmd) /\ Behind(rx, wire, u)
      BY <1>1, <1>2, <1>3, <3>1, FirstByte
    <3> QED BY <1>1, <3>2 DEF u, Behind
  <2>3. rx' = <<>> /\ wire' = <<>>
    <3>1. rx' \in Seq(Bytes)
      BY <1>1, <1>2, HeadTailProperties
    <3> QED BY <1>1, <1>2, <2>2, <3>1, ConcatEqualIffEmpty
  <2>4. pc' = "send" /\ cmd' = Tail(cmd)
    BY <1>1, <1>3, <1>5, <2>2 DEF Compare
  <2>5. OnTheLine'
    BY <2>3, <2>4 DEF OnTheLine
  <2>6. Clean'
    BY <1>1, <1>5, <2>4 DEF Clean, Executed, Busy
  <2> QED BY <1>5, <2>4, <2>5, <2>6
<1> QED BY <1>4, <1>5

\* A piece of the answer, and the whole of it.
LEMMA AnswerInTime ==
    ASSUME Always, OnTheLine, Clean, AnswerPiece PROVE OnTheLine' /\ Clean'
<1> DEFINE all == answer \o rx
<1>1. /\ pc = "answer" /\ rx' = <<>> /\ UNCHANGED <<todo, wire, input, state>>
      /\ IF Complete(all) THEN answer' = Upto(all) /\ pc' = "got"
         ELSE answer' = all /\ pc' = pc
  BY DEF AnswerPiece, supply
<1>2. answer \in Seq(Bytes) /\ rx \in Seq(Bytes) /\ wire \in Seq(Bytes) /\ all \in Seq(Bytes)
  <2>1. answer \in Seq(Bytes) /\ rx \in Seq(Bytes) /\ wire \in Seq(Bytes)
    BY <1>1 DEF Always, Types, OnTheLine
  <2> QED BY <2>1, ConcatProperties
<1>3. PICK r \in Answers : Apt(r) /\ all \o wire = r \o <<"end">>
  BY <1>1 DEF OnTheLine
<1>4. (Apt(r))'
  BY <1>1, <1>3 DEF Apt
<1>5. CASE Complete(all)
  <2>1. wire = <<>> /\ all = r \o <<"end">>
    BY <1>2, <1>3, <1>5, AllReceived
  <2>2. Upto(all) = r
    BY <2>1, EndOfAnswer
  <2>3. pc' = "got" /\ answer' = r /\ rx' = <<>> /\ wire' = <<>>
    BY <1>1, <1>5, <2>1, <2>2
  <2>4. OnTheLine'
    BY <1>4, <2>3 DEF OnTheLine
  <2>5. Clean'
    BY <1>1, <2>3 DEF Clean, Executed, Busy
  <2> QED BY <2>4, <2>5
<1>6. CASE ~Complete(all)
  <2>1. pc' = "answer" /\ answer' = all /\ rx' = <<>>
    BY <1>1, <1>6
  <2>2. (answer' \o rx') \o wire' = r \o <<"end">>
    BY <1>1, <1>2, <1>3, <2>1, ConcatEmptySeq
  <2>3. ~Complete(answer)' /\ answer' \in Seq(Bytes)
    BY <1>2, <1>6, <2>1
  <2> HIDE DEF all
  <2>4. OnTheLine'
    BY <1>4, <2>1, <2>2, <2>3 DEF OnTheLine
  <2>5. Clean'
    BY <1>1, <2>1 DEF Clean, Executed, Busy
  <2> QED BY <2>4, <2>5
<1> QED BY <1>5, <1>6

\* A byte arrives.
LEMMA DeliverInTime ==
    ASSUME Always, OnTheLine, Clean, Deliver PROVE OnTheLine' /\ Clean'
<1>1. /\ wire # <<>> /\ rx' = Append(rx, Head(wire)) /\ wire' = Tail(wire)
      /\ UNCHANGED <<pc, todo, cmd, answer, input, state>>
  BY DEF Deliver, supply
<1>2. rx \in Seq(Bytes) /\ wire \in Seq(Bytes)
  BY DEF Always, Types
<1>3. rx' \o wire' = rx \o wire /\ rx' \in Seq(Bytes) /\ wire' \in Seq(Bytes)
  BY <1>1, <1>2, MoveOn, HeadTailProperties DEF Moves1
<1>4. pc = "answer" => (answer' \o rx') \o wire' = (answer \o rx) \o wire
  <2> SUFFICES ASSUME pc = "answer" PROVE (answer \o rx') \o wire' = (answer \o rx) \o wire
    BY <1>1
  <2>1. answer \in Seq(Bytes)
    BY DEF OnTheLine
  <2>2. (answer \o rx) \o wire = answer \o (rx \o wire)
    BY <1>2, <2>1, ConcatAssociative
  <2>3. \A s, t \in Seq(Bytes) : (answer \o s) \o t = answer \o (s \o t)
    BY <2>1, ConcatAssociative
  <2>4. (answer \o rx') \o wire' = answer \o (rx' \o wire')
    BY <1>3, <2>3
  <2> QED BY <1>3, <2>2, <2>4
<1>5. \A r : Apt(r) => (Apt(r))'
  BY <1>1 DEF Apt
<1>6. pc \notin {"prompt", "op", "exchange", "send", "got"}
  BY <1>1 DEF OnTheLine
<1>7. OnTheLine'
  BY <1>1, <1>3, <1>4, <1>5, <1>6 DEF OnTheLine, Complete
<1>8. Clean'
  BY <1>1 DEF Clean, Executed, Busy
<1> QED BY <1>7, <1>8

\* The program and the supply stay in step.
LEMMA InTimeKept ==
    ASSUME Always, First, InTime, [Next]_vars PROVE InTime'
<1> SUFFICES ASSUME ~late' PROVE OnTheLine' /\ Clean'
  BY DEF InTime
<1>1. CASE Start
  <2>1. /\ rx' = <<>> /\ wire' = <<>> /\ pc' = "exchange"
        /\ Head(todo') = Status
    <3>1. Head(<<Status>>) = Status
      OBVIOUS
    <3> QED BY <1>1, <3>1 DEF Start
  <2> QED BY <2>1 DEF OnTheLine, Clean, Executed
<1>2. CASE ~Start
  <2>1. OnTheLine /\ Clean
    BY <1>2, NotLate DEF InTime
  <2>2. CASE UNCHANGED vars
    <3>1. UNCHANGED <<pc, todo, cmd, answer, rx, wire, input, state>>
      BY <2>2 DEF vars, line, supply
    <3>2. \A r : Apt(r) => (Apt(r))'
      BY <3>1 DEF Apt
    <3>3. OnTheLine'
      BY <2>1, <3>1, <3>2 DEF OnTheLine, Complete
    <3>4. Clean'
      BY <2>1, <3>1 DEF Clean, Executed, Busy
    <3> QED BY <3>3, <3>4
  <2>3. CASE \/ \E ops \in Menu \cup {leave} : Type(ops)
             \/ SetVoltage \/ GetVoltage
             \/ GotStatus \/ GotAgain \/ GotSet \/ GotApply \/ GotValue
    <3>1. pc \in {"prompt", "op", "got"} /\ pc' \in {"prompt", "op", "exchange"}
      BY <2>3 DEF Type, SetVoltage, GetVoltage, GotStatus, GotAgain, GotSet, GotApply, GotValue, Onward
    <3>2. UNCHANGED <<rx, wire, input>>
      BY <2>3 DEF Type, SetVoltage, GetVoltage, GotStatus, GotAgain, GotSet, GotApply, GotValue, Onward,
           line, supply
    <3>3. rx = <<>> /\ wire = <<>> /\ input = <<>>
      BY <2>1, <3>1 DEF OnTheLine, Clean, Executed
    <3> QED BY <3>1, <3>2, <3>3, Idle
  <2>4. CASE ClosePort \/ Crash
    <3>1. pc' = "out"
      BY <2>4 DEF ClosePort, Crash
    <3> QED BY <3>1 DEF OnTheLine, Clean, Executed, Busy
  <2>5. CASE Begin
    <3>1. /\ pc = "exchange" /\ pc' = "send" /\ cmd' = Line(Head(todo))
          /\ UNCHANGED <<todo, rx, wire, input>>
      BY <2>5 DEF Begin, line, supply
    <3>2. OnTheLine'
      BY <2>1, <3>1 DEF OnTheLine
    <3>3. Head(todo) \in Ops
      BY <3>1, Present DEF Always, Busy
    <3>4. <<>> \o Line(Head(todo)) = Line(Head(todo))
      BY <3>3, LineFacts, ConcatEmptySeq
    <3>5. Head(todo) # Status => input' \o cmd' = Line(Head(todo))
      BY <2>1, <3>1, <3>4 DEF Clean, Busy
    <3>6. Clean'
      BY <3>1, <3>5 DEF Clean, Executed
    <3> QED BY <3>2, <3>6
  <2>6. CASE SendChar
    BY <2>1, <2>6, SendInTime
  <2>7. CASE Echo
    BY <2>1, <2>7, EchoInTime
  <2>8. CASE EchoLate
    BY <2>1, <2>8, NoTimeout DEF EchoLate
  <2>9. CASE AnswerPiece
    BY <2>1, <2>9, AnswerInTime
  <2>10. CASE AnswerLate
    BY <2>1, <2>10, NoTimeout DEF AnswerLate
  <2>11. CASE Deliver
    BY <2>1, <2>11, DeliverInTime
  <2>12. CASE Ramped \/ \E s \in {"TRP", "OFF", "MAN"} : Turn(s)
    <3>1. pc = "exchange" /\ pc' = "exchange" /\ UNCHANGED <<todo, rx, wire, input>>
      BY <2>12 DEF Ramped, Turn, line
    <3> QED BY <2>1, <3>1 DEF OnTheLine, Clean, Executed, Busy
  <2> QED BY <1>2, <2>2, <2>3, <2>4, <2>5, <2>6, <2>7, <2>8, <2>9, <2>10, <2>11, <2>12 DEF Next
<1> QED BY <1>1, <1>2

-----------------------------------------------------------------------------
(* As long as nothing is late and nobody touches the supply: its voltage.    *)

LEMMA NotTouched ==
    ASSUME [Next]_vars, ~touched', ~Start PROVE ~touched
BY DEF Next, vars, history, Type, SetVoltage, GetVoltage, ClosePort, Begin, SendChar, Send, Echo, EchoLate,
       AnswerPiece, AnswerLate, Timeout, GotStatus, GotAgain, GotSet, GotApply, GotValue, Crash,
       Deliver, Ramped, Turn, Onward

\* Only the answer to a status tells that the high voltage is on.
LEMMA WasOn ==
    ASSUME [Next]_vars, hv_on', ~GotStatus, ~GotAgain PROVE hv_on /\ ~Start
BY DEF Next, vars, iseg, Type, Start, SetVoltage, GetVoltage, ClosePort, Begin, SendChar, Send, Echo, EchoLate,
       AnswerPiece, AnswerLate, Timeout, GotSet, GotApply, GotValue, Crash, Deliver, Ramped, Turn, Onward

\* A step within an exchange after which no more is executed than before.
LEMMA SameVoltages ==
    ASSUME Voltages, Busy, Busy', UNCHANGED <<todo, iseg, stored, target, told>>, state' \in Ready,
           Executed' => Executed
    PROVE  Voltages'
BY DEF Voltages, Busy, iseg

\* The status that was asked for: the high voltage is on.
LEMMA StatusVoltages ==
    ASSUME Always, First, OnTheLine, GotStatus \/ GotAgain, hv_on', hv_on /\ ~touched => Voltages, ~touched'
    PROVE  Voltages'
<1>1. /\ pc = "got" /\ Busy /\ Head(todo) \in {Status, Again} /\ UNCHANGED <<state, told, touched>>
  BY DEF GotStatus, GotAgain, Onward, Busy, supply, history
<1>2. iseg_connected /\ ~told /\ Apt(answer)
  BY <1>1 DEF First, OnTheLine
<1>3. CASE answer = <<"ON">>
  <2>1. todo' = <<>> /\ pc' = "prompt" /\ iseg_connected'
    BY <1>2, <1>3 DEF GotStatus, GotAgain, Onward, Handled
  <2>2. state' \in Ready /\ ~told'
    BY <1>1, <1>2, <1>3 DEF Apt
  <2> QED BY <2>1, <2>2, EndsFacts DEF Voltages, Busy
<1>4. CASE answer # <<"ON">>
  <2>1. /\ todo' = <<Again>> /\ pc' = "exchange" /\ UNCHANGED <<iseg_connected, hv_on>>
    BY <1>4 DEF GotStatus, GotAgain
  <2>2. Voltages
    BY <1>1, <2>1
  <2>3. Head(todo') = Again /\ todo' \notin Ends
    <3>1. Head(<<Again>>) = Again
      OBVIOUS
    <3>2. Head(todo') = Again
      BY <2>1, <3>1
    <3> QED BY <3>2, EndsFacts, Names DEF Ends
  <2> QED BY <1>1, <1>2, <2>1, <2>2, <2>3, Names DEF Voltages
<1> QED BY <1>3, <1>4

\* An operation begins.
LEMMA OpVoltages ==
    ASSUME Always, Voltages, hv_on,
           (\E ops \in Menu \cup {leave} : Type(ops)) \/ SetVoltage \/ GetVoltage \/ ClosePort
    PROVE  Voltages'
<1>1. state \in Ready /\ iseg_connected
  BY DEF Voltages
<1>2. CASE \E ops \in Menu \cup {leave} : Type(ops)
  <2>1. /\ pc = "prompt" /\ pc' = "op" /\ UNCHANGED <<iseg, stored, target, state, told>>
        /\ todo' \in Ends => todo' = leave
    BY <1>2, MenuPlans DEF Type, supply, history
  <2> QED BY <2>1 DEF Voltages, Busy, iseg
<1>3. CASE SetVoltage
  <2>1. /\ pc = "op" /\ Head(todo).op = "D1" /\ pc' = "exchange" /\ told' = TRUE
        /\ voltage_set' = Head(todo).volts
        /\ UNCHANGED <<iseg_connected, todo, stored, target, state>>
    BY <1>1, <1>3 DEF SetVoltage, supply
  <2>2. Busy' /\ ~Executed'
    BY <2>1 DEF Busy, Executed
  <2>3. todo \in Ends => voltage_set' = Zero
    <3>1. todo \in Ends => Head(todo) = Set(Zero)
      BY <2>1, EndsFacts, Names DEF Ends
    <3> QED BY <2>1, <3>1, Names
  <2>4. Head(todo) # Apply /\ Head(todo) # Get
    BY <2>1, Names
  <2> QED BY <1>1, <2>1, <2>2, <2>3, <2>4 DEF Voltages
<1>4. CASE GetVoltage
  <2>1. /\ pc = "op" /\ Head(todo) = Get /\ pc' = "exchange"
        /\ UNCHANGED <<iseg, todo, stored, target, state, told>>
    BY <1>1, <1>4 DEF GetVoltage, supply, history
  <2>2. todo \notin Ends
    BY <2>1, EndsFacts, Names DEF Ends
  <2> QED BY <1>1, <2>1, <2>2, Names DEF Voltages, iseg
<1>5. CASE ClosePort
  <2>1. /\ pc = "op" /\ Head(todo) = Close /\ pc' = "out"
        /\ UNCHANGED <<iseg, todo, stored, target, state, told>>
    BY <1>5 DEF ClosePort, supply, history
  <2>2. todo \in Ends
    <3>1. Close \notin Ops
      BY Names DEF Ops, Works
    <3> QED BY <2>1, <3>1 DEF Always, Planned, Plan
  <2>3. todo # leave
    BY <2>1, EndsFacts, Names
  <2>4. voltage_set = Zero /\ told /\ target = voltage_set
    BY <2>1, <2>2, <2>3 DEF Voltages
  <2> QED BY <1>1, <2>1, <2>4 DEF Voltages, Busy, iseg
<1> QED BY <1>2, <1>3, <1>4, <1>5

\* The supply executes the line.
LEMMA SendVoltages ==
    ASSUME Always, First, OnTheLine, Clean, Voltages, SendChar
    PROVE  Voltages'
<1>1. /\ pc = "send" /\ pc' = "echo" /\ UNCHANGED <<iseg, todo, cmd, told>> /\ Hear(Head(cmd))
  BY DEF SendChar, Send, history
<1>2. Busy /\ Busy' /\ Head(todo) \in Ops /\ Head(todo) # Close /\ state \in Ready
  BY <1>1, AboutToSend DEF Busy, Voltages, Always, Planned
<1>3. CASE Head(cmd) # "LF"
  <2>1. ~Executed' /\ UNCHANGED <<stored, target, state>>
    BY <1>1, <1>3 DEF Executed, Hear
  <2> QED BY <1>1, <1>2, <2>1, SameVoltages
<1>4. CASE Head(cmd) = "LF"
  <2>1. Execute(input) /\ cmd = <<"LF">> /\ input \in Seq(Bytes)
    BY <1>1, <1>4, AboutToSend DEF Hear
  <2>2. state' \in Ready
    <3>1. \A v : Moves(v) \subseteq Ready
      BY DEF Moves, Ready
    <3> QED BY <1>2, <2>1, <3>1 DEF Execute, Ready
  <2>3. Head(todo) # Status => input \o <<"LF">> = Line(Head(todo))
    BY <1>1, <1>2, <2>1 DEF Clean
  <2>4. Head(todo).op = "D1" => stored' = Head(todo).volts
    BY <1>2, <2>1, <2>3, Whole, Names DEF Execute
  <2>5. Head(todo) = Apply => stored' = stored /\ target' = stored
    <3> HAVE Head(todo) = Apply
    <3>1. input = <<"G", "CR">> /\ ~Number(input)
      BY <1>2, <2>1, <2>3, Whole, Names
    <3> QED BY <1>2, <2>1, <3>1 DEF Execute
  <2>6. Head(todo) = Get => target' = target
    <3> HAVE Head(todo) = Get
    <3>1. input = <<"U", "CR">>
      BY <1>2, <2>1, <2>3, Whole, Names
    <3> QED BY <2>1, <3>1 DEF Execute
  <2> QED BY <1>1, <1>2, <2>2, <2>4, <2>5, <2>6 DEF Voltages, iseg
<1> QED BY <1>3, <1>4

\* An exchange is over.
LEMMA GotVoltages ==
    ASSUME Always, OnTheLine, Voltages, GotSet \/ GotApply \/ GotValue \/ Crash
    PROVE  Voltages'
<1>1. /\ pc = "got" /\ Busy /\ Executed /\ state \in Ready /\ iseg_connected
      /\ UNCHANGED <<hv_on, voltage_set, stored, target, state, told>>
  BY DEF GotSet, GotApply, GotValue, Crash, Onward, Busy, Executed, Voltages, iseg, supply, history
<1>2. Plan(todo) /\ todo # <<>> /\ Head(todo) # Close
  BY <1>1 DEF Always, Planned
<1>3. todo \in Ends => voltage_set = Zero /\ told
  BY <1>1 DEF Voltages
<1>4. CASE GotSet
  <2>1. /\ Head(todo).op = "D1" /\ todo' = <<Apply>> \o Tail(todo) /\ pc' = "exchange"
        /\ iseg_connected' = iseg_connected
    BY <1>4 DEF GotSet, iseg
  <2>2. stored = voltage_set /\ told
    BY <1>1, <2>1 DEF Voltages
  <2>3. Head(todo') = Apply /\ (todo' \in Ends => todo \in Ends)
    BY <1>2, <2>1, Rest
  <2>4. Head(todo').op # "D1" /\ Head(todo') # Get /\ ~Executed'
    BY <2>1, <2>3, Names DEF Executed
  <2> QED BY <1>1, <1>3, <2>1, <2>2, <2>3, <2>4 DEF Voltages
<1>5. CASE GotApply \/ GotValue
  <2>1. /\ Head(todo) \in {Apply, Get} /\ todo' = Tail(todo) /\ pc' \in {"prompt", "op"}
    BY <1>5 DEF GotApply, GotValue, Onward
  <2>2. iseg_connected'
    <3>1. answer \notin {<<"OFF">>, <<"MAN">>}
      <4>1. Apt(answer)
        BY <1>1 DEF OnTheLine
      <4>2. <<"OFF">> # <<state>> /\ <<"MAN">> # <<state>>
        BY <1>1 DEF Ready
      <4> QED BY <4>1, <4>2 DEF Apt
    <3> QED BY <1>1, <1>5, <3>1 DEF GotApply, GotValue, Handled, iseg
  <2>3. told => target = voltage_set
    BY <1>1, <2>1 DEF Voltages
  <2>4. todo' \in Ends => todo \in Ends
    BY <1>2, <2>1, Rest
  <2> QED BY <1>1, <1>3, <2>1, <2>2, <2>3, <2>4 DEF Voltages, Busy
<1>6. CASE Crash
  <2>1. pc' = "out" /\ todo' = <<Get>> /\ iseg_connected' = iseg_connected
    BY <1>6 DEF Crash, iseg
  <2>2. Head(todo') = Get
    <3>1. Head(<<Get>>) = Get
      OBVIOUS
    <3> QED BY <2>1, <3>1
  <2>3. todo' \notin Ends /\ Head(todo') # Close
    BY <2>2, EndsFacts, Names DEF Ends
  <2> QED BY <1>1, <2>1, <2>3 DEF Voltages, Busy
<1> QED BY <1>4, <1>5, <1>6

LEMMA VoltagesKept ==
    ASSUME HvInv, [Next]_vars, ~late', ~touched', hv_on' PROVE Voltages'
<1>1. Always /\ First /\ InTime /\ (~late /\ ~touched /\ hv_on => Voltages)
  BY DEF HvInv
<1>2. CASE GotStatus \/ GotAgain
  <2>1. ~late
    BY <1>2 DEF GotStatus, GotAgain, Onward, history
  <2> QED BY <1>1, <1>2, <2>1, StatusVoltages DEF InTime
<1>3. CASE ~(GotStatus \/ GotAgain)
  <2>1. hv_on /\ ~late /\ ~touched
    BY <1>3, WasOn, NotLate, NotTouched
  <2>2. Voltages /\ OnTheLine /\ Clean /\ ~Start
    BY <1>1, <1>3, <2>1, WasOn DEF InTime
  <2>3. CASE UNCHANGED vars
    BY <2>2, <2>3 DEF vars, iseg, supply, history, Voltages, Busy, Executed
  <2>4. CASE (\E ops \in Menu \cup {leave} : Type(ops)) \/ SetVoltage \/ GetVoltage \/ ClosePort
    BY <1>1, <2>1, <2>2, <2>4, OpVoltages
  <2>5. CASE Begin \/ Ramped
    <3>1. /\ Busy /\ Busy' /\ UNCHANGED <<todo, iseg, stored, target, told>> /\ ~Executed'
      BY <2>5 DEF Begin, Ramped, Busy, Executed, supply, history
    <3>2. state' \in Ready
      BY <2>2, <2>5 DEF Begin, Ramped, Ready, supply, Voltages
    <3> QED BY <2>2, <3>1, <3>2, SameVoltages
  <2>6. CASE SendChar
    BY <1>1, <2>2, <2>6, SendVoltages
  <2>7. CASE Echo
    <3>1. pc' = IF Head(cmd) = "LF" THEN "answer" ELSE "send"
      BY <1>1, <2>2, <2>7, EchoInTime
    <3>2. pc = "echo" /\ UNCHANGED <<todo, iseg, supply, told>>
      BY <2>7 DEF Echo, history
    <3> QED BY <2>2, <3>1, <3>2, SameVoltages DEF Busy, Executed, supply, Voltages
  <2>8. CASE AnswerPiece
    <3>1. pc = "answer" /\ pc' \in {"answer", "got"} /\ UNCHANGED <<todo, iseg, supply, told>>
      BY <2>8 DEF AnswerPiece, history
    <3> QED BY <2>2, <3>1, SameVoltages DEF Busy, Executed, supply, Voltages
  <2>9. CASE EchoLate
    BY <1>1, <2>2, <2>9, NoTimeout DEF EchoLate
  <2>10. CASE AnswerLate
    BY <1>1, <2>2, <2>10, NoTimeout DEF AnswerLate
  <2>11. CASE GotSet \/ GotApply \/ GotValue \/ Crash
    BY <1>1, <2>2, <2>11, GotVoltages
  <2>12. CASE Deliver
    BY <2>2, <2>12 DEF Deliver, iseg, supply, history, Voltages, Busy, Executed
  <2>13. CASE \E s \in {"TRP", "OFF", "MAN"} : Turn(s)
    BY <2>13 DEF Turn
  <2> QED BY <1>3, <2>2, <2>3, <2>4, <2>5, <2>6, <2>7, <2>8, <2>9, <2>10, <2>11, <2>12, <2>13 DEF Next
<1> QED BY <1>2, <1>3

LEMMA HvInvKept == ASSUME HvInv, [Next]_vars PROVE HvInv'
<1>1. Always /\ First /\ InTime
  BY DEF HvInv
<1>2. Always' /\ First' /\ InTime'
  BY <1>1, AlwaysKept, FirstKept, InTimeKept
<1>3. (~late /\ ~touched /\ hv_on => Voltages)'
  BY VoltagesKept
<1> QED BY <1>2, <1>3 DEF HvInv

LEMMA InitHv == ASSUME Init PROVE HvInv
<1>1. pc = "exchange" /\ Head(todo) = Status /\ ~hv_on
  <2>1. Head(<<Status>>) = Status
    OBVIOUS
  <2> QED BY <2>1 DEF Init
<1>2. First
  BY DEF Init, First
<1>3. InTime
  BY <1>1 DEF Init, InTime, OnTheLine, Clean, Executed
<1> QED BY <1>1, <1>2, <1>3, InitAlways DEF HvInv

-----------------------------------------------------------------------------
(* What holds.                                                               *)

LEMMA Held == Spec => []HvInv
<1>1. Init => HvInv
  BY InitHv
<1>2. HvInv /\ [Next]_vars => HvInv'
  BY HvInvKept
<1> QED BY <1>1, <1>2, PTL DEF Spec

\* The variables of the program, the line and the supply have their types, and
\* a line in progress always has a character to send: writeCommand never reads
\* behind its end.
THEOREM SupplyTypes == Spec => []TypeOK
<1>1. HvInv => TypeOK
  BY Symbols DEF HvInv, Always, Types, Sending, Ended, TypeOK
<1> QED BY <1>1, Held, PTL

\* Whatever comes late and however often the program gives up in the middle of
\* a line or is started again, the supply only ever gets a voltage that some
\* command sets: what is left of a line spoils the next one, which begins with
\* a letter, and a spoilt line is no voltage.
THEOREM NoVoltageGarbled == Spec => []NeverGarbled
<1>1. HvInv => NeverGarbled
  BY DEF HvInv, Always, Types, NeverGarbled
<1> QED BY <1>1, Held, PTL

\* As long as nothing came late, each exchange reads all that the supply sends:
\* nothing is on the line when the next one begins.
THEOREM LineClear == Spec => []InStep
<1>1. HvInv => InStep
  BY DEF HvInv, InTime, OnTheLine, InStep
<1> QED BY <1>1, Held, PTL

\* As long as nothing came late, the current and the voltage that are read are
\* answers to the question, never empty: the program does not crash.
THEOREM QuestionsAnswered == Spec => []Answered
<1>1. HvInv => Answered
  BY DEF HvInv, InTime, OnTheLine, Apt, Answered
<1> QED BY <1>1, Held, PTL

\* At the prompt the supply is at the voltage that was set last, if it is on,
\* nothing came late and nobody touched it.
THEOREM VoltageFollowed == Spec => []Followed
<1>1. HvInv => Followed
  BY DEF HvInv, Voltages, Followed
<1> QED BY <1>1, Held, PTL

\* When the program has left it is off, under the same conditions: D1 and G1
\* of the destructor were executed before the port was closed.
THEOREM OffAtTheEnd == Spec => []SwitchedOff
<1>1. HvInv => SwitchedOff
  BY DEF HvInv, Voltages, SwitchedOff
<1> QED BY <1>1, Held, PTL
=============================================================================
