------------------------ MODULE UsbRpcPairing_proofs ------------------------
(***************************************************************************)
(* The board executes the calls in the order in which they were made, and  *)
(* while the link is clean, the value a stub returns is the answer to the  *)
(* very call it made.                                                      *)
(***************************************************************************)
EXTENDS UsbRpc_proofs

-----------------------------------------------------------------------------
(* The bytes in the driver and in m_bufferW, one behind the other, stay in   *)
(* order, and behind what was executed.  Any step but WriteByte leaves       *)
(* there a piece of what was there before.                                   *)

Part(s, o, t) == /\ o + Len(s) <= Len(t)
                 /\ \A i \in 1 .. Len(s) : s[i] = t[o + i]

LEMMA PipeIs ==
    ASSUME LinkOK
    PROVE  /\ Pipe \in Seq(Byte) /\ Len(Pipe) = Len(tx) + Len(wbuf)
           /\ DOMAIN Pipe = 1 .. Len(Pipe) /\ Len(Pipe) \in Nat
           /\ Len(tx) \in Nat /\ Len(wbuf) \in Nat
           /\ DOMAIN tx = 1 .. Len(tx) /\ DOMAIN wbuf = 1 .. Len(wbuf)
           /\ \A i \in 1 .. Len(tx) : Pipe[i] = tx[i]
           /\ \A i \in 1 .. Len(wbuf) : Pipe[Len(tx) + i] = wbuf[i]
           /\ Known(Pipe)
<1>1. tx \in Seq(Byte) /\ wbuf \in Seq(Byte) /\ Known(tx) /\ Known(wbuf)
  BY DEF LinkOK
<1>2. Len(tx) \in Nat /\ 0 \in 0 .. Len(tx)
  BY <1>1, LenProperties
<1>3. Known(Pipe)
  BY <1>1, <1>2, KnownParts DEF Pipe
<1> QED BY <1>1, <1>2, <1>3, ConcatFacts, LenProperties DEF Pipe

LEMMA PipeNext ==
    ASSUME LinkOK'
    PROVE  /\ Pipe' \in Seq(Byte) /\ Len(Pipe') = Len(tx') + Len(wbuf')
           /\ DOMAIN Pipe' = 1 .. Len(Pipe') /\ Len(Pipe') \in Nat
           /\ DOMAIN tx' = 1 .. Len(tx')
<1>1. tx' \in Seq(Byte) /\ wbuf' \in Seq(Byte)
  BY DEF LinkOK
<1> QED BY <1>1, ConcatFacts, LenProperties DEF Pipe

LEMMA BytesAreNat ==
    ASSUME NEW s \in Seq(Byte), NEW i \in DOMAIN s
    PROVE  s[i].call \in Nat /\ s[i].at \in Nat
<1>1. s[i] \in Byte
  BY ElementOfSeq, LenProperties
<1> QED BY <1>1 DEF Byte

\* The driver's bytes without the first m.
LEMMA DropIs ==
    ASSUME LinkOK, NEW m \in 0 .. Len(tx), NEW i \in DOMAIN Drop(tx, m)
    PROVE  m + i \in DOMAIN tx /\ Drop(tx, m)[i] = tx[m + i]
<1>1. tx \in Seq(Byte) /\ DOMAIN tx = 1 .. Len(tx) /\ Len(tx) \in Nat
  BY PipeIs DEF LinkOK
<1>2. /\ Drop(tx, m) \in Seq(Byte) /\ Len(Drop(tx, m)) = Len(tx) - m
      /\ \A j \in 1 .. Len(tx) - m : Drop(tx, m)[j] = tx[m + j]
  BY <1>1, DropFacts
<1>3. i \in 1 .. Len(tx) - m
  BY <1>2, LenProperties
<1> QED BY <1>1, <1>2, <1>3

-----------------------------------------------------------------------------
(* What a step may leave of the bytes under way. *)

\* The head of the bytes under way, when the buffer is empty after the step.
LEMMA PrefixIsPart ==
    ASSUME LinkOK, NEW k \in Nat, wbuf' = <<>>,
           \/ k <= Len(tx) /\ tx' = SubSeq(tx, 1, k)
           \/ k <= Len(wbuf) /\ tx' = tx \o SubSeq(wbuf, 1, k)
           \/ tx' = tx \o wbuf
           \/ tx' = tx
    PROVE  Part(Pipe', 0, Pipe)
<1>1. tx \in Seq(Byte) /\ wbuf \in Seq(Byte) /\ Len(tx) \in Nat /\ Len(wbuf) \in Nat
  BY PipeIs DEF LinkOK
<1>2. ASSUME tx' \in Seq(Byte) PROVE Pipe' = tx'
  BY <1>2, ConcatEmptySeq DEF Pipe
<1>3. CASE k <= Len(tx) /\ tx' = SubSeq(tx, 1, k)
  <2>1. tx' \in Seq(Byte) /\ Len(tx') = k /\ \A i \in 1 .. k : tx'[i] = tx[i]
    BY <1>1, <1>3, PrefixFacts
  <2>2. 0 + Len(tx') <= Len(Pipe) /\ \A i \in 1 .. k : i \in 1 .. Len(tx) /\ 0 + i = i
    <3>1. Len(Pipe) = Len(tx) + Len(wbuf)
      BY PipeIs
    <3> QED BY <1>1, <1>3, <2>1, <3>1
  <2>3. \A i \in 1 .. Len(tx') : tx'[i] = Pipe[0 + i]
    BY <2>1, <2>2, PipeIs
  <2> QED BY <1>2, <2>1, <2>2, <2>3 DEF Part
<1>4. CASE k <= Len(wbuf) /\ tx' = tx \o SubSeq(wbuf, 1, k)
  <2> DEFINE w == SubSeq(wbuf, 1, k)
  <2>1. w \in Seq(Byte) /\ Len(w) = k /\ \A i \in 1 .. k : w[i] = wbuf[i]
    BY <1>1, <1>4, PrefixFacts
  <2>2. tx' = tx \o w
    BY <1>4
  <2> HIDE DEF w
  <2>3. /\ tx' \in Seq(Byte) /\ Len(tx') = Len(tx) + k
        /\ \A i \in 1 .. Len(tx) + k : \/ i \in 1 .. Len(tx) /\ tx'[i] = tx[i]
                                       \/ i - Len(tx) \in 1 .. k /\ tx'[i] = w[i - Len(tx)]
    BY <1>1, <2>1, <2>2, ConcatFacts
  <2>4. ASSUME NEW i \in 1 .. Len(tx) + k PROVE tx'[i] = Pipe[i]
    <3>1. CASE i \in 1 .. Len(tx) /\ tx'[i] = tx[i]
      BY <3>1, PipeIs
    <3>2. CASE i - Len(tx) \in 1 .. k /\ tx'[i] = w[i - Len(tx)]
      <4>1. i - Len(tx) \in 1 .. Len(wbuf)
        BY <1>1, <1>4, <3>2
      <4>2. Pipe[Len(tx) + (i - Len(tx))] = wbuf[i - Len(tx)]
        BY <4>1, PipeIs
      <4> QED BY <1>1, <2>1, <3>2, <4>2
    <3> QED BY <2>3, <3>1, <3>2
  <2>5. 0 + Len(tx') <= Len(Pipe) /\ \A i \in 1 .. Len(tx') : tx'[i] = Pipe[0 + i]
    <3>1. Len(tx') <= Len(Pipe)
      <4>1. Len(Pipe) = Len(tx) + Len(wbuf)
        BY PipeIs
      <4> QED BY <1>1, <1>4, <2>3, <4>1
    <3>2. ASSUME NEW i \in 1 .. Len(tx') PROVE tx'[i] = Pipe[0 + i]
      BY <2>3, <2>4
    <3> QED BY <1>1, <2>3, <3>1, <3>2
  <2> QED BY <1>2, <2>3, <2>5 DEF Part
<1>5. CASE tx' = tx \o wbuf
  <2>1. Pipe' = Pipe
    BY <1>1, <1>2, <1>5, ConcatFacts DEF Pipe
  <2> QED BY <2>1, PipeIs DEF Part
<1>6. CASE tx' = tx
  BY <1>1, <1>2, <1>6, PipeIs DEF Part
<1> QED BY <1>3, <1>4, <1>5, <1>6

\* What is left when the board takes the first m bytes.
LEMMA SuffixIsPart ==
    ASSUME LinkOK, NEW m \in 0 .. Len(tx), tx' = Drop(tx, m), wbuf' = wbuf
    PROVE  Part(Pipe', m, Pipe) /\ Len(Pipe') = Len(Pipe) - m
<1>1. tx \in Seq(Byte) /\ wbuf \in Seq(Byte) /\ Len(tx) \in Nat /\ Len(wbuf) \in Nat /\ m \in Nat
  BY PipeIs DEF LinkOK
<1>2. /\ tx' \in Seq(Byte) /\ Len(tx') = Len(tx) - m
      /\ \A i \in 1 .. Len(tx) - m : tx'[i] = tx[m + i]
  BY <1>1, DropFacts
<1>3. /\ Len(Pipe') = Len(tx') + Len(wbuf)
      /\ \A i \in 1 .. Len(tx') + Len(wbuf) :
           \/ i \in 1 .. Len(tx') /\ Pipe'[i] = tx'[i]
           \/ i - Len(tx') \in 1 .. Len(wbuf) /\ Pipe'[i] = wbuf[i - Len(tx')]
  <2>1. Pipe' = tx' \o wbuf
    BY DEF Pipe
  <2> DEFINE s == tx'
  <2> HIDE DEF s
  <2>2. /\ Len(s \o wbuf) = Len(s) + Len(wbuf)
        /\ \A i \in 1 .. Len(s) + Len(wbuf) :
             \/ i \in 1 .. Len(s) /\ (s \o wbuf)[i] = s[i]
             \/ i - Len(s) \in 1 .. Len(wbuf) /\ (s \o wbuf)[i] = wbuf[i - Len(s)]
    <3>1. s \in Seq(Byte)
      BY <1>2 DEF s
    <3> QED BY <1>1, <3>1, ConcatFacts
  <2> QED BY <2>1, <2>2 DEF s
<1>4. ASSUME NEW i \in 1 .. Len(Pipe') PROVE Pipe'[i] = Pipe[m + i]
  <2>1. CASE i \in 1 .. Len(tx') /\ Pipe'[i] = tx'[i]
    <3>1. m + i \in 1 .. Len(tx) /\ tx'[i] = tx[m + i]
      BY <1>1, <1>2, <2>1
    <3> QED BY <2>1, <3>1, PipeIs
  <2>2. CASE i - Len(tx') \in 1 .. Len(wbuf) /\ Pipe'[i] = wbuf[i - Len(tx')]
    <3>1. Pipe[Len(tx) + (i - Len(tx'))] = wbuf[i - Len(tx')]
      BY <2>2, PipeIs
    <3>2. Len(tx) + (i - Len(tx')) = m + i
      BY <1>1, <1>2, <1>3
    <3> QED BY <2>2, <3>1, <3>2
  <2> QED BY <1>3, <2>1, <2>2
<1> QED BY <1>1, <1>2, <1>3, <1>4, PipeIs DEF Part

\* Nothing but a piece of what was under way: the order is kept.
LEMMA PartKeeps ==
    ASSUME LinkOK, LinkOK', Framing, Executions, log' = log, exec' = exec,
           NEW o \in Nat, Part(Pipe', o, Pipe)
    PROVE  Sorted(Pipe)' /\ InRequest(Pipe)' /\ Executions'
<1>1. /\ DOMAIN Pipe = 1 .. Len(Pipe) /\ Len(Pipe) \in Nat
      /\ DOMAIN Pipe' = 1 .. Len(Pipe') /\ Len(Pipe') \in Nat
  BY PipeIs, PipeNext
<1>2. \A i \in DOMAIN Pipe' : o + i \in DOMAIN Pipe /\ Pipe'[i] = Pipe[o + i]
  BY <1>1 DEF Part
<1>3. \A i, j \in DOMAIN Pipe' : i < j => o + i < o + j
  BY <1>1
<1>4. Sorted(Pipe)'
  BY <1>2, <1>3 DEF Framing, Sorted, Before
<1>5. InRequest(Pipe)'
  BY <1>2 DEF Framing, InRequest
<1>6. Executions'
  BY <1>2, SameLog DEF Executions, Ahead, InOrder
<1> QED BY <1>4, <1>5, <1>6

\* A step that is not a stub's writing.
LEMMA PipeShrinks ==
    ASSUME LinkOK, LinkOK', Framing, Executions, log' = log, exec' = exec,
           pc' # "write", NEW o \in Nat, Part(Pipe', o, Pipe)
    PROVE  Framing' /\ Executions'
BY PartKeeps DEF Framing

\* A step beside a stub that writes.
LEMMA WritingGoesOn ==
    ASSUME LinkOK, LinkOK', Framing, Executions, log' = log, exec' = exec,
           pc' = pc, wpos' = wpos, open' = open, NEW o \in Nat, Part(Pipe', o, Pipe),
           pc = "write" => \A i \in DOMAIN tx' : tx'[i].call = Cur => tx'[i].at < ReqBytes[Call.fn]
    PROVE  Framing' /\ Executions'
<1>1. /\ DOMAIN Pipe = 1 .. Len(Pipe) /\ Len(Pipe) \in Nat
      /\ DOMAIN Pipe' = 1 .. Len(Pipe') /\ Len(Pipe') \in Nat
  BY PipeIs, PipeNext
<1>2. \A i \in DOMAIN Pipe' : o + i \in DOMAIN Pipe /\ Pipe'[i] = Pipe[o + i]
  BY <1>1 DEF Part
<1>3. pc = "write" => Writing'
  BY <1>2, SameLog DEF Framing, Writing
<1> QED BY <1>3, PartKeeps DEF Framing

\* Nothing under way changes.
LEMMA PipeStays ==
    ASSUME LinkOK, LinkOK', Framing, Executions, UNCHANGED <<tx, wbuf, log, exec>>,
           pc' # "write" \/ (pc' = pc /\ wpos' = wpos /\ open' = open)
    PROVE  Framing' /\ Executions'
<1>1. Pipe' = Pipe /\ Cur' = Cur /\ Call' = Call
  BY SameLog DEF Pipe
<1> QED BY <1>1 DEF Framing, Executions, Sorted, InRequest, Writing, Ahead, InOrder

-----------------------------------------------------------------------------
(* The steps. *)

LEMMA OrderInit == Init => Framing /\ Executions
<1> SUFFICES ASSUME Init PROVE Framing /\ Executions
  OBVIOUS
<1>1. LinkOK
  BY InitType
<1>2. DOMAIN Pipe = {} /\ DOMAIN exec = {} /\ pc # "write"
  <2>1. Len(tx) = 0 /\ Len(wbuf) = 0 /\ Len(exec) = 0 /\ exec \in Seq(Nat)
    BY EmptySeq DEF Init
  <2>2. DOMAIN exec = 1 .. Len(exec)
    BY <2>1, LenProperties
  <2> QED BY <1>1, <2>1, <2>2, PipeIs DEF Init
<1> QED BY <1>2 DEF Framing, Executions, Sorted, InRequest, Ahead, InOrder

LEMMA CreateOrder ==
    ASSUME HostOK, LinkOK, HostOK', LinkOK', Framing, Executions, NEW f \in Fn, Create(f)
    PROVE  Framing' /\ Executions'
<1>1. /\ Pipe' = Pipe /\ exec' = exec /\ tx' = tx /\ Cur' = Cur + 1 /\ Cur \in Nat
      /\ \A i \in 1 .. Cur : log'[i] = log[i]
  <2>1. [fn |-> f, as |-> cmdId[f], arg |-> fn] \in CallRecord
    BY DEF HostOK, CallRecord
  <2> QED BY <2>1, AppendProperties, LenProperties DEF Create, LinkOK, Cur, Pipe, usb
<1>2. /\ \A i \in DOMAIN Pipe : Pipe[i].call \in 1 .. Cur
      /\ \A i \in DOMAIN tx : tx[i].call \in 1 .. Cur
      /\ \A i \in DOMAIN exec : exec[i] \in 1 .. Cur
  BY PipeIs DEF Known, Executions, LinkOK
<1>3. Sorted(Pipe)' /\ InRequest(Pipe)' /\ Executions'
  BY <1>1, <1>2 DEF Framing, Executions, Sorted, InRequest, Ahead, InOrder
<1>4. Writing'
  <2>1. wpos' = 0
    BY DEF Create
  <2> QED BY <1>1, <1>2, <2>1 DEF Writing
<1> QED BY <1>3, <1>4 DEF Framing

LEMMA WriteByteOrder ==
    ASSUME HostOK, LinkOK, HostOK', LinkOK', Framing, Executions, WriteByte
    PROVE  Framing' /\ Executions'
<1> DEFINE b == [call |-> Cur, at |-> wpos + 1]
           n == Len(Pipe)
<1>1. /\ pc = "write" /\ wpos < ReqBytes[Call.fn] /\ wpos' = wpos + 1 /\ wpos \in Nat
      /\ UNCHANGED <<open, pc, tx, log, exec>> /\ wbuf' = Append(wbuf, b) /\ open
      /\ Writing /\ Cur \in Nat \ {0} /\ Cur' = Cur /\ Call' = Call
  BY CallIs, SameLog DEF WriteByte, history, Framing, HostOK, InCall
<1>2. b \in Byte /\ b.call = Cur /\ b.at = wpos + 1
  BY <1>1 DEF Byte
<1> HIDE DEF b
<1>3. /\ Len(wbuf') = Len(wbuf) + 1 /\ wbuf'[Len(wbuf) + 1] = b
      /\ \A i \in 1 .. Len(wbuf) : wbuf'[i] = wbuf[i]
  BY <1>1, <1>2, AppendProperties DEF LinkOK
<1>4. /\ DOMAIN Pipe = 1 .. n /\ n \in Nat /\ DOMAIN Pipe' = 1 .. n + 1
  <2>1. DOMAIN Pipe = 1 .. n /\ n \in Nat /\ n = Len(tx) + Len(wbuf)
    BY PipeIs
  <2>2. DOMAIN Pipe' = 1 .. Len(Pipe') /\ Len(Pipe') = Len(tx') + Len(wbuf')
    BY PipeNext
  <2>3. Len(Pipe') = n + 1
    BY <1>1, <1>3, <2>1, <2>2, PipeIs
  <2> QED BY <2>1, <2>2, <2>3
<1>5. Pipe' = Append(Pipe, b)
  <2>1. tx \in Seq(Byte) /\ wbuf \in Seq(Byte)
    BY DEF LinkOK
  <2>2. wbuf' = wbuf \o <<b>>
    BY <1>1, <1>2, <2>1, AppendIsConcat
  <2>3. <<b>> \in Seq(Byte)
    BY <1>2
  <2>4. tx \o (wbuf \o <<b>>) = (tx \o wbuf) \o <<b>>
    BY <2>1, <2>3, ConcatAssociative
  <2>5. Pipe \in Seq(Byte)
    BY PipeIs
  <2> QED BY <1>1, <1>2, <2>2, <2>4, <2>5, AppendIsConcat DEF Pipe
<1>6. Pipe'[n + 1] = b /\ \A i \in 1 .. n : Pipe'[i] = Pipe[i]
  BY <1>2, <1>5, PipeIs, AppendProperties
<1>7. \A i \in 1 .. n : /\ Pipe[i].call \in 1 .. Cur /\ Pipe[i].at \in Nat
                        /\ Pipe[i].call = Cur => Pipe[i].at <= wpos
  BY <1>1, <1>4, PipeIs, BytesAreNat DEF Known, Writing
<1>8. \A i \in 1 .. n : Before(Pipe[i], b)
  BY <1>1, <1>2, <1>7 DEF Before
<1>9. \A i \in 1 .. n + 1 : i \in 1 .. n \/ i = n + 1
  BY <1>4
<1>10. Sorted(Pipe)'
  <2> SUFFICES ASSUME NEW i \in 1 .. n + 1, NEW j \in 1 .. n + 1, i < j
               PROVE  Before(Pipe'[i], Pipe'[j])
    BY <1>4 DEF Sorted, Before
  <2>1. i \in 1 .. n
    BY <1>4
  <2>2. CASE j \in 1 .. n
    BY <1>4, <1>6, <2>1, <2>2 DEF Framing, Sorted
  <2>3. CASE j = n + 1
    BY <1>6, <1>8, <2>1, <2>3
  <2> QED BY <1>9, <2>2, <2>3
<1>11. InRequest(Pipe)'
  <2> SUFFICES ASSUME NEW i \in 1 .. n + 1
               PROVE  Pipe'[i].at <= ReqBytes[log[Pipe'[i].call].fn]
    BY <1>1, <1>4 DEF InRequest
  <2>1. CASE i \in 1 .. n
    BY <1>4, <1>6, <2>1 DEF Framing, InRequest
  <2>2. ReqBytes[Call.fn] \in Nat
    BY <1>1, CallIs, SizesAreNat DEF InCall
  <2>3. CASE i = n + 1
    BY <1>1, <1>2, <1>6, <2>2, <2>3, SMTT(30) DEF Call
  <2> QED BY <1>9, <2>1, <2>3
<1>12. Executions'
  <2>1. ASSUME NEW i \in DOMAIN exec, NEW j \in 1 .. n + 1 PROVE exec[i] < Pipe'[j].call
    <3>1. CASE j \in 1 .. n
      BY <1>4, <1>6, <3>1 DEF Executions, Ahead
    <3>2. CASE j = n + 1
      BY <1>1, <1>2, <1>6, <3>2 DEF Writing
    <3> QED BY <1>9, <3>1, <3>2
  <2> QED BY <1>1, <1>4, <2>1 DEF Executions, Ahead, InOrder
<1>13. Writing'
  <2>1. ASSUME NEW i \in 1 .. n + 1, Pipe'[i].call = Cur PROVE Pipe'[i].at <= wpos'
    <3>1. CASE i \in 1 .. n
      BY <1>1, <1>6, <1>7, <2>1, <3>1
    <3>2. CASE i = n + 1
      BY <1>1, <1>2, <1>6, <3>2
    <3> QED BY <1>9, <3>1, <3>2
  <2> QED BY <1>1, <1>4, <2>1 DEF Writing
<1> QED BY <1>10, <1>11, <1>12, <1>13 DEF Framing

\* The board takes the whole request at the head of what is under way: it is
\* behind all it has executed, and nothing of it is left.
LEMMA ExecuteOrder ==
    ASSUME HostOK, LinkOK, HostOK', LinkOK', Framing, Executions, Execute
    PROVE  Framing' /\ Executions'
<1> DEFINE n == tx[1].call
           m == ReqBytes[log[n].fn]
<1>1. /\ n \in 1 .. Cur /\ n \in Nat /\ m \in Nat \ {0} /\ Cur \in Nat
      /\ Len(tx) \in Nat \ {0} /\ log[n].fn \in Fn
  <2>1. tx # <<>>
    BY DEF Execute
  <2>2. Cur \in Nat
    BY HdrIs
  <2> QED BY <2>1, <2>2, FirstOfTx
<1>2. /\ m <= Len(tx) /\ \A j \in 1 .. m : tx[j] = [call |-> n, at |-> j]
      /\ exec' = Append(exec, n) /\ tx' = Drop(tx, m)
      /\ UNCHANGED <<open, pc, wpos, wbuf, log>>
  BY DEF Execute, Whole, host, history
<1> HIDE DEF n, m
<1>3. Part(Pipe', m, Pipe) /\ m \in 0 .. Len(tx)
  BY <1>1, <1>2, SuffixIsPart
<1>4. /\ DOMAIN Pipe = 1 .. Len(Pipe) /\ Len(Pipe) \in Nat
      /\ DOMAIN Pipe' = 1 .. Len(Pipe') /\ Len(Pipe') \in Nat
      /\ \A j \in 1 .. m : j \in DOMAIN Pipe /\ Pipe[j] = [call |-> n, at |-> j]
  <2>1. /\ DOMAIN Pipe = 1 .. Len(Pipe) /\ Len(Pipe) \in Nat
        /\ DOMAIN Pipe' = 1 .. Len(Pipe') /\ Len(Pipe') \in Nat
        /\ Len(Pipe) = Len(tx) + Len(wbuf) /\ Len(wbuf) \in Nat
    BY PipeIs, PipeNext
  <2>2. \A j \in 1 .. m : j \in 1 .. Len(tx) /\ j \in 1 .. Len(Pipe)
    BY <1>1, <1>2, <2>1
  <2> QED BY <1>2, <2>1, <2>2, PipeIs
<1>5. \A i \in DOMAIN Pipe' : m + i \in DOMAIN Pipe /\ Pipe'[i] = Pipe[m + i] /\ m < m + i
  BY <1>1, <1>3, <1>4 DEF Part
<1>6. exec \in Seq(Nat) /\ Len(exec) \in Nat /\ DOMAIN exec = 1 .. Len(exec)
  BY LenProperties DEF LinkOK
<1>7. /\ DOMAIN exec' = 1 .. Len(exec) + 1 /\ exec'[Len(exec) + 1] = n
      /\ \A i \in 1 .. Len(exec) : exec'[i] = exec[i]
  BY <1>1, <1>2, <1>6, AppendProperties, LenProperties
<1>8. \A i \in 1 .. Len(exec) : exec[i] < n
  <2>1. 1 \in DOMAIN Pipe /\ Pipe[1].call = n
    <3>1. 1 \in 1 .. m
      BY <1>1
    <3>2. Pipe[1] = [call |-> n, at |-> 1]
      BY <1>4, <3>1
    <3> QED BY <1>4, <3>1, <3>2
  <2> QED BY <1>6, <2>1 DEF Executions, Ahead
<1>9. \A i \in DOMAIN Pipe' : n < Pipe'[i].call
  <2> SUFFICES ASSUME NEW i \in DOMAIN Pipe' PROVE n < Pipe[m + i].call
    BY <1>5
  <2>1. Before(Pipe[m], Pipe[m + i]) /\ Pipe[m].call = n /\ Pipe[m].at = m
    <3>1. m \in 1 .. m
      BY <1>1
    <3>2. m \in DOMAIN Pipe /\ Pipe[m] = [call |-> n, at |-> m]
      BY <1>4, <3>1
    <3> QED BY <1>5, <3>2 DEF Framing, Sorted
  <2>2. Pipe[m + i].at <= ReqBytes[log[Pipe[m + i].call].fn]
    BY <1>5 DEF Framing, InRequest
  <2>3. Pipe[m + i].at \in Nat /\ Pipe[m + i].call \in Nat
    BY <1>5, BytesAreNat, PipeIs
  <2>4. ~(n = Pipe[m + i].call /\ m < Pipe[m + i].at)
    <3>1. m \in Nat
      BY <1>1
    <3>2. n = Pipe[m + i].call => Pipe[m + i].at <= m
      BY <2>2 DEF m
    <3> HIDE DEF m
    <3> QED BY <2>3, <3>1, <3>2
  <2> QED BY <2>1, <2>4 DEF Before
<1>10. Sorted(Pipe)' /\ InRequest(Pipe)'
  <2>1. Sorted(Pipe)'
    <3>1. \A i, j \in DOMAIN Pipe' : i < j => m + i < m + j
      BY <1>1, <1>4
    <3> QED BY <1>5, <3>1 DEF Framing, Sorted, Before
  <2>2. InRequest(Pipe)'
    BY <1>2, <1>5 DEF Framing, InRequest
  <2> QED BY <2>1, <2>2
<1>11. \A i \in DOMAIN exec' : i \in 1 .. Len(exec) \/ i = Len(exec) + 1
  BY <1>6, <1>7
<1>12. Executions'
  <2>1. InOrder'
    <3> SUFFICES ASSUME NEW i \in DOMAIN exec', NEW j \in DOMAIN exec', i < j
                 PROVE  exec'[i] < exec'[j]
      BY DEF InOrder
    <3>1. i \in 1 .. Len(exec)
      BY <1>6, <1>7
    <3>2. CASE j \in 1 .. Len(exec)
      BY <1>6, <1>7, <3>1, <3>2 DEF Executions, InOrder
    <3>3. CASE j = Len(exec) + 1
      BY <1>7, <1>8, <3>1, <3>3
    <3> QED BY <1>11, <3>2, <3>3
  <2>2. Ahead(Pipe)'
    <3> SUFFICES ASSUME NEW i \in DOMAIN exec', NEW j \in DOMAIN Pipe'
                 PROVE  exec'[i] < Pipe'[j].call
      BY DEF Ahead
    <3>1. CASE i \in 1 .. Len(exec)
      BY <1>5, <1>6, <1>7, <3>1 DEF Executions, Ahead
    <3>2. CASE i = Len(exec) + 1
      BY <1>7, <1>9, <3>2
    <3> QED BY <1>11, <3>1, <3>2
  <2>3. \A i \in DOMAIN exec' : exec'[i] \in 1 .. Cur'
    BY <1>1, <1>2, <1>6, <1>7, <1>11, SameLog DEF Executions
  <2> QED BY <2>1, <2>2, <2>3 DEF Executions
<1>13. pc = "write" => Writing'
  <2> SUFFICES ASSUME pc = "write", Writing PROVE Writing'
    BY DEF Framing
  <2>1. n # Cur
    <3>1. tx[m].call = n /\ tx[m].at = m /\ m \in DOMAIN tx
      <4>1. m \in 1 .. m /\ m \in 1 .. Len(tx)
        BY <1>1, <1>2
      <4>2. tx[m] = [call |-> n, at |-> m]
        BY <1>2, <4>1
      <4> QED BY <4>1, <4>2, PipeIs
    <3> QED BY <1>1, <3>1 DEF Writing, m, Call
  <2>2. \A i \in DOMAIN exec' : exec'[i] < Cur
    BY <1>1, <1>6, <1>7, <1>11, <2>1 DEF Writing
  <2>3. \A i \in DOMAIN Pipe' : Pipe'[i].call = Cur => Pipe'[i].at <= wpos
    BY <1>5 DEF Writing
  <2>4. \A i \in DOMAIN tx' : m + i \in DOMAIN tx /\ tx'[i] = tx[m + i]
    BY <1>2, <1>3, DropIs
  <2> QED BY <1>2, <2>2, <2>3, <2>4, SameLog DEF Writing
<1> QED BY <1>2, <1>10, <1>12, <1>13 DEF Framing

\* These steps leave a piece of what was under way.
LEMMA LeavesPart ==
    ASSUME HostOK, LinkOK,
           \/ WriteFull \/ Flush \/ FlushFails \/ UserFlush \/ Clear \/ Open
           \/ Discard \/ Execute
    PROVE  \E o \in Nat : Part(Pipe', o, Pipe)
<1>1. Len(tx) \in Nat /\ Len(wbuf) \in Nat /\ 0 \in Nat
  BY PipeIs
<1>2. CASE Discard \/ Execute
  <2>1. \E m \in 0 .. Len(tx) : tx' = Drop(tx, m) /\ wbuf' = wbuf
    <3>1. CASE Discard
      <4>1. 1 \in 0 .. Len(tx)
        BY <3>1, FirstOfTx DEF Discard
      <4> QED BY <3>1, <4>1 DEF Discard, usb
    <3>2. CASE Execute
      <4>1. ReqBytes[log[tx[1].call].fn] \in 0 .. Len(tx)
        <5>1. tx # <<>> /\ ReqBytes[log[tx[1].call].fn] <= Len(tx)
          BY <3>2 DEF Execute, Whole
        <5>2. ReqBytes[log[tx[1].call].fn] \in Nat
          BY <5>1, FirstOfTx
        <5> QED BY <1>1, <5>1, <5>2
      <4> QED BY <3>2, <4>1 DEF Execute
    <3> QED BY <1>2, <3>1, <3>2
  <2>2. PICK m \in 0 .. Len(tx) : tx' = Drop(tx, m) /\ wbuf' = wbuf
    BY <2>1
  <2> QED BY <1>1, <2>2, SuffixIsPart
<1>3. CASE WriteFull \/ Flush \/ FlushFails \/ UserFlush \/ Clear \/ Open
  <2>1. wbuf' = <<>>
    BY <1>3 DEF WriteFull, Flush, FlushFails, UserFlush, Clear, Open
  <2>2. \/ tx' = tx \o wbuf \/ tx' = tx
        \/ \E k \in 0 .. Len(wbuf) : tx' = tx \o SubSeq(wbuf, 1, k)
        \/ \E k \in 0 .. Len(tx) : tx' = SubSeq(tx, 1, k)
    BY <1>3 DEF WriteFull, Flush, FlushFails, UserFlush, Clear, Open
  <2>3. CASE tx' = tx \o wbuf \/ tx' = tx
    BY <1>1, <2>1, <2>3, PrefixIsPart
  <2>4. CASE \E k \in 0 .. Len(wbuf) : tx' = tx \o SubSeq(wbuf, 1, k)
    <3>1. PICK k \in 0 .. Len(wbuf) : tx' = tx \o SubSeq(wbuf, 1, k)
      BY <2>4
    <3>2. k \in Nat /\ k <= Len(wbuf)
      BY <1>1
    <3> QED BY <1>1, <2>1, <3>1, <3>2, PrefixIsPart
  <2>5. CASE \E k \in 0 .. Len(tx) : tx' = SubSeq(tx, 1, k)
    <3>1. PICK k \in 0 .. Len(tx) : tx' = SubSeq(tx, 1, k)
      BY <2>5
    <3>2. k \in Nat /\ k <= Len(tx)
      BY <1>1
    <3> QED BY <1>1, <2>1, <3>1, <3>2, PrefixIsPart
  <2> QED BY <2>2, <2>3, <2>4, <2>5
<1> QED BY <1>2, <1>3

LEMMA WriteOrder ==
    ASSUME HostOK, LinkOK, HostOK', LinkOK', Framing, Executions,
           WriteFull \/ Flush \/ FlushFails \/ UserFlush \/ Clear \/ Open \/ Discard
    PROVE  Framing' /\ Executions'
<1>1. /\ log' = log /\ exec' = exec /\ Cur' = Cur
      /\ \/ pc' # "write"
         \/ WriteFull \/ Discard
  BY SameLog DEF WriteFull, Flush, FlushFails, UserFlush, Clear, Open, Discard, history, usb,
                 Await, Throw, host
<1>2. PICK o \in Nat : Part(Pipe', o, Pipe)
  BY LeavesPart
<1>3. CASE pc' # "write"
  BY <1>1, <1>2, <1>3, PipeShrinks
<1>4. CASE WriteFull
  <2>1. tx' = tx \o wbuf /\ wbuf' = <<>> /\ pc = "write" /\ pc' = pc /\ wpos' = wpos
        /\ wpos < ReqBytes[Call.fn] /\ open' = open
    BY <1>4 DEF WriteFull, host
  <2>2. tx' = Pipe
    BY <2>1 DEF Pipe
  <2>3. ReqBytes[Call.fn] \in Nat /\ wpos \in Nat
    BY <2>1, CallIs, SizesAreNat DEF InCall, HostOK
  <2>4. ASSUME NEW i \in DOMAIN tx', tx'[i].call = Cur PROVE tx'[i].at < ReqBytes[Call.fn]
    <3>1. i \in DOMAIN Pipe /\ Pipe[i].at <= wpos
      BY <2>1, <2>2, <2>4 DEF Framing, Writing
    <3>2. Pipe[i].at \in Nat
      BY <3>1, BytesAreNat, PipeIs
    <3> QED BY <2>1, <2>2, <2>3, <3>1, <3>2
  <2> QED BY <1>1, <1>2, <2>1, <2>4, WritingGoesOn
<1>5. CASE Discard
  <2>1. tx # <<>> /\ tx' = Drop(tx, 1) /\ wbuf' = wbuf /\ pc' = pc /\ wpos' = wpos /\ open' = open
    BY <1>5 DEF Discard, host, usb
  <2>2. 1 \in 0 .. Len(tx)
    BY <2>1, FirstOfTx
  <2>3. ASSUME NEW i \in DOMAIN tx' PROVE 1 + i \in DOMAIN tx /\ tx'[i] = tx[1 + i]
    BY <2>1, <2>2, <2>3, DropIs
  <2>4. pc = "write" => \A i \in DOMAIN tx' : tx'[i].call = Cur => tx'[i].at < ReqBytes[Call.fn]
    BY <2>3 DEF Framing, Writing
  <2> QED BY <1>1, <1>2, <2>1, <2>4, WritingGoesOn
<1> QED BY <1>1, <1>3, <1>4, <1>5

LEMMA OrderStep ==
    HostOK /\ LinkOK /\ Framing /\ Executions /\ [Next]_vars => Framing' /\ Executions'
<1> SUFFICES ASSUME HostOK, LinkOK, Framing, Executions, [Next]_vars
             PROVE  Framing' /\ Executions'
  OBVIOUS
<1>1. HostOK' /\ LinkOK'
  BY StepType
<1>2. CASE CreateKnown
  BY <1>1, <1>2, CreateOrder DEF CreateKnown, HostOK
<1>3. CASE CreateLookup
  BY <1>1, <1>3, CreateOrder, FnAssumption DEF CreateLookup
<1>4. CASE WriteByte
  BY <1>1, <1>4, WriteByteOrder
<1>5. CASE WriteFull \/ Flush \/ FlushFails \/ UserFlush \/ Clear \/ Open \/ Discard
  BY <1>1, <1>5, WriteOrder
<1>6. CASE Execute
  BY <1>1, <1>6, ExecuteOrder
<1>7. CASE \E f \in Fn : Client(f)
  BY <1>1, <1>7, PipeStays DEF Client, usb, history
<1>8. CASE NoSuchCall
  BY <1>1, <1>8, PipeStays DEF NoSuchCall, Throw, usb, history
<1>9. CASE WriteClosed \/ ReturnVoid
  <2>1. UNCHANGED <<tx, wbuf, log, exec>> /\ pc' # "write"
    BY <1>9 DEF WriteClosed, ReturnVoid, Throw, Return, usb, history
  <2> QED BY <1>1, <2>1, PipeStays
<1>10. CASE CopyBytes \/ FillBuffer \/ ShortRead \/ ReadFails
  <2>1. UNCHANGED <<tx, wbuf, log, exec>> /\ pc' # "write"
    BY <1>10 DEF CopyBytes, FillBuffer, ShortRead, ReadFails, Reading, Throw, host, usb, history
  <2> QED BY <1>1, <2>1, PipeStays
<1>11. CASE Looking
  <2>1. Quiet /\ pc = "read"
    BY <1>11 DEF Looking, GotType, GotCmd, GotSize, CheckFails, GotValue, GotPar, GotDataType,
         GotDataSize, GotData, GotDrain, GotSink, Ready
  <2>2. pc' # "write"
    BY <1>11 DEF Looking, GotType, GotCmd, GotSize, CheckFails, GotValue, GotPar, GotDataType,
         GotDataSize, GotData, GotDrain, GotSink, Throw, Await, Return
  <2> QED BY <1>1, <2>1, <2>2, PipeStays DEF Quiet, usb, history
<1>12. CASE Close
  BY <1>1, <1>12, PipeStays DEF Close
<1>13. CASE Arrive
  BY <1>1, <1>13, PipeStays DEF Arrive, host, history
<1>14. CASE UNCHANGED vars
  BY <1>1, <1>14, PipeStays DEF vars, host, usb, history
<1> QED BY <1>2, <1>3, <1>4, <1>5, <1>6, <1>7, <1>8, <1>9, <1>10, <1>11, <1>12, <1>13, <1>14
        DEF Next, Stub, User, Board, Looking

\* The board executes the calls in the order in which the client made them, and
\* none of them twice: m_bufferW, its flush in the middle of a message, and the
\* messages that are cut off by a failed write or by Clear keep it so.
THEOREM ExecutedInOrder == Spec => []InOrder
<1>1. HostOK /\ LinkOK /\ Framing /\ Executions => InOrder
  BY DEF Executions
<1> QED BY InitType, StepType, OrderInit, OrderStep, <1>1, PTL DEF Spec

-----------------------------------------------------------------------------
(* While the link is clean rpc_cmdId holds no wrong id, too.  No message     *)
(* carries the number of its call; what keeps the answers apart is that, on  *)
(* a clean link, the bytes from the board are the rest of the answer to the  *)
(* call in progress and nothing else (Clean).                                *)

Placed == HostOK /\ LinkOK /\ Framing /\ Executions
Answered == Naming /\ Paired /\ (clean => Clean)

Expecting(i) == HasAnswer(log[Pipe[i].call].fn)

-----------------------------------------------------------------------------
(* What is under way, the names and the last reply, when little changes. *)

LEMMA SentKeeps ==
    ASSUME LinkOK, LinkOK', log' = log, Sent(Pipe), NEW o \in Nat, Part(Pipe', o, Pipe),
           \A i \in DOMAIN Pipe : Expecting(i) => InCall'
    PROVE  Sent(Pipe)'
<1>1. /\ DOMAIN Pipe = 1 .. Len(Pipe) /\ Len(Pipe) \in Nat
      /\ DOMAIN Pipe' = 1 .. Len(Pipe') /\ Len(Pipe') \in Nat
  BY PipeIs, PipeNext
<1>2. \A i \in DOMAIN Pipe' : o + i \in DOMAIN Pipe /\ Pipe'[i] = Pipe[o + i]
  BY <1>1 DEF Part
<1> QED BY <1>2, SameLog DEF Sent, Expecting

LEMMA SentStays ==
    ASSUME log' = log, Pipe' = Pipe, Sent(Pipe),
           \A i \in DOMAIN Pipe : Expecting(i) => InCall'
    PROVE  Sent(Pipe)'
BY SameLog DEF Sent, Expecting

LEMMA PipeSame == UNCHANGED <<tx, wbuf>> => Pipe' = Pipe
BY DEF Pipe

LEMMA NamingKeeps ==
    ASSUME Naming, log' = log, cmdId' = cmdId, InCall' => InCall /\ fn' = fn
    PROVE  Naming'
BY SameLog DEF Naming

LEMMA PairedKeeps == ASSUME Paired, ret' = ret \/ ret'.out # "ok" PROVE Paired'
BY DEF Paired

LEMMA ThrowKeeps ==
    ASSUME Naming, Paired, NEW e, e # "ok", Throw(e), log' = log
    PROVE  Naming' /\ Paired' /\ ~InCall' /\ pc' = "idle" /\ cmdId' = cmdId
<1>2. ret'.out = e
  BY DEF Throw
<1>3. pc' = "idle" /\ cmdId' = cmdId /\ ~InCall'
  BY DEF Throw, InCall
<1>4. Naming'
  BY <1>3, NamingKeeps
<1> QED BY <1>2, <1>3, <1>4, PairedKeeps

\* No stub waits, so nothing under way will be answered.
LEMMA NothingExpected ==
    ASSUME Sent(Pipe), ~InCall PROVE \A i \in DOMAIN Pipe : ~Expecting(i)
BY DEF Sent, Expecting

-----------------------------------------------------------------------------
(* On a clean link, a Read that is complete has read its place of the answer. *)

LEMMA OnPlace ==
    ASSUME Placed, clean, Clean, pc = "read", need = 0
    PROVE  /\ OnTrack /\ InCall /\ Call.as = Call.fn /\ Call.fn \in Fn /\ Cur \in Nat \ {0}
           /\ Len(got) = Size /\ DOMAIN got = 1 .. Len(got) /\ Len(got) \in Nat
           /\ \A i \in 1 .. Len(got) : got[i] = [call |-> Cur, at |-> Base + i]
           /\ \A i \in DOMAIN Pipe : ~Expecting(i)
           /\ wbuf = <<>> /\ \A i \in DOMAIN tx : tx[i].call # Cur
           /\ HasAnswer(Call.fn)
<1>1. InCall /\ need # 1
  BY DEF InCall
<1>2. OnTrack /\ wbuf = <<>> /\ HasAnswer(Call.fn) /\ \A i \in DOMAIN tx : tx[i].call # Cur
  BY <1>1 DEF Clean, NotYet
<1>3. /\ Call.as = Call.fn /\ Call.fn \in Fn /\ Cur \in Nat \ {0}
      /\ Len(got) \in Nat /\ DOMAIN got = 1 .. Len(got)
  BY <1>1, CallIs, LenProperties DEF Placed, Clean, HostOK
<1>4. Len(got) = Size
  BY <1>2, <1>3 DEF OnTrack
<1>5. \A i \in 1 .. Len(got) : got[i] = [call |-> Cur, at |-> Base + i]
  BY <1>2, <1>3 DEF OnTrack, Continues
<1>6. \A i \in DOMAIN Pipe : ~Expecting(i)
  <2>1. Pipe = tx
    BY <1>2, ConcatEmptySeq DEF Pipe, Placed, LinkOK
  <2> QED BY <1>2, <2>1 DEF Clean, Sent, Expecting
<1> QED BY <1>1, <1>2, <1>3, <1>4, <1>5, <1>6

\* The bytes that are in their place are one behind the other.
LEMMA InPlace ==
    ASSUME NEW s \in Seq(Byte), NEW n \in Nat, NEW p \in Nat, Len(s) > 0,
           \A i \in 1 .. Len(s) : s[i] = [call |-> n, at |-> p + i]
    PROVE  Consecutive(s) /\ s[1] = [call |-> n, at |-> p + 1]
<1>1. Len(s) \in Nat /\ 1 \in 1 .. Len(s) /\ s[1] = [call |-> n, at |-> p + 1]
  BY LenProperties
<1>2. ASSUME NEW i \in 2 .. Len(s) PROVE s[i] = [call |-> s[1].call, at |-> s[1].at + i - 1]
  <2>1. i \in 1 .. Len(s) /\ s[i] = [call |-> n, at |-> p + i]
    BY <1>1
  <2>2. s[1].at + i - 1 = p + i /\ s[1].call = n
    BY <1>1
  <2> QED BY <2>1, <2>2
<1> QED BY <1>1, <1>2 DEF Consecutive

\* ... and come from the call the bytes before them came from.
LEMMA SourceInPlace ==
    ASSUME NEW s \in Seq(Byte), NEW c \in Nat, NEW p \in Nat,
           \A i \in 1 .. Len(s) : s[i] = [call |-> c, at |-> p + i]
    PROVE  Source(c, s, p + 1, Len(s)) = c
<1>1. CASE Len(s) = 0
  BY <1>1 DEF Source
<1>2. CASE Len(s) > 0
  BY <1>2, InPlace DEF Source
<1> QED BY <1>1, <1>2, LenProperties

-----------------------------------------------------------------------------
(* The steps of a stub that only look at what was read. *)

\* The next Read is to give the next field of the answer.
NextField ==
    /\ field' \in {"cmd", "size", "par", "dtype", "dsize", "data"}
    /\ field' \in {"dtype", "dsize", "data"} => HasData(Call.fn)
    /\ Base' = Base + Size /\ need' = Size'
    /\ hdr'.src = Cur
    /\ field' \in {"size", "par"} => hdr'.cmd = Call.as
    /\ field' = "par" => hdr'.size = ParBytes[Call.fn]
    /\ field' = "data" => hdr'.size = DatBytes[Call.fn]

LEMMA NothingMore == \A a \in Nat : a + 0 = a
OBVIOUS

LEMMA AwaitKeeps ==
    ASSUME Placed, Placed', Answered, Quiet, pc = "read", need = 0,
           pc' = "read", got' = <<>>, UNCHANGED <<cmdId, fn, wpos, ret>>,
           clean => NextField
    PROVE  Answered'
<1>1. log' = log /\ clean' = clean /\ up' = up /\ wbuf' = wbuf /\ tx' = tx /\ Cur' = Cur
      /\ Call' = Call /\ InCall' /\ Pipe' = Pipe
  BY SameLog, PipeSame DEF Quiet, usb, history, InCall
<1>2. Naming' /\ Paired'
  BY <1>1, NamingKeeps, PairedKeeps DEF Answered, InCall
<1>3. ASSUME clean PROVE Clean'
  <2>1. Clean /\ NextField
    BY <1>3 DEF Answered
  <2> USE <1>3, <2>1, OnPlace
  <2>2. Sent(Pipe)'
    BY <1>1, SentStays DEF Clean
  <2>3. IdsGood' /\ Call'.as = Call'.fn
    BY <1>1 DEF IdsGood, Clean
  <2>4. got' = <<>> /\ Len(got') = 0 /\ DOMAIN got' = {}
    BY EmptySeq
  <2>5. Base \in Nat /\ Size \in Nat /\ Len(up) \in Nat
        /\ Base + Size + Len(up) = AnswerBytes(Call.fn)
    <3>1. Size \in Nat /\ need = 0
      OBVIOUS
    <3>2. Base + Len(got) + Len(up) = AnswerBytes(Call.fn)
      BY DEF OnTrack
    <3>3. CmdEnd(Call.fn) \in Nat
      BY SizesAreNat DEF CmdEnd
    <3>4. Base \in Nat
      BY <3>3 DEF Base
    <3>5. Len(up) \in Nat
      BY LenProperties DEF Placed, LinkOK
    <3> QED BY <3>1, <3>2, <3>4, <3>5
  <2>6. need' + Len(got') = Size'
    <3>1. need' = Size' /\ need' \in Nat
      BY DEF NextField, Placed, HostOK
    <3>2. need' + 0 = need' /\ Len(got') = 0
      BY <2>4, <3>1, NothingMore, Zenon
    <3> QED BY <3>1, <3>2, Zenon
  <2>7. Base' + Len(got') + Len(up') = AnswerBytes(Call'.fn)
    BY <1>1, <2>4, <2>5 DEF NextField
  <2>8. Continues(got', Cur', Base')
    BY <2>4 DEF Continues
  <2>9. Continues(up', Cur', Base' + Len(got'))
    <3>1. Continues(up, Cur, Base + Len(got)) /\ Base' + Len(got') = Base + Len(got)
      BY <2>4, <2>5 DEF OnTrack, NextField
    <3> QED BY <1>1, <3>1
  <2>10. OnTrack'
    BY <1>1, <2>6, <2>7, <2>8, <2>9 DEF OnTrack, NextField
  <2> QED BY <1>1, <2>2, <2>3, <2>10 DEF Clean
<1> QED BY <1>1, <1>2, <1>3 DEF Answered

LEMMA ReturnKeeps ==
    ASSUME Placed, Placed', Answered, Quiet, InCall, NEW src \in Nat, NEW id \in Ids,
           Return(src, id), clean => src = Cur,
           clean /\ Call.fn = Lookup /\ fn # Lookup => id = IdOf(fn),
           clean => up = <<>> /\ \A i \in DOMAIN Pipe : ~Expecting(i)
    PROVE  Answered'
<1>1. log' = log /\ clean' = clean /\ up' = up /\ Cur' = Cur /\ Call' = Call
      /\ Pipe' = Pipe /\ fn' = fn /\ fn \in Fn /\ cmdId \in [Fn -> Ids]
  BY SameLog, PipeSame DEF Quiet, usb, history, Return, Placed, HostOK
<1>2. pc' \in {"idle", "getid", "noid"} /\ ~InCall' /\ pc' # "read"
  BY DEF Return, InCall
<1>3. Paired'
  BY <1>1 DEF Return, Paired
<1>4. CASE Call.fn = Lookup /\ fn # Lookup
  <2>1. cmdId' = [cmdId EXCEPT ![fn] = id] /\ fn \notin Fixed
    BY <1>4 DEF Return, Answered, Naming
  <2>2. Naming'
    BY <1>1, <1>2, <2>1, FnAssumption DEF Answered, Naming
  <2>3. clean => IdsGood'
    BY <1>1, <1>4, <2>1 DEF Answered, Clean, IdsGood, IdOf
  <2>4. clean => Clean'
    BY <1>1, <1>2, <2>3, SentStays DEF Answered, Clean
  <2> QED BY <1>1, <1>3, <2>2, <2>4 DEF Answered
<1>5. CASE ~(Call.fn = Lookup /\ fn # Lookup)
  <2>1. cmdId' = cmdId
    BY <1>5 DEF Return
  <2>2. Naming'
    BY <1>1, <1>2, <2>1, NamingKeeps DEF Answered
  <2>3. clean => Clean'
    BY <1>1, <1>2, <2>1, SentStays DEF Answered, Clean, IdsGood
  <2> QED BY <1>1, <1>3, <2>2, <2>3 DEF Answered
<1> QED BY <1>4, <1>5

Looked == /\ Quiet /\ pc = "read" /\ need = 0 /\ InCall
          /\ log' = log /\ clean' = clean /\ Cur' = Cur /\ Call' = Call

LEMMA LookingIs == Looking => Looked
<1>1. Looking => Quiet /\ pc = "read" /\ need = 0
  BY DEF Looking, GotType, GotCmd, GotSize, CheckFails, GotValue, GotPar, GotDataType,
         GotDataSize, GotData, GotDrain, GotSink, Ready
<1> QED BY <1>1, SameLog DEF Looked, Quiet, history, InCall

\* On a link that is not clean nothing is promised of the answer.
LEMMA LookingDirty ==
    ASSUME Placed, Placed', Answered, Looking, ~clean
    PROVE  Answered'
<1>1. Looked /\ hdr.err # "ok" /\ HostOK /\ LinkOK /\ Naming /\ Paired
  BY LookingIs, HdrIs DEF Answered, Placed
<1>2. ASSUME NEW e, e # "ok", Throw(e) PROVE Answered'
  BY <1>1, <1>2, ThrowKeeps DEF Answered, Looked
<1>3. ASSUME NEW f, NEW n, NEW h, Await(f, n, h) PROVE Answered'
  BY <1>1, <1>3, AwaitKeeps DEF Looked, Await
<1>4. ASSUME NEW src \in Nat, NEW id \in Ids, Return(src, id) PROVE Answered'
  BY <1>1, <1>4, ReturnKeeps DEF Looked
<1>5. CASE GotType
  <2>1. (\E f, n, h : Await(f, n, h)) \/ Throw("WRONG_MSG_TYPE")
    BY <1>5 DEF GotType
  <2> QED BY <1>2, <1>3, <2>1
<1>6. CASE GotCmd
  BY <1>3, <1>6 DEF GotCmd
<1>7. CASE GotSize
  BY <1>3, <1>7 DEF GotSize
<1>8. CASE CheckFails
  BY <1>2, <1>8 DEF CheckFails
<1>9. CASE GotValue
  <2>1. ParSource \in 0 .. Cur /\ 0 .. Cur \subseteq Nat
    BY <1>1, SourceIs, HdrIs DEF ParSource
  <2>2. PICK id \in IF ParSource = 0 \/ log[ParSource].as # Lookup
                    THEN Ids ELSE {IdOf(log[ParSource].arg)} : Return(ParSource, id)
    BY <1>9 DEF GotValue
  <2>3. id \in Ids
    <3>1. CASE ParSource # 0
      <4>1. log[ParSource] \in CallRecord
        BY <1>1, <2>1, <3>1, ElementOfSeq DEF LinkOK, Cur
      <4> QED BY <2>2, <4>1 DEF CallRecord, IdOf, Ids
    <3> QED BY <2>2, <3>1
  <2> QED BY <1>4, <2>1, <2>2, <2>3
<1>10. CASE GotPar
  BY <1>3, <1>10 DEF GotPar
<1>11. CASE GotDataType
  <2>1. (\E f, n, h : Await(f, n, h)) \/ Throw("WRONG_MSG_TYPE")
    BY <1>11 DEF GotDataType
  <2> QED BY <1>2, <1>3, <2>1
<1>12. CASE GotDataSize
  <2>1. \E f, n, h : Await(f, n, h)
    BY <1>12 DEF GotDataSize
  <2> QED BY <1>3, <2>1
<1>13. CASE GotData
  <2>1. Source(hdr.src, got, CmdEnd(Call.fn) + 5, hdr.size) \in Nat
    BY <1>1, SourceIs, HdrIs
  <2> QED BY <1>4, <1>13, <2>1 DEF GotData, Ids
<1>14. CASE GotDrain
  BY <1>3, <1>14 DEF GotDrain
<1>15. CASE GotSink
  BY <1>1, <1>2, <1>15 DEF GotSink
<1> QED BY <1>5, <1>6, <1>7, <1>8, <1>9, <1>10, <1>11, <1>12, <1>13, <1>14, <1>15 DEF Looking

\* What a stub has before it on a clean link.
Placing == /\ OnTrack /\ Call.as = Call.fn /\ log[Cur].as = Call.fn /\ Call.fn \in Fn
           /\ Cur \in Nat \ {0} /\ got \in Seq(Byte) /\ Len(got) = Size /\ Len(got) \in Nat
           /\ \A i \in 1 .. Len(got) : got[i] = [call |-> Cur, at |-> Base + i]
           /\ \A i \in DOMAIN Pipe : ~Expecting(i)
           /\ ParBytes[Call.fn] \in Nat /\ DatBytes[Call.fn] \in Nat
           /\ CmdEnd(Call.fn) = 4 + ParBytes[Call.fn] /\ CmdEnd(Call.fn) \in Nat
           /\ hdr \in Headers /\ Base \in Nat /\ HasAnswer(Call.fn)

LEMMA PlacingIs ==
    ASSUME Placed, Answered, Looked, clean PROVE Placing
<1>1. Clean
  BY DEF Answered
<1>2. ParBytes[Call.fn] \in Nat /\ DatBytes[Call.fn] \in Nat /\ Call.fn \in Fn
  BY <1>1, OnPlace, SizesAreNat DEF Looked
<1>3. CmdEnd(Call.fn) = 4 + ParBytes[Call.fn] /\ CmdEnd(Call.fn) \in Nat
  BY <1>2 DEF CmdEnd
<1>4. Base \in Nat
  BY <1>3 DEF Base
<1>5. got \in Seq(Byte) /\ hdr \in Headers
  BY DEF Placed, HostOK
<1>6. log[Cur].as = Call.as
  BY DEF Call
<1> QED BY <1>1, <1>2, <1>3, <1>4, <1>5, <1>6, OnPlace DEF Placing, Looked

LEMMA GotTypeClean ==
    ASSUME Placed, Placed', Answered, Looked, clean, GotType PROVE Answered'
<1>1. Placing /\ field = "type"
  BY PlacingIs DEF GotType, Ready
<1>2. Base = 0 /\ Size = 1 /\ got[1] = [call |-> Cur, at |-> 1]
  <2>1. Base = 0 /\ Size = 1
    BY <1>1 DEF Base, Size
  <2> QED BY <1>1, <2>1 DEF Placing
<1>3. TypeOf(log, got) = {"DTB"}
  BY <1>2 DEF TypeOf
<1>4. Await("cmd", 2, [hdr EXCEPT !.src = IF got[1].at = 1 THEN got[1].call ELSE 0])
  BY <1>3 DEF GotType
<1>5. hdr' = [hdr EXCEPT !.src = Cur] /\ hdr'.src = Cur /\ field' = "cmd" /\ need' = 2
  BY <1>1, <1>2, <1>4 DEF Await, Placing, Headers
<1>6. Base' = 1 /\ Size' = 2
  BY <1>5 DEF Base, Size
<1>7. NextField
  BY <1>2, <1>5, <1>6 DEF NextField
<1> QED BY <1>4, <1>7, AwaitKeeps DEF Await, Looked

LEMMA GotCmdClean ==
    ASSUME Placed, Placed', Answered, Looked, clean, GotCmd PROVE Answered'
<1>1. Placing /\ field = "cmd" /\ hdr.src = Cur
  BY PlacingIs DEF GotCmd, Ready, Placing, OnTrack
<1>2. Base = 1 /\ Size = 2
  BY <1>1 DEF Base, Size
<1>3. Consecutive(got) /\ got[1] = [call |-> Cur, at |-> 2] /\ Source(Cur, got, 2, 2) = Cur
  <2>1. \A i \in 1 .. Len(got) : got[i] = [call |-> Cur, at |-> 1 + i]
    BY <1>1, <1>2 DEF Placing
  <2>2. got \in Seq(Byte) /\ Cur \in Nat /\ Len(got) = 2
    BY <1>1, <1>2 DEF Placing
  <2>3. Consecutive(got) /\ got[1] = [call |-> Cur, at |-> 2]
    <3>1. got[1] = [call |-> Cur, at |-> 2] /\ got[2] = [call |-> Cur, at |-> 3]
      BY <2>1, <2>2
    <3> QED BY <2>2, <3>1 DEF Consecutive
  <2>4. Source(Cur, got, 1 + 1, Len(got)) = Cur
    BY <2>1, <2>2, SourceInPlace
  <2> QED BY <2>2, <2>3, <2>4
<1>4. CmdOf(log, got) = {Call.as}
  BY <1>1, <1>3 DEF CmdOf, Placing
<1>5. Await("size", 1, [hdr EXCEPT !.cmd = Call.as, !.src = Cur])
  BY <1>1, <1>3, <1>4 DEF GotCmd
<1>6. hdr'.src = Cur /\ hdr'.cmd = Call.as /\ field' = "size" /\ need' = 1
  BY <1>1, <1>5 DEF Await, Placing, Headers
<1>7. Base' = 3 /\ Size' = 1
  BY <1>6 DEF Base, Size
<1>8. NextField
  BY <1>2, <1>6, <1>7 DEF NextField
<1> QED BY <1>5, <1>8, AwaitKeeps DEF Await, Looked

LEMMA GotSizeClean ==
    ASSUME Placed, Placed', Answered, Looked, clean, GotSize PROVE Answered'
<1>1. Placing /\ field = "size" /\ hdr.src = Cur /\ hdr.cmd = Call.as
  BY PlacingIs DEF GotSize, Ready, Placing, OnTrack
<1>2. Base = 3 /\ Size = 1
  BY <1>1 DEF Base, Size
<1>3. got[1] = [call |-> Cur, at |-> 4] /\ Source(Cur, got, 4, 1) = Cur
  <2>1. \A i \in 1 .. Len(got) : got[i] = [call |-> Cur, at |-> 3 + i]
    BY <1>1, <1>2 DEF Placing
  <2>2. got \in Seq(Byte) /\ Cur \in Nat /\ Len(got) = 1
    BY <1>1, <1>2 DEF Placing
  <2>3. Source(Cur, got, 3 + 1, Len(got)) = Cur
    BY <2>1, <2>2, SourceInPlace
  <2> QED BY <2>1, <2>2, <2>3
<1>4. SizeOf(log, got, Junk) = {ParBytes[Call.fn]}
  BY <1>1, <1>3 DEF SizeOf, Placing
<1>5. Await("par", ParBytes[Call.fn], [hdr EXCEPT !.size = ParBytes[Call.fn], !.src = Cur])
  BY <1>1, <1>3, <1>4 DEF GotSize
<1>6. hdr'.src = Cur /\ hdr'.cmd = Call.as /\ hdr'.size = ParBytes[Call.fn]
      /\ field' = "par" /\ need' = ParBytes[Call.fn]
  BY <1>1, <1>5 DEF Await, Placing, Headers
<1>7. Base' = 4 /\ Size' = ParBytes[Call.fn]
  BY <1>6 DEF Base, Size, Looked
<1>8. NextField
  BY <1>2, <1>6, <1>7 DEF NextField
<1> QED BY <1>5, <1>8, AwaitKeeps DEF Await, Looked

LEMMA GotParClean ==
    ASSUME Placed, Placed', Answered, Looked, clean, CheckFails \/ GotValue \/ GotPar
    PROVE  Answered'
<1>1. /\ Placing /\ field = "par" /\ hdr.src = Cur /\ hdr.cmd = Call.as
      /\ hdr.size = ParBytes[Call.fn]
  BY PlacingIs DEF CheckFails, GotValue, GotPar, Ready, Placing, OnTrack
<1>2. Base = 4 /\ Size = ParBytes[Call.fn] /\ Checked
  BY <1>1 DEF Base, Size, Checked
<1>3. ParSource = Cur
  <2>1. \A i \in 1 .. Len(got) : got[i] = [call |-> Cur, at |-> 4 + i]
    BY <1>1, <1>2 DEF Placing
  <2>2. got \in Seq(Byte) /\ Cur \in Nat /\ Len(got) = hdr.size
    BY <1>1, <1>2 DEF Placing
  <2>3. Source(Cur, got, 4 + 1, Len(got)) = Cur
    BY <2>1, <2>2, SourceInPlace
  <2> QED BY <1>1, <2>2, <2>3 DEF ParSource
<1>4. CASE GotValue
  <2>1. ~HasData(Call.fn)
    BY <1>4 DEF GotValue
  <2>2. up = <<>>
    <3>1. Base + Len(got) + Len(up) = 4 + ParBytes[Call.fn]
      BY <1>1, <2>1 DEF Placing, OnTrack, AnswerBytes
    <3>2. up \in Seq(Byte) /\ Len(up) \in Nat
      BY LenProperties DEF Placed, LinkOK
    <3>3. Len(up) = 0
      BY <1>1, <1>2, <3>1, <3>2 DEF Placing
    <3> QED BY <3>2, <3>3, EmptySeq
  <2>3. /\ log[Cur].arg = fn /\ fn \in Fn /\ Cur \in Nat \ {0} /\ log[Cur].as = Call.fn
    BY <1>1, CallIs DEF Answered, Naming, Looked, Call, Placed, HostOK, Placing
  <2>4. PICK id \in IF ParSource = 0 \/ log[ParSource].as # Lookup
                    THEN Ids ELSE {IdOf(log[ParSource].arg)} : Return(ParSource, id)
    BY <1>4 DEF GotValue
  <2>5. id \in Ids /\ (Call.fn = Lookup => id = IdOf(fn))
    BY <1>3, <2>3, <2>4 DEF IdOf, Ids
  <2>6. Cur \in Nat /\ Return(Cur, id)
    BY <1>3, <2>3, <2>4
  <2>7. \A i \in DOMAIN Pipe : ~Expecting(i)
    BY <1>1 DEF Placing
  <2> QED BY <2>2, <2>5, <2>6, <2>7, ReturnKeeps DEF Looked
<1>5. CASE GotPar
  <2>1. HasData(Call.fn) /\ Await("dtype", 1, [hdr EXCEPT !.src = Cur])
    BY <1>3, <1>5 DEF GotPar
  <2>2. hdr'.src = Cur /\ field' = "dtype" /\ need' = 1
    BY <1>1, <2>1 DEF Await, Placing, Headers
  <2>3. Base' = CmdEnd(Call.fn) /\ Size' = 1
    BY <2>2 DEF Base, Size, Looked
  <2>4. NextField
    BY <1>1, <1>2, <2>1, <2>2, <2>3 DEF NextField, Placing
  <2> QED BY <2>1, <2>4, AwaitKeeps DEF Await, Looked
<1> QED BY <1>2, <1>4, <1>5 DEF CheckFails

LEMMA GotDataTypeClean ==
    ASSUME Placed, Placed', Answered, Looked, clean, GotDataType PROVE Answered'
<1>1. Placing /\ field = "dtype" /\ hdr.src = Cur /\ HasData(Call.fn)
  BY PlacingIs DEF GotDataType, Ready, Placing, OnTrack
<1>2. Base = CmdEnd(Call.fn) /\ Size = 1
  BY <1>1 DEF Base, Size
<1>3. /\ got[1] = [call |-> Cur, at |-> CmdEnd(Call.fn) + 1]
      /\ Source(Cur, got, CmdEnd(Call.fn) + 1, 1) = Cur
  <2>1. \A i \in 1 .. Len(got) : got[i] = [call |-> Cur, at |-> CmdEnd(Call.fn) + i]
    BY <1>1, <1>2 DEF Placing
  <2>2. got \in Seq(Byte) /\ Cur \in Nat /\ Len(got) = 1 /\ CmdEnd(Call.fn) \in Nat
    BY <1>1, <1>2 DEF Placing
  <2>3. Source(Cur, got, CmdEnd(Call.fn) + 1, Len(got)) = Cur
    BY <2>1, <2>2, SourceInPlace
  <2> QED BY <2>1, <2>2, <2>3
<1>4. TypeOf(log, got) = {"DATA"}
  <2>1. CmdEnd(Call.fn) + 1 # 1
    BY <1>1 DEF Placing
  <2> QED BY <1>1, <1>3, <2>1 DEF TypeOf, Placing
<1>5. Await("dsize", 3, [hdr EXCEPT !.src = Source(hdr.src, got, CmdEnd(Call.fn) + 1, 1)])
  BY <1>4 DEF GotDataType
<1>6. hdr'.src = Cur /\ field' = "dsize" /\ need' = 3
  BY <1>1, <1>3, <1>5 DEF Await, Placing, Headers
<1>7. Base' = CmdEnd(Call.fn) + 1 /\ Size' = 3
  BY <1>6 DEF Base, Size, Looked
<1>8. NextField
  BY <1>1, <1>2, <1>6, <1>7 DEF NextField
<1> QED BY <1>5, <1>8, AwaitKeeps DEF Await, Looked

LEMMA GotDataSizeClean ==
    ASSUME Placed, Placed', Answered, Looked, clean, GotDataSize PROVE Answered'
<1>1. Placing /\ field = "dsize" /\ hdr.src = Cur /\ HasData(Call.fn)
  BY PlacingIs DEF GotDataSize, Ready, Placing, OnTrack
<1>2. Base = CmdEnd(Call.fn) + 1 /\ Size = 3
  BY <1>1 DEF Base, Size
<1>3. /\ got[1] = [call |-> Cur, at |-> CmdEnd(Call.fn) + 2] /\ Len(got) = 3
      /\ Consecutive(got) /\ Source(Cur, got, CmdEnd(Call.fn) + 2, 3) = Cur
  <2> DEFINE p == CmdEnd(Call.fn) + 1
  <2>1. \A i \in 1 .. Len(got) : got[i] = [call |-> Cur, at |-> p + i]
    BY <1>1, <1>2 DEF Placing
  <2>2. got \in Seq(Byte) /\ Cur \in Nat /\ Len(got) = 3 /\ p \in Nat /\ Len(got) > 0
    BY <1>1, <1>2 DEF Placing
  <2>3. p + 1 = CmdEnd(Call.fn) + 2
    BY <1>1 DEF Placing
  <2> HIDE DEF p
  <2>4. Source(Cur, got, p + 1, Len(got)) = Cur
    BY <2>1, <2>2, SourceInPlace
  <2>5. Consecutive(got) /\ got[1] = [call |-> Cur, at |-> p + 1]
    BY <2>1, <2>2, InPlace
  <2> QED BY <2>2, <2>3, <2>4, <2>5
<1>4. DataSizeOf(log, got, Junk) = {DatBytes[Call.fn]}
  BY <1>1, <1>3, SMTT(30) DEF DataSizeOf, Placing
<1>5. ~(Shape[Call.fn] = "vector" /\ DatBytes[Call.fn] % 2 # 0)
  BY <1>1, SizeAssumption DEF Placing
<1>6. Await("data", DatBytes[Call.fn], [hdr EXCEPT !.size = DatBytes[Call.fn],
            !.src = Source(hdr.src, got, CmdEnd(Call.fn) + 2, 3)])
  BY <1>4, <1>5 DEF GotDataSize
<1>7. hdr'.src = Cur /\ hdr'.size = DatBytes[Call.fn] /\ field' = "data"
      /\ need' = DatBytes[Call.fn]
  BY <1>1, <1>3, <1>6 DEF Await, Placing, Headers
<1>8. Base' = CmdEnd(Call.fn) + 4 /\ Size' = DatBytes[Call.fn]
  BY <1>7 DEF Base, Size, Looked
<1>9. Base' = Base + Size
  <2>1. CmdEnd(Call.fn) \in Nat
    BY <1>1 DEF Placing
  <2> QED BY <1>2, <1>8, <2>1
<1>10. NextField
  BY <1>1, <1>7, <1>8, <1>9 DEF NextField
<1> QED BY <1>6, <1>10, AwaitKeeps DEF Await, Looked

LEMMA GotDataClean ==
    ASSUME Placed, Placed', Answered, Looked, clean, GotData PROVE Answered'
<1>1. /\ Placing /\ field = "data" /\ hdr.src = Cur /\ hdr.size = DatBytes[Call.fn]
      /\ HasData(Call.fn)
  BY PlacingIs DEF GotData, Ready, Placing, OnTrack
<1>2. Base = CmdEnd(Call.fn) + 4 /\ Size = DatBytes[Call.fn]
  BY <1>1 DEF Base, Size
<1>3. Source(Cur, got, CmdEnd(Call.fn) + 5, hdr.size) = Cur
  <2> DEFINE p == CmdEnd(Call.fn) + 4
  <2>1. \A i \in 1 .. Len(got) : got[i] = [call |-> Cur, at |-> p + i]
    BY <1>1, <1>2 DEF Placing
  <2>2. got \in Seq(Byte) /\ Cur \in Nat /\ Len(got) = hdr.size /\ p \in Nat
    BY <1>1, <1>2 DEF Placing
  <2>3. p + 1 = CmdEnd(Call.fn) + 5
    BY <1>1 DEF Placing
  <2> HIDE DEF p
  <2>4. Source(Cur, got, p + 1, Len(got)) = Cur
    BY <2>1, <2>2, SourceInPlace
  <2> QED BY <2>2, <2>3, <2>4
<1>4. up = <<>>
  <2>1. Base + Len(got) + Len(up) = CmdEnd(Call.fn) + 4 + DatBytes[Call.fn]
    BY <1>1 DEF Placing, OnTrack, AnswerBytes
  <2>2. up \in Seq(Byte) /\ Len(up) \in Nat
    BY LenProperties DEF Placed, LinkOK
  <2>3. Len(up) = 0
    BY <1>1, <1>2, <2>1, <2>2, SMTT(30) DEF Placing
  <2> QED BY <2>2, <2>3, EmptySeq
<1>5. Return(Cur, NoId) /\ NoId \in Ids /\ Cur \in Nat
  BY <1>1, <1>3 DEF GotData, Ids, Placing
<1>6. Call.fn # Lookup
  BY <1>1, SizeAssumption DEF HasData
<1> QED BY <1>1, <1>4, <1>5, <1>6, ReturnKeeps DEF Placing, Looked

LEMMA LookingKeeps ==
    ASSUME Placed, Placed', Answered, Looking PROVE Answered'
<1>1. Looked
  BY LookingIs
<1>2. CASE clean
  <2>1. field \notin {"drain", "sink"}
    BY <1>1, <1>2, PlacingIs DEF Placing, OnTrack
  <2>2. ~GotDrain /\ ~GotSink
    BY <2>1 DEF GotDrain, GotSink, Ready
  <2> QED BY <1>1, <1>2, <2>2, GotTypeClean, GotCmdClean, GotSizeClean, GotParClean,
             GotDataTypeClean, GotDataSizeClean, GotDataClean DEF Looking
<1> QED BY <1>2, LookingDirty

-----------------------------------------------------------------------------
(* The steps that read and write. *)

LEMMA CopyKeeps ==
    ASSUME Placed, Placed', Answered, CopyBytes PROVE Answered'
<1>1. /\ log' = log /\ clean' = clean /\ Cur' = Cur /\ Call' = Call /\ pc = "read"
      /\ UNCHANGED <<cmdId, pc, fn, field, hdr, ret, tx, wbuf>> /\ InCall /\ InCall'
      /\ Pipe' = Pipe
  BY SameLog, PipeSame DEF CopyBytes, Reading, history, InCall
<1>2. Naming' /\ Paired'
  BY <1>1, NamingKeeps, PairedKeeps DEF Answered
<1>3. ASSUME clean PROVE Clean'
  <2>1. Clean
    BY <1>3 DEF Answered
  <2>2. Sent(Pipe)'
    BY <1>1, <2>1, SentStays DEF Clean
  <2>3. /\ up \in Seq(Byte) /\ got \in Seq(Byte) /\ Len(up) \in Nat /\ Len(got) \in Nat
        /\ nbuf \in Nat /\ nrx \in Nat /\ nbuf + nrx <= Len(up) /\ need \in Nat /\ nbuf > 0
        /\ need > 0 /\ DOMAIN up = 1 .. Len(up) /\ DOMAIN got = 1 .. Len(got)
    BY LenProperties DEF Placed, HostOK, LinkOK, CopyBytes, Reading
  <2>4. OnTrack /\ \A i \in DOMAIN tx : tx[i].call # Cur
    <3>1. up # <<>>
      BY <2>3, EmptySeq
    <3> QED BY <1>1, <2>1, <3>1 DEF Clean, NotYet
  <2>5. PICK m \in 1 .. Len(up) :
          /\ got' = got \o SubSeq(up, 1, m) /\ up' = Drop(up, m) /\ need' = need - m
    <3>1. Least(need, nbuf) \in 1 .. Len(up)
      BY <2>3 DEF Least
    <3> QED BY <3>1 DEF CopyBytes
  <2>6. /\ SubSeq(up, 1, m) \in Seq(Byte) /\ Len(SubSeq(up, 1, m)) = m
        /\ \A i \in 1 .. m : SubSeq(up, 1, m)[i] = up[i]
        /\ m \in Nat /\ m \in 0 .. Len(up)
    BY <2>3, PrefixFacts
  <2>7. /\ Len(got') = Len(got) + m /\ DOMAIN got' = 1 .. Len(got) + m
        /\ \A i \in 1 .. Len(got) + m :
              \/ i \in 1 .. Len(got) /\ got'[i] = got[i]
              \/ i - Len(got) \in 1 .. m /\ got'[i] = up[i - Len(got)]
    <3> DEFINE w == SubSeq(up, 1, m)
    <3>1. w \in Seq(Byte) /\ Len(w) = m /\ \A i \in 1 .. m : w[i] = up[i]
      BY <2>6
    <3>2. got' = got \o w
      BY <2>5
    <3> HIDE DEF w
    <3>3. /\ got \o w \in Seq(Byte) /\ Len(got \o w) = Len(got) + m
          /\ \A i \in 1 .. Len(got) + m :
                \/ i \in 1 .. Len(got) /\ (got \o w)[i] = got[i]
                \/ i - Len(got) \in 1 .. m /\ (got \o w)[i] = w[i - Len(got)]
      BY <2>3, <3>1, ConcatFacts
    <3>4. DOMAIN got' = 1 .. Len(got')
      BY <3>2, <3>3, LenProperties
    <3> QED BY <3>1, <3>2, <3>3, <3>4
  <2>8. /\ Len(up') = Len(up) - m /\ DOMAIN up' = 1 .. Len(up) - m
        /\ \A i \in 1 .. Len(up) - m : up'[i] = up[m + i]
    <3>1. /\ Drop(up, m) \in Seq(Byte) /\ Len(Drop(up, m)) = Len(up) - m
          /\ \A i \in 1 .. Len(up) - m : Drop(up, m)[i] = up[m + i]
      BY <2>3, <2>6, DropFacts
    <3>2. DOMAIN Drop(up, m) = 1 .. Len(up) - m
      BY <3>1, LenProperties
    <3> QED BY <2>5, <3>1, <3>2
  <2>9. /\ Base' = Base /\ Size' = Size /\ Base \in Nat
        /\ need + Len(got) = Size /\ Base + Len(got) + Len(up) = AnswerBytes(Call.fn)
        /\ \A i \in 1 .. Len(got) : got[i] = [call |-> Cur, at |-> Base + i]
        /\ \A i \in 1 .. Len(up) : up[i] = [call |-> Cur, at |-> Base + Len(got) + i]
    <3>1. CmdEnd(Call.fn) \in Nat
      BY <1>1, CallIs, SizesAreNat DEF Placed, CmdEnd
    <3> QED BY <1>1, <2>3, <2>4, <3>1, SMTT(30) DEF OnTrack, Continues, Base, Size
  <2>10. need' + Len(got') = Size' /\ Base' + Len(got') + Len(up') = AnswerBytes(Call'.fn)
    <3>1. need + Len(got) = Size
      BY <2>9
    <3>2. need' + Len(got') = need + Len(got)
      BY <2>3, <2>5, <2>6, <2>7
    <3>3. Base + Len(got') + Len(up') = Base + Len(got) + Len(up)
      BY <2>3, <2>6, <2>7, <2>8, <2>9
    <3> QED BY <1>1, <2>9, <3>1, <3>2, <3>3
  <2>11. Continues(got', Cur', Base')
    <3>1. ASSUME NEW i \in 1 .. Len(got) + m PROVE got'[i] = [call |-> Cur, at |-> Base + i]
      <4>1. CASE i \in 1 .. Len(got) /\ got'[i] = got[i]
        BY <2>9, <4>1
      <4>2. CASE i - Len(got) \in 1 .. m /\ got'[i] = up[i - Len(got)]
        <5>1. i - Len(got) \in 1 .. Len(up)
          BY <2>3, <2>6, <4>2
        <5>2. got'[i] = [call |-> Cur, at |-> Base + Len(got) + (i - Len(got))]
          BY <2>9, <4>2, <5>1
        <5>3. Base + Len(got) + (i - Len(got)) = Base + i
          BY <2>3, <2>6, <2>9
        <5> QED BY <5>2, <5>3
      <4> QED BY <2>7, <4>1, <4>2
    <3> QED BY <1>1, <2>7, <2>9, <3>1 DEF Continues
  <2>12. Continues(up', Cur', Base' + Len(got'))
    <3>1. ASSUME NEW i \in 1 .. Len(up) - m
          PROVE  up'[i] = [call |-> Cur, at |-> Base + Len(got') + i]
      <4>1. m + i \in 1 .. Len(up)
        BY <2>3, <2>6
      <4>2. up'[i] = [call |-> Cur, at |-> Base + Len(got) + (m + i)]
        BY <2>8, <2>9, <4>1
      <4>3. Base + Len(got) + (m + i) = Base + Len(got') + i
        <5>1. Len(got') = Len(got) + m /\ Base \in Nat /\ Len(got) \in Nat /\ m \in Nat
              /\ i \in Nat
          BY <2>3, <2>6, <2>7, <2>9
        <5> QED BY <5>1
      <4> QED BY <4>2, <4>3
    <3> QED BY <1>1, <2>8, <2>9, <3>1 DEF Continues
  <2>13. OnTrack'
    BY <1>1, <2>4, <2>10, <2>11, <2>12 DEF OnTrack
  <2> QED BY <1>1, <2>1, <2>2, <2>4, <2>13 DEF Clean, IdsGood
<1> QED BY <1>1, <1>2, <1>3 DEF Answered

LEMMA CreateKeeps ==
    ASSUME Placed, Placed', Answered, CreateKnown \/ CreateLookup PROVE Answered'
<1>1. PICK f \in Fn : /\ Create(f) /\ f \in {fn, Lookup} /\ cmdId[f] # NoId
                      /\ f # fn => fn \notin Fixed
  <2>1. cmdId[Lookup] = Lookup /\ Lookup \in Fn /\ Lookup # NoId
    BY FnAssumption DEF Answered, Naming
  <2>2. cmdId[fn] = NoId => fn \notin Fixed
    BY FnAssumption DEF Answered, Naming
  <2> QED BY <2>1, <2>2 DEF CreateKnown, CreateLookup, Placed, HostOK
<1>2. /\ Cur' = Cur + 1 /\ Cur \in Nat /\ Call' = [fn |-> f, as |-> cmdId[f], arg |-> fn]
      /\ \A i \in 1 .. Cur : log'[i] = log[i]
  <2>1. [fn |-> f, as |-> cmdId[f], arg |-> fn] \in CallRecord
    BY DEF Placed, HostOK, CallRecord
  <2> QED BY <1>1, <2>1, AppendProperties, LenProperties DEF Create, Placed, LinkOK, Cur, Call
<1>3. /\ UNCHANGED <<cmdId, fn, ret, up, tx, wbuf, clean>> /\ pc = "getid" /\ pc' = "write"
      /\ ~InCall /\ Pipe' = Pipe
  BY <1>1, PipeSame DEF Create, CreateKnown, CreateLookup, usb, InCall
<1>4. Naming' /\ Paired'
  BY <1>1, <1>2, <1>3, PairedKeeps DEF Answered, Naming
<1>5. ASSUME clean PROVE Clean'
  <2>1. Clean
    BY <1>5 DEF Answered
  <2>2. Sent(Pipe)'
    <3>1. \A i \in DOMAIN Pipe : Pipe[i].call \in 1 .. Cur /\ ~Expecting(i)
      BY <1>3, <2>1, PipeIs, NothingExpected DEF Known, Placed, Clean
    <3> QED BY <1>2, <1>3, <2>1, <3>1 DEF Clean, Sent, Expecting
  <2>3. cmdId[f] = f
    BY <1>1, <2>1 DEF Clean, IdsGood
  <2>4. up' = <<>> /\ IdsGood' /\ Call'.as = Call'.fn
    BY <1>2, <1>3, <2>1, <2>3 DEF Clean, IdsGood
  <2> QED BY <1>3, <2>2, <2>4 DEF Clean
<1> QED BY <1>3, <1>4, <1>5 DEF Answered

LEMMA WriteByteKeeps ==
    ASSUME Placed, Placed', Answered, WriteByte PROVE Answered'
<1> DEFINE b == [call |-> Cur, at |-> wpos + 1]
<1>1. /\ log' = log /\ Cur' = Cur /\ Call' = Call /\ pc = "write" /\ InCall /\ InCall'
      /\ UNCHANGED <<cmdId, pc, fn, ret, up, tx, clean>> /\ wbuf' = Append(wbuf, b)
  BY SameLog DEF WriteByte, InCall, history
<1>2. b \in Byte /\ b.call = Cur
  BY <1>1, CallIs DEF Byte, Placed, HostOK
<1> HIDE DEF b
<1>3. Naming' /\ Paired'
  BY <1>1, NamingKeeps, PairedKeeps DEF Answered
<1>4. ASSUME clean PROVE Sent(Pipe)'
  <2>1. /\ wbuf \in Seq(Byte) /\ tx \in Seq(Byte) /\ wbuf' = wbuf \o <<b>>
        /\ <<b>> \in Seq(Byte)
    BY <1>1, <1>2, AppendIsConcat, SMTT(30) DEF Placed, LinkOK
  <2>2. Pipe' = Append(Pipe, b)
    <3>1. tx \o (wbuf \o <<b>>) = (tx \o wbuf) \o <<b>> /\ tx \o wbuf \in Seq(Byte)
      BY <2>1, ConcatAssociative, ConcatFacts
    <3> QED BY <1>1, <1>2, <2>1, <3>1, AppendIsConcat DEF Pipe
  <2>3. /\ DOMAIN Pipe = 1 .. Len(Pipe) /\ Len(Pipe) \in Nat /\ Pipe \in Seq(Byte)
    BY PipeIs DEF Placed
  <2>4. /\ DOMAIN Pipe' = 1 .. Len(Pipe) + 1 /\ Pipe'[Len(Pipe) + 1] = b
        /\ \A i \in 1 .. Len(Pipe) : Pipe'[i] = Pipe[i]
    BY <1>2, <2>2, <2>3, AppendProperties, LenProperties
  <2>5. \A i \in DOMAIN Pipe' : i \in DOMAIN Pipe \/ i = Len(Pipe) + 1
    BY <2>3, <2>4
  <2>6. Call.as = Call.fn /\ Call = log[Cur] /\ Sent(Pipe)
    BY <1>1, <1>4 DEF Answered, Clean, Call
  <2>7. ASSUME NEW i \in DOMAIN Pipe'
        PROVE  /\ log[Pipe'[i].call].as = log[Pipe'[i].call].fn
               /\ HasAnswer(log[Pipe'[i].call].fn) => Pipe'[i].call = Cur
    <3>1. CASE i \in DOMAIN Pipe
      BY <2>3, <2>4, <2>6, <3>1 DEF Sent
    <3>2. CASE i = Len(Pipe) + 1
      BY <1>2, <2>4, <2>6, <3>2
    <3> QED BY <2>5, <3>1, <3>2
  <2> QED BY <1>1, <2>7 DEF Sent
<1>5. clean => Clean'
  BY <1>1, <1>4 DEF Answered, Clean, IdsGood
<1> QED BY <1>1, <1>3, <1>5 DEF Answered

LEMMA WriteKeeps ==
    ASSUME Placed, Placed', Answered,
           WriteFull \/ WriteClosed \/ ReturnVoid \/ Flush \/ FlushFails
    PROVE  Answered'
<1>1. log' = log /\ pc = "write" /\ InCall /\ Cur' = Cur /\ Call' = Call /\ HostOK /\ LinkOK
      /\ LinkOK' /\ Naming /\ Paired
  BY SameLog DEF WriteFull, WriteClosed, ReturnVoid, Flush, FlushFails, InCall, history,
                 Placed, Answered
<1>2. CASE WriteFull
  <2>1. UNCHANGED <<cmdId, pc, fn, ret, up, clean>> /\ InCall'
    BY <1>1, <1>2 DEF WriteFull, host, history, InCall
  <2>2. PICK o \in Nat : Part(Pipe', o, Pipe)
    BY <1>1, <1>2, LeavesPart
  <2>3. Naming' /\ Paired'
    BY <1>1, <2>1, NamingKeeps, PairedKeeps
  <2>4. clean => Sent(Pipe)'
    BY <1>1, <2>1, <2>2, SentKeeps DEF Answered, Clean
  <2> QED BY <1>1, <2>1, <2>3, <2>4 DEF Answered, Clean, IdsGood
<1>3. CASE WriteClosed
  <2>1. /\ ~open /\ wpos = 0 /\ UNCHANGED <<clean, up, tx, wbuf>> /\ Throw("WRITE_ERROR")
        /\ Pipe' = Pipe
    BY <1>1, <1>3, PipeSame DEF WriteClosed, Placed, Framing, Writing, usb
  <2>2. Naming' /\ Paired' /\ ~InCall' /\ pc' = "idle" /\ cmdId' = cmdId
    BY <1>1, <2>1, ThrowKeeps
  <2>3. ASSUME clean, NEW i \in DOMAIN Pipe PROVE ~Expecting(i)
    <3>1. Pipe[i].call = Cur => Pipe[i].at <= 0
      BY <1>1, <2>1 DEF Placed, Framing, Writing
    <3>2. Pipe[i] \in Byte
      BY <1>1, PipeIs, ElementOfSeq
    <3>3. Pipe[i].call # Cur
      BY <3>1, <3>2 DEF Byte
    <3> QED BY <2>3, <3>3 DEF Answered, Clean, Sent, Expecting
  <2>4. clean => Sent(Pipe)'
    BY <1>1, <2>1, <2>3, SentStays DEF Answered, Clean
  <2> QED BY <1>1, <2>1, <2>2, <2>4 DEF Answered, Clean, IdsGood
<1>4. CASE ReturnVoid
  <2>1. Return(Cur, NoId) /\ Quiet /\ ~HasAnswer(Call.fn) /\ Cur \in Nat /\ NoId \in Ids
    BY <1>1, <1>4, CallIs DEF ReturnVoid, Quiet, Ids
  <2>2. Call.fn # Lookup
    BY <2>1, SizeAssumption DEF HasAnswer
  <2>3. clean => up = <<>> /\ \A i \in DOMAIN Pipe : ~Expecting(i)
    BY <1>1, <2>1 DEF Answered, Clean, Sent, Expecting, Call
  <2> QED BY <1>1, <2>1, <2>2, <2>3, ReturnKeeps
<1>5. CASE Flush
  <2>1. /\ UNCHANGED <<cmdId, fn, ret, up, clean>> /\ HasAnswer(Call.fn) /\ wbuf' = <<>>
        /\ pc' = "read" /\ field' = "type" /\ need' = 1 /\ got' = <<>> /\ InCall'
    BY <1>5 DEF Flush, Await, history, InCall
  <2>2. PICK o \in Nat : Part(Pipe', o, Pipe)
    BY <1>1, <1>5, LeavesPart
  <2>3. Naming' /\ Paired'
    BY <1>1, <2>1, NamingKeeps, PairedKeeps
  <2>4. clean => Sent(Pipe)'
    BY <1>1, <2>1, <2>2, SentKeeps DEF Answered, Clean
  <2>5. clean => NotYet'
    BY <1>1, <2>1 DEF Answered, Clean, NotYet
  <2> QED BY <1>1, <2>1, <2>3, <2>4, <2>5 DEF Answered, Clean, IdsGood
<1>6. CASE FlushFails
  <2>1. Throw("WRITE_ERROR") /\ clean' = FALSE
    BY <1>6 DEF FlushFails
  <2>2. Naming' /\ Paired'
    BY <1>1, <2>1, ThrowKeeps
  <2> QED BY <2>1, <2>2 DEF Answered
<1> QED BY <1>2, <1>3, <1>4, <1>5, <1>6

LEMMA ReadKeeps ==
    ASSUME Placed, Placed', Answered, FillBuffer \/ ShortRead \/ ReadFails PROVE Answered'
<1>1. log' = log /\ Cur' = Cur /\ Call' = Call /\ pc = "read" /\ Naming /\ Paired
      /\ UNCHANGED <<tx, wbuf>> /\ Pipe' = Pipe
  BY SameLog, PipeSame DEF FillBuffer, ShortRead, ReadFails, Reading, history, host, usb, Answered
<1>2. CASE FillBuffer
  <2>1. UNCHANGED <<host, up, clean>> /\ InCall' = InCall /\ InCall
    BY <1>1, <1>2 DEF FillBuffer, history, host, InCall
  <2>2. Naming' /\ Paired'
    BY <1>1, <2>1, NamingKeeps, PairedKeeps DEF host
  <2>3. ASSUME clean PROVE Clean'
    <3>1. Clean /\ Sent(Pipe)'
      BY <1>1, <2>1, <2>3, SentStays DEF Answered, Clean
    <3> QED BY <1>1, <2>1, <3>1 DEF Clean, IdsGood, NotYet, OnTrack, Base, Size, Continues, host
  <2> QED BY <2>1, <2>2, <2>3 DEF Answered
<1>3. CASE ShortRead
  <2>1. UNCHANGED <<cmdId, fn, ret>> /\ clean' = FALSE /\ InCall' /\ InCall
    BY <1>1, <1>3 DEF ShortRead, InCall
  <2> QED BY <1>1, <2>1, NamingKeeps, PairedKeeps DEF Answered
<1>4. CASE ReadFails
  <2>1. PICK e \in {"READ_TIMEOUT", "READ_ERROR"} : Throw(e)
    BY <1>4 DEF ReadFails
  <2>2. clean' = FALSE /\ e # "ok"
    BY <1>4 DEF ReadFails
  <2>3. Naming' /\ Paired'
    BY <1>1, <2>1, <2>2, ThrowKeeps
  <2> QED BY <2>2, <2>3 DEF Answered
<1> QED BY <1>2, <1>3, <1>4

-----------------------------------------------------------------------------
(* Between calls. *)

LEMMA ClientKeeps ==
    ASSUME Placed, Placed', Answered, (\E f \in Fn : Client(f)) \/ NoSuchCall PROVE Answered'
<1>1. /\ UNCHANGED <<log, cmdId, up, tx, wbuf, clean>> /\ ~InCall' /\ pc' # "read"
      /\ ~InCall /\ pc # "read" /\ Pipe' = Pipe
      /\ ret' = ret \/ ret'.out # "ok"
  BY PipeSame DEF Client, NoSuchCall, Throw, usb, history, InCall
<1>2. Naming' /\ Paired'
  BY <1>1, NamingKeeps, PairedKeeps DEF Answered
<1>3. clean => Sent(Pipe)'
  BY <1>1, NothingExpected, SentStays DEF Answered, Clean
<1> QED BY <1>1, <1>2, <1>3 DEF Answered, Clean, IdsGood

\* The ids rpc_Clear leaves.
LEMMA ClearedIsGood ==
    ASSUME cmdId' = Cleared PROVE IdsGood' /\ \A f \in Fixed : cmdId'[f] = f
BY FnAssumption DEF Cleared, IdsGood

LEMMA Empty ==
    ASSUME LinkOK', tx' = <<>>, wbuf' = <<>> PROVE Sent(Pipe)'
<1>1. DOMAIN Pipe' = {}
  BY ConcatEmptySeq, EmptySeq, PipeNext DEF Pipe, LinkOK
<1> QED BY <1>1 DEF Sent

LEMMA UserKeeps ==
    ASSUME Placed, Placed', Answered, UserFlush \/ Clear \/ Close \/ Open PROVE Answered'
<1>1. /\ log' = log /\ Cur' = Cur /\ pc = "idle" /\ pc' = "idle" /\ ret' = ret
      /\ ~InCall /\ ~InCall'
  BY SameLog DEF UserFlush, Clear, Close, Open, history, host, InCall
<1>2. Paired'
  BY <1>1, PairedKeeps DEF Answered
<1>3. \/ cmdId' = cmdId
      \/ cmdId' = Cleared
  BY DEF UserFlush, Clear, Close, Open, host
<1>4. Naming'
  <2>1. CASE cmdId' = cmdId
    BY <1>1, <2>1, NamingKeeps DEF Answered
  <2>2. CASE cmdId' = Cleared
    BY <1>1, <2>2, ClearedIsGood DEF Naming
  <2> QED BY <1>3, <2>1, <2>2
<1>5. clean => IdsGood'
  <2>1. CASE cmdId' = cmdId
    BY <2>1 DEF Answered, Clean, IdsGood
  <2>2. CASE cmdId' = Cleared
    BY <2>2, ClearedIsGood
  <2> QED BY <1>3, <2>1, <2>2
<1>6. clean => up = <<>> /\ Sent(Pipe) /\ \A i \in DOMAIN Pipe : ~Expecting(i)
  BY <1>1, NothingExpected DEF Answered, Clean
<1>7. clean => Sent(Pipe)'
  <2>1. CASE Close
    <3>1. Pipe' = Pipe
      BY <2>1, PipeSame DEF Close
    <3> QED BY <1>1, <1>6, <3>1, SentStays
  <2>2. CASE UserFlush \/ Clear \/ Open
    <3>1. PICK o \in Nat : Part(Pipe', o, Pipe)
      BY <2>2, LeavesPart DEF Placed
    <3> QED BY <1>1, <1>6, <3>1, SentKeeps DEF Placed
  <2> QED BY <2>1, <2>2
<1>8. clean => up' = <<>>
  <2>1. CASE UserFlush \/ Close
    BY <1>6, <2>1 DEF UserFlush, Close
  <2>2. CASE Clear \/ Open
    <3>1. clean => Len(up) = 0 /\ nbuf + nrx = 0 /\ nbuf = 0 /\ nrx = 0
      BY <1>6, EmptySeq, SMTT(30) DEF Placed, LinkOK
    <3>2. clean => up' = Drop(up, 0)
      BY <2>2, <3>1 DEF Clear, Open
    <3>3. clean => Len(Drop(up, 0)) = 0 /\ Drop(up, 0) \in Seq(Byte)
      <4>1. up \in Seq(Byte) /\ Len(up) \in Nat
        BY LenProperties DEF Placed, LinkOK
      <4>2. 0 \in 0 .. Len(up)
        BY <4>1
      <4>3. Drop(up, 0) \in Seq(Byte) /\ Len(Drop(up, 0)) = Len(up) - 0
        BY <4>1, <4>2, DropFacts
      <4>4. Len(up) = 0 => Len(Drop(up, 0)) = 0
        BY <4>1, <4>3
      <4> QED BY <3>1, <4>3, <4>4, Zenon
    <3> QED BY <3>2, <3>3, EmptySeq
  <2> QED BY <2>1, <2>2
<1>9. ~clean /\ clean' => IdsGood' /\ Sent(Pipe)' /\ up' = <<>>
  <2> SUFFICES ASSUME ~clean, clean' PROVE IdsGood' /\ Sent(Pipe)' /\ up' = <<>>
    OBVIOUS
  <2>1. CASE Clear
    <3>1. up' = <<>> /\ tx' = <<>> /\ wbuf' = <<>> /\ IdsGood /\ cmdId' = cmdId
      BY <2>1 DEF Clear, host
    <3> QED BY <3>1, Empty DEF IdsGood, Placed
  <2>2. CASE Open
    <3>1. up' = <<>> /\ tx' = <<>> /\ wbuf' = <<>> /\ cmdId' = Cleared
      BY <2>2 DEF Open
    <3> QED BY <3>1, Empty, ClearedIsGood DEF Placed
  <2> QED BY <2>1, <2>2 DEF UserFlush, Close
<1>10. clean' => Clean'
  BY <1>1, <1>5, <1>7, <1>8, <1>9 DEF Clean
<1> QED BY <1>2, <1>4, <1>10 DEF Answered

-----------------------------------------------------------------------------
(* The board. *)

LEMMA ExecuteKeeps ==
    ASSUME Placed, Placed', Answered, Execute PROVE Answered'
<1> DEFINE n == tx[1].call
           m == ReqBytes[log[n].fn]
<1>1. /\ tx # <<>> /\ log' = log /\ Cur' = Cur /\ Call' = Call /\ InCall' = InCall
      /\ UNCHANGED <<host, wbuf, clean>> /\ HostOK /\ LinkOK /\ LinkOK'
      /\ exec' = Append(exec, n) /\ up' = up \o Answer(n, log[n].as) /\ tx' = Drop(tx, m)
      /\ m <= Len(tx) /\ \A j \in 1 .. m : tx[j] = [call |-> n, at |-> j]
  BY SameLog DEF Execute, Whole, host, history, InCall, Placed
<1>2. /\ n \in 1 .. Cur /\ n \in Nat /\ Len(tx) \in Nat \ {0} /\ DOMAIN tx = 1 .. Len(tx)
      /\ log[n].fn \in Fn /\ log[n].as \in Ids
  BY <1>1, FirstOfTx
<1>3. m \in Nat \ {0} /\ m \in 1 .. m /\ m \in 0 .. Len(tx) /\ m \in DOMAIN tx /\ 1 \in DOMAIN tx
  <2>1. m \in Nat \ {0}
    BY <1>2, SizesAreNat
  <2>2. m <= Len(tx) /\ Len(tx) \in Nat \ {0} /\ DOMAIN tx = 1 .. Len(tx)
    BY <1>1, <1>2
  <2> HIDE DEF m
  <2> QED BY <2>1, <2>2
<1> HIDE DEF n, m
<1>4. tx[m].call = n /\ tx[m].at = m
  <2>1. tx[m] = [call |-> n, at |-> m]
    BY <1>1, <1>3
  <2> QED BY <2>1
<1>5. UNCHANGED <<cmdId, pc, fn, field, need, got, hdr, ret>>
  BY <1>1 DEF host
<1>6. Naming' /\ Paired'
  BY <1>1, <1>5, NamingKeeps, PairedKeeps DEF Answered
<1>7. ASSUME clean PROVE Clean'
  <2>1. Clean /\ Sent(Pipe)
    BY <1>7 DEF Answered, Clean
  <2>2. Sent(Pipe)'
    <3>1. PICK o \in Nat : Part(Pipe', o, Pipe)
      BY <1>1, LeavesPart
    <3> QED BY <1>1, <2>1, <3>1, SentKeeps DEF Sent, Expecting
  <2>3. log[n].as = log[n].fn /\ (HasAnswer(log[n].fn) => n = Cur /\ InCall)
    <3>1. m \in DOMAIN Pipe /\ Pipe[m] = tx[m]
      BY <1>1, <1>2, <1>3, PipeIs
    <3> QED BY <1>4, <2>1, <3>1 DEF Sent
  <2>4. IdsGood' /\ (InCall' => Call'.as = Call'.fn)
    BY <1>1, <1>5, <2>1 DEF Clean, IdsGood
  <2>5. \A i \in DOMAIN tx' : m + i \in DOMAIN tx /\ tx'[i] = tx[m + i]
    BY <1>1, <1>3, DropIs
  <2>6. CASE ~HasAnswer(log[n].fn)
    <3>1. Answer(n, log[n].as) = <<>>
      <4>1. AnswerBytes(log[n].as) = 0 /\ log[n].as \in Fn
        BY <1>2, <2>3, <2>6 DEF AnswerBytes
      <4>2. Answer(n, log[n].as) \in Seq(Byte) /\ Len(Answer(n, log[n].as)) = 0
        BY <1>2, <4>1, AnswerFacts
      <4> QED BY <4>2, EmptySeq
    <3>2. up' = up
      BY <1>1, <3>1, ConcatEmptySeq DEF LinkOK
    <3>3. NotYet => NotYet'
      BY <1>5, <3>2 DEF NotYet
    <3>4. OnTrack => OnTrack'
      BY <1>1, <1>5, <3>2 DEF OnTrack, Base, Size, Continues
    <3> QED BY <1>1, <1>5, <2>1, <2>2, <2>4, <2>5, <3>2, <3>3, <3>4 DEF Clean
  <2>7. CASE HasAnswer(log[n].fn)
    <3>1. n = Cur /\ InCall /\ Call = log[n] /\ Call.fn \in Fn /\ Cur \in Nat
      BY <1>2, <2>3, <2>7 DEF Call
    <3>2. pc # "write"
      BY <1>3, <1>4, <3>1 DEF Placed, Framing, Writing, m
    <3>3. pc = "read" /\ NotYet /\ wbuf = <<>>
      BY <1>3, <1>4, <2>1, <3>1, <3>2 DEF InCall, Clean
    <3>4. up' = Answer(Cur, Call.fn)
      <4>1. up' = <<>> \o Answer(Cur, Call.fn) /\ Answer(Cur, Call.fn) \in Seq(Byte)
        BY <1>1, <1>2, <2>3, <3>1, <3>3, AnswerFacts DEF NotYet
      <4> QED BY <4>1, ConcatEmptySeq
    <3>5. /\ Len(up') = AnswerBytes(Call.fn) /\ AnswerBytes(Call.fn) \in Nat
          /\ DOMAIN up' = 1 .. AnswerBytes(Call.fn)
          /\ \A i \in 1 .. AnswerBytes(Call.fn) : up'[i] = [call |-> Cur, at |-> i]
      <4>1. /\ Answer(Cur, Call.fn) \in Seq(Byte) /\ AnswerBytes(Call.fn) \in Nat
            /\ Len(Answer(Cur, Call.fn)) = AnswerBytes(Call.fn)
            /\ \A i \in 1 .. AnswerBytes(Call.fn) :
                  Answer(Cur, Call.fn)[i] = [call |-> Cur, at |-> i]
        BY <3>1, AnswerFacts DEF Ids
      <4> QED BY <3>4, <4>1, LenProperties
    <3>6. field' = "type" /\ need' = 1 /\ got' = <<>> /\ Len(got') = 0 /\ DOMAIN got' = {}
          /\ Base' = 0 /\ Size' = 1
      <4>1. field' = "type" /\ need' = 1 /\ got' = <<>>
        BY <1>5, <3>3 DEF NotYet
      <4> QED BY <4>1, EmptySeq DEF Base, Size
    <3>7. OnTrack'
      <4>1. Continues(got', Cur', Base')
        BY <3>6 DEF Continues
      <4>2. Continues(up', Cur', Base' + Len(got'))
        <5>1. \A i \in 1 .. AnswerBytes(Call.fn) : 0 + 0 + i = i
          BY <3>5
        <5> QED BY <1>1, <3>5, <3>6, <5>1 DEF Continues
      <4> QED BY <1>1, <3>5, <3>6, <4>1, <4>2 DEF OnTrack
    <3>8. \A i \in DOMAIN tx' : tx'[i].call # Cur
      <4>1. Len(exec) + 1 \in DOMAIN exec' /\ exec'[Len(exec) + 1] = Cur
        <5>1. exec \in Seq(Nat) /\ Cur \in Nat /\ exec' = Append(exec, Cur)
          BY <1>1, <3>1 DEF LinkOK, n
        <5>2. /\ exec' \in Seq(Nat) /\ Len(exec') = Len(exec) + 1 /\ Len(exec) \in Nat
              /\ exec'[Len(exec) + 1] = Cur
          BY <5>1, AppendProperties, LenProperties
        <5>3. DOMAIN exec' = 1 .. Len(exec) + 1
          BY <5>2, LenProperties
        <5> QED BY <5>2, <5>3
      <4>2. \A i \in DOMAIN tx' : i \in DOMAIN Pipe' /\ Pipe'[i] = tx'[i]
        <5>1. tx' = Pipe'
          BY <1>1, <3>3, ConcatEmptySeq DEF Pipe, LinkOK
        <5> QED BY <5>1
      <4>3. \A i \in DOMAIN tx' : Cur < tx'[i].call
        BY <4>1, <4>2 DEF Placed, Executions, Ahead
      <4> QED BY <3>1, <4>3
    <3> QED BY <1>1, <1>5, <2>2, <2>4, <3>1, <3>3, <3>7, <3>8, <2>7 DEF Clean
  <2> QED BY <2>6, <2>7
<1> QED BY <1>1, <1>6, <1>7 DEF Answered

LEMMA BoardKeeps ==
    ASSUME Placed, Placed', Answered, Discard \/ Arrive \/ UNCHANGED vars PROVE Answered'
<1>1. /\ log' = log /\ Cur' = Cur /\ Call' = Call /\ UNCHANGED <<host, wbuf, up, clean>>
      /\ InCall' = InCall
  BY SameLog DEF Discard, Arrive, vars, host, usb, history, InCall
<1>2. UNCHANGED <<cmdId, pc, fn, field, need, got, hdr, ret>>
  BY <1>1 DEF host
<1>3. Naming' /\ Paired'
  BY <1>1, <1>2, NamingKeeps, PairedKeeps DEF Answered
<1>4. \A i \in DOMAIN tx' : \E j \in DOMAIN tx : tx'[i] = tx[j]
  <2>1. CASE Discard
    <3>1. 1 \in 0 .. Len(tx) /\ tx' = Drop(tx, 1)
      BY <2>1, FirstOfTx DEF Discard, Placed
    <3> QED BY <3>1, DropIs DEF Placed
  <2>2. CASE tx' = tx
    BY <2>2
  <2> QED BY <2>1, <2>2 DEF Arrive, vars
<1>5. ASSUME clean PROVE Clean'
  <2>1. Clean /\ Sent(Pipe)
    BY <1>5 DEF Answered, Clean
  <2>2. Sent(Pipe)'
    <3>1. CASE Discard
      <4>1. PICK o \in Nat : Part(Pipe', o, Pipe)
        BY <3>1, LeavesPart DEF Placed
      <4> QED BY <1>1, <2>1, <4>1, SentKeeps DEF Sent, Expecting, Placed
    <3>2. CASE tx' = tx
      BY <1>1, <2>1, <3>2, PipeSame, SentStays DEF Sent, Expecting
    <3> QED BY <3>1, <3>2 DEF Arrive, vars
  <2>3. (NotYet => NotYet') /\ (OnTrack => OnTrack') /\ IdsGood'
    BY <1>1, <1>2, <2>1 DEF Clean, IdsGood, NotYet, OnTrack, Base, Size, Continues
  <2> QED BY <1>1, <1>2, <1>4, <2>1, <2>2, <2>3 DEF Clean
<1> QED BY <1>1, <1>3, <1>5 DEF Answered

-----------------------------------------------------------------------------

LEMMA PairingInit == Init => Answered
<1> SUFFICES ASSUME Init PROVE Answered
  OBVIOUS
<1>1. pc = "idle" /\ up = <<>> /\ ret.out # "ok" /\ ~InCall /\ cmdId = Cleared
  BY DEF Init, InCall
<1>2. IdsGood /\ \A f \in Fixed : cmdId[f] = f
  BY <1>1, FnAssumption DEF IdsGood, Cleared
<1>3. DOMAIN Pipe = {}
  <2>1. Len(tx) = 0 /\ Len(wbuf) = 0
    BY EmptySeq DEF Init
  <2> QED BY <2>1, InitType, PipeIs
<1>4. Sent(Pipe)
  BY <1>3 DEF Sent
<1> QED BY <1>1, <1>2, <1>4 DEF Answered, Naming, Paired, Clean

LEMMA PairingStep ==
    HostOK /\ LinkOK /\ Framing /\ Executions /\ Answered /\ [Next]_vars => Answered'
<1> SUFFICES ASSUME HostOK, LinkOK, Framing, Executions, Answered, [Next]_vars PROVE Answered'
  OBVIOUS
<1>1. Placed /\ Placed'
  BY StepType, OrderStep DEF Placed
<1>2. CASE (\E f \in Fn : Client(f)) \/ NoSuchCall
  BY <1>1, <1>2, ClientKeeps
<1>3. CASE CreateKnown \/ CreateLookup
  BY <1>1, <1>3, CreateKeeps
<1>4. CASE WriteByte
  BY <1>1, <1>4, WriteByteKeeps
<1>5. CASE WriteFull \/ WriteClosed \/ ReturnVoid \/ Flush \/ FlushFails
  BY <1>1, <1>5, WriteKeeps
<1>6. CASE CopyBytes
  BY <1>1, <1>6, CopyKeeps
<1>7. CASE FillBuffer \/ ShortRead \/ ReadFails
  BY <1>1, <1>7, ReadKeeps
<1>8. CASE Looking
  BY <1>1, <1>8, LookingKeeps
<1>9. CASE UserFlush \/ Clear \/ Close \/ Open
  BY <1>1, <1>9, UserKeeps
<1>10. CASE Execute
  BY <1>1, <1>10, ExecuteKeeps
<1>11. CASE Discard \/ Arrive \/ UNCHANGED vars
  BY <1>1, <1>11, BoardKeeps
<1> QED BY <1>2, <1>3, <1>4, <1>5, <1>6, <1>7, <1>8, <1>9, <1>10, <1>11
        DEF Next, Stub, User, Board, Looking

\* RpcInv, all its parts together, is an invariant.
THEOREM Invariant == Spec => []RpcInv
<1>1. HostOK /\ LinkOK /\ Framing /\ Executions /\ Answered => RpcInv
  BY Parts DEF RpcInv, Answered
<1> QED BY InitType, StepType, OrderInit, OrderStep, PairingInit, PairingStep, <1>1, PTL DEF Spec

\* As long as no Read was cut short or given up since the link was last quiet,
\* the value a stub returns is the answer to that very call.
THEOREM AnswersPaired == Spec => []Paired
<1>1. RpcInv => Paired
  BY DEF RpcInv
<1> QED BY Invariant, <1>1, PTL

\* ... and rpc_cmdId holds the id the firmware has for each name, or none.
THEOREM IdsStayRight == Spec => []IdsRight
<1>1. RpcInv => IdsRight
  BY DEF RpcInv, Clean, IdsRight
<1> QED BY Invariant, <1>1, PTL
=============================================================================
