------------------------- MODULE UsbRpcFate_proofs --------------------------
(***************************************************************************)
(* Nothing is forgotten: each call made is executed, dropped, or still has *)
(* all its bytes under way, however often the buffers are filled, flushed  *)
(* and emptied in the middle of a request.  A call that is answered on a   *)
(* clean link is therefore a barrier for the calls before it, and the link *)
(* implements the service that RpcService describes.                       *)
(***************************************************************************)
EXTENDS UsbRpcPairing_proofs

\* The bytes of call n that have been written.
Written(n) == IF n = Cur /\ pc = "write" THEN wpos ELSE ReqBytes[log[n].fn]

\* They are under way, the last one in front of place e.
Lies(n, i, k) == \A j \in 1 .. k : Pipe[i + j] = [call |-> n, at |-> j]

LEMMA TransitIs ==
    ASSUME NEW n
    PROVE  InTransit(n) <=> \E i \in 0 .. Len(Pipe) - Written(n) : Lies(n, i, Written(n))
BY DEF InTransit, Lies, Pipe, Written

LEMMA TransitNext ==
    ASSUME NEW n
    PROVE  InTransit(n)' <=>
              \E i \in 0 .. Len(Pipe') - Written(n)' :
                  \A j \in 1 .. Written(n)' : Pipe'[i + j] = [call |-> n, at |-> j]
BY DEF InTransit, Pipe, Written

LEMMA RequestOf ==
    ASSUME LinkOK, NEW n \in 1 .. Cur
    PROVE  n \in Nat \ {0} /\ log[n].fn \in Fn /\ ReqBytes[log[n].fn] \in Nat \ {0}
<1>1. Cur \in Nat /\ Cur = Len(log) /\ log \in Seq(CallRecord)
  BY LenProperties DEF LinkOK, Cur
<1>2. n \in 1 .. Len(log) /\ n \in Nat \ {0}
  BY <1>1
<1>3. log[n] \in CallRecord
  BY <1>1, <1>2, ElementOfSeq
<1> QED BY <1>2, <1>3, SizesAreNat DEF CallRecord

LEMMA WrittenIsNat ==
    ASSUME HostOK, LinkOK, NEW n \in 1 .. Cur
    PROVE  Written(n) \in Nat /\ Written(n) <= ReqBytes[log[n].fn]
<1>1. wpos \in Nat /\ (pc = "write" => wpos <= ReqBytes[log[Cur].fn])
  BY DEF HostOK, Call
<1> QED BY <1>1, RequestOf DEF Written

\* A step that makes no call and does not write: as much is written of each
\* call as before.
LEMMA WrittenSame ==
    ASSUME HostOK, LinkOK, log' = log, NEW n \in 1 .. Cur,
           \/ pc' = pc /\ wpos' = wpos
           \/ pc' # "write" /\ (pc = "write" /\ n = Cur => wpos = ReqBytes[Call.fn])
    PROVE  Written(n)' = Written(n)
<1>1. Cur' = Cur
  BY SameLog
<1>2. n = Cur => log[n].fn = Call.fn
  BY DEF Call
<1> QED BY <1>1, <1>2 DEF Written

-----------------------------------------------------------------------------
(* Nothing under way changes. *)

LEMMA FateSame ==
    ASSUME HostOK, LinkOK, Fate, UNCHANGED <<log, exec, lost>>, Pipe' = Pipe,
           \/ pc' = pc /\ wpos' = wpos
           \/ pc' # "write" /\ (pc = "write" => wpos = ReqBytes[Call.fn]),
           InCall' => InCall
    PROVE  Fate'
<1>1. Cur' = Cur /\ Executed' = Executed
  BY SameLog DEF Executed
<1>2. ASSUME NEW n \in 1 .. Cur, n \notin Executed \cup lost PROVE InTransit(n)'
  <2>1. Written(n)' = Written(n)
    BY WrittenSame
  <2>2. InTransit(n)
    BY <1>2 DEF Fate, NothingForgotten
  <2> QED BY <2>1, <2>2, TransitIs, TransitNext DEF Lies
<1>3. NothingForgotten'
  BY <1>1, <1>2 DEF Fate, NothingForgotten
<1> QED BY <1>1, <1>3 DEF Fate

-----------------------------------------------------------------------------
(* The rest of the pipe is dropped. *)

LEMMA FateLoses ==
    ASSUME HostOK, LinkOK, LinkOK', Framing, Executions, Fate,
           log' = log, exec' = exec, pc' \notin {"write", "read"},
           Part(Pipe', 0, Pipe), lost \subseteq lost',
           \A i \in DOMAIN Pipe : i > Len(Pipe') => Pipe[i].call \in lost',
           \A n \in lost' : \/ n \in lost
                            \/ \E i \in DOMAIN Pipe : i > Len(Pipe') /\ Pipe[i].call = n
                            \/ n = Cur /\ pc = "write" /\ wpos < ReqBytes[Call.fn],
           pc = "write" /\ wpos < ReqBytes[Call.fn] => Cur \in lost'
    PROVE  Fate'
<1>1. /\ Cur' = Cur /\ Executed' = Executed /\ Cur \in Nat
      /\ DOMAIN Pipe = 1 .. Len(Pipe) /\ Len(Pipe) \in Nat
      /\ DOMAIN Pipe' = 1 .. Len(Pipe') /\ Len(Pipe') \in Nat /\ Len(Pipe') <= Len(Pipe)
      /\ \A i \in DOMAIN Pipe' : i \in DOMAIN Pipe /\ Pipe'[i] = Pipe[i]
  <2>1. /\ DOMAIN Pipe = 1 .. Len(Pipe) /\ Len(Pipe) \in Nat
        /\ DOMAIN Pipe' = 1 .. Len(Pipe') /\ Len(Pipe') \in Nat
    BY PipeIs, PipeNext
  <2> QED BY <2>1, SameLog, HdrIs DEF Executed, Part
<1>2. lost' \subseteq 1 .. Cur
  <2>1. pc = "write" => Cur \in 1 .. Cur
    BY <1>1 DEF HostOK, InCall
  <2> QED BY <2>1, PipeIs DEF Known, Fate
<1>3. Executed \cap lost' = {}
  <2> SUFFICES ASSUME NEW i \in DOMAIN exec, exec[i] \in lost' PROVE FALSE
    BY DEF Executed
  <2>1. exec[i] \notin lost
    BY DEF Fate, NothingForgotten, Executed
  <2>2. exec[i] \in Nat
    BY <1>1 DEF Executions
  <2>3. \A j \in DOMAIN Pipe : exec[i] # Pipe[j].call
    BY <2>2 DEF Executions, Ahead
  <2>4. pc = "write" => exec[i] # Cur
    BY <2>2 DEF Framing, Writing
  <2> QED BY <2>1, <2>3, <2>4
<1>4. ASSUME NEW n \in 1 .. Cur, n \notin Executed \cup lost' PROVE InTransit(n)'
  <2>1. InTransit(n)
    BY <1>4 DEF Fate, NothingForgotten
  <2>2. PICK i \in 0 .. Len(Pipe) - Written(n) : Lies(n, i, Written(n))
    BY <2>1, TransitIs
  <2>3. Written(n)' = Written(n) /\ Written(n) \in Nat /\ Written(n) # 0
    <3>1. pc = "write" /\ n = Cur => wpos = ReqBytes[Call.fn]
      <4>1. pc = "write" /\ n = Cur => ~(wpos < ReqBytes[Call.fn])
        BY <1>4
      <4>2. pc = "write" => wpos <= ReqBytes[Call.fn] /\ wpos \in Nat /\ ReqBytes[Call.fn] \in Nat
        BY CallIs, SizesAreNat DEF HostOK, InCall
      <4> QED BY <4>1, <4>2
    <3>2. pc' # "write"
      OBVIOUS
    <3>3. Written(n)' = Written(n)
      BY <3>1, <3>2, WrittenSame
    <3>4. Written(n) = ReqBytes[log[n].fn]
      BY <3>1 DEF Written, Call
    <3> QED BY <3>3, <3>4, RequestOf
  <2> DEFINE k == Written(n)
  <2> HIDE DEF k
  <2>4. i + k \in DOMAIN Pipe /\ Pipe[i + k].call = n
    <3>1. k \in 1 .. k /\ i + k \in 1 .. Len(Pipe)
      BY <1>1, <2>2, <2>3 DEF k
    <3>2. Pipe[i + k] = [call |-> n, at |-> k]
      BY <2>2, <3>1 DEF Lies, k
    <3> QED BY <1>1, <3>1, <3>2
  <2>5. i + k <= Len(Pipe')
    BY <1>1, <1>4, <2>4
  <2>6. \A j \in 1 .. k : i + j \in DOMAIN Pipe'
    BY <1>1, <2>2, <2>3, <2>5 DEF k
  <2>7. \A j \in 1 .. k : Pipe'[i + j] = [call |-> n, at |-> j]
    BY <1>1, <2>2, <2>6 DEF Lies, k
  <2>8. i \in 0 .. Len(Pipe') - k
    BY <1>1, <2>2, <2>3, <2>5 DEF k
  <2> QED BY <2>3, <2>7, <2>8, TransitNext DEF k
<1>5. ASSUME NEW i \in DOMAIN Pipe', Pipe'[i].call \in lost'
      PROVE  Pipe'[i].at < ReqBytes[log[Pipe'[i].call].fn]
  <2>1. /\ i \in DOMAIN Pipe /\ Pipe'[i] = Pipe[i]
        /\ Pipe[i].call \in 1 .. Cur /\ Pipe[i].at \in Nat
    BY <1>1, PipeIs, BytesAreNat DEF Known
  <2>2. CASE Pipe[i].call \in lost
    BY <2>1, <2>2 DEF Fate
  <2>3. CASE \E j \in DOMAIN Pipe : j > Len(Pipe') /\ Pipe[j].call = Pipe[i].call
    <3>1. PICK j \in DOMAIN Pipe : j > Len(Pipe') /\ Pipe[j].call = Pipe[i].call
      BY <2>3
    <3>2. i < j
      BY <1>1, <3>1
    <3>3. Before(Pipe[i], Pipe[j]) /\ Pipe[j].at <= ReqBytes[log[Pipe[j].call].fn]
      BY <2>1, <3>1, <3>2 DEF Framing, Sorted, InRequest
    <3>4. Pipe[i].at < Pipe[j].at /\ Pipe[j].at \in Nat
      BY <2>1, <3>1, <3>3, PipeIs, BytesAreNat DEF Before
    <3>5. ReqBytes[log[Pipe[i].call].fn] \in Nat
      BY <2>1, RequestOf
    <3> QED BY <2>1, <3>1, <3>3, <3>4, <3>5
  <2>4. CASE Pipe[i].call = Cur /\ pc = "write" /\ wpos < ReqBytes[Call.fn]
    <3>1. Pipe[i].at <= wpos
      BY <2>1, <2>4 DEF Framing, Writing
    <3>2. ReqBytes[Call.fn] \in Nat /\ wpos \in Nat
      BY <2>4, CallIs, SizesAreNat DEF InCall, HostOK
    <3> QED BY <2>1, <2>4, <3>1, <3>2 DEF Call
  <2> QED BY <1>5, <2>1, <2>2, <2>3, <2>4
<1>6. ~InCall'
  BY DEF InCall
<1>7. NothingForgotten'
  BY <1>1, <1>3, <1>4 DEF NothingForgotten
<1> QED BY <1>1, <1>2, <1>5, <1>6, <1>7 DEF Fate

-----------------------------------------------------------------------------
(* Which calls a step drops. *)

\* What is left of the buffer after k bytes lies behind what the driver has.
LEMMA LostOfBuffer ==
    ASSUME LinkOK, NEW k \in 0 .. Len(wbuf), NEW n
    PROVE  n \in Calls(Drop(wbuf, k)) <=>
              \E i \in DOMAIN Pipe : i > Len(tx) + k /\ Pipe[i].call = n
<1>1. /\ wbuf \in Seq(Byte) /\ Len(tx) \in Nat /\ Len(wbuf) \in Nat /\ k \in Nat
      /\ DOMAIN Pipe = 1 .. Len(tx) + Len(wbuf)
      /\ \A i \in 1 .. Len(wbuf) : Pipe[Len(tx) + i] = wbuf[i]
  BY PipeIs DEF LinkOK
<1> DEFINE d == Drop(wbuf, k)
<1>2. /\ d \in Seq(Byte) /\ Len(d) = Len(wbuf) - k /\ DOMAIN d = 1 .. Len(wbuf) - k
      /\ \A i \in 1 .. Len(wbuf) - k : d[i] = wbuf[k + i]
  BY <1>1, DropFacts, LenProperties
<1> HIDE DEF d
<1>3. ASSUME NEW i \in DOMAIN d
      PROVE  /\ Len(tx) + k + i \in DOMAIN Pipe /\ Len(tx) + k + i > Len(tx) + k
             /\ Pipe[Len(tx) + k + i] = d[i]
  <2>1. k + i \in 1 .. Len(wbuf) /\ d[i] = wbuf[k + i] /\ i \in Nat \ {0}
    BY <1>1, <1>2
  <2>2. Pipe[Len(tx) + (k + i)] = d[i] /\ Len(tx) + (k + i) = Len(tx) + k + i
    BY <1>1, <2>1
  <2> QED BY <1>1, <2>1, <2>2
<1>4. ASSUME NEW i \in DOMAIN Pipe, i > Len(tx) + k
      PROVE  i - (Len(tx) + k) \in DOMAIN d /\ Pipe[i] = d[i - (Len(tx) + k)]
  <2>1. i - (Len(tx) + k) \in DOMAIN d
    BY <1>1, <1>2, <1>4
  <2>2. Len(tx) + k + (i - (Len(tx) + k)) = i
    BY <1>1
  <2> QED BY <1>3, <2>1, <2>2
<1>5. n \in Calls(d) <=> \E i \in DOMAIN d : d[i].call = n
  BY DEF Calls
<1>6. n \in Calls(d) <=> \E i \in DOMAIN Pipe : i > Len(tx) + k /\ Pipe[i].call = n
  BY <1>3, <1>4, <1>5
<1> QED BY <1>6 DEF d

LEMMA DropNothing == ASSUME NEW s \in Seq(Byte) PROVE Drop(s, 0) = s
<1>1. 0 \in 0 .. Len(s) /\ Len(s) \in Nat
  BY LenProperties
<1>2. /\ Drop(s, 0) \in Seq(Byte) /\ Len(Drop(s, 0)) = Len(s) - 0
      /\ \A i \in 1 .. Len(s) - 0 : Drop(s, 0)[i] = s[0 + i]
  BY <1>1, DropFacts
<1>3. Len(Drop(s, 0)) = Len(s) /\ \A i \in 1 .. Len(s) : Drop(s, 0)[i] = s[i]
  BY <1>1, <1>2
<1> QED BY <1>2, <1>3, SeqEqual

LEMMA LostOfAll ==
    ASSUME LinkOK, NEW k \in 0 .. Len(tx), NEW n
    PROVE  n \in Calls(Drop(tx, k)) \cup Calls(wbuf) <=>
              \E i \in DOMAIN Pipe : i > k /\ Pipe[i].call = n
<1>1. /\ tx \in Seq(Byte) /\ wbuf \in Seq(Byte) /\ Len(tx) \in Nat /\ Len(wbuf) \in Nat /\ k \in Nat
      /\ DOMAIN Pipe = 1 .. Len(tx) + Len(wbuf)
      /\ \A i \in 1 .. Len(tx) : Pipe[i] = tx[i]
  BY PipeIs DEF LinkOK
<1> DEFINE d == Drop(tx, k)
<1>2. /\ d \in Seq(Byte) /\ Len(d) = Len(tx) - k /\ DOMAIN d = 1 .. Len(tx) - k
      /\ \A i \in 1 .. Len(tx) - k : d[i] = tx[k + i]
  BY <1>1, DropFacts, LenProperties
<1> HIDE DEF d
<1>3. n \in Calls(d) <=> \E i \in 1 .. Len(tx) : i > k /\ Pipe[i].call = n
  <2>1. ASSUME NEW i \in DOMAIN d
        PROVE  k + i \in 1 .. Len(tx) /\ k + i > k /\ Pipe[k + i] = d[i]
    BY <1>1, <1>2
  <2>2. ASSUME NEW i \in 1 .. Len(tx), i > k
        PROVE  i - k \in DOMAIN d /\ Pipe[i] = d[i - k]
    <3>1. i - k \in DOMAIN d /\ k + (i - k) = i
      BY <1>1, <1>2, <2>2
    <3> QED BY <2>1, <3>1
  <2>3. n \in Calls(d) <=> \E i \in DOMAIN d : d[i].call = n
    BY DEF Calls
  <2> QED BY <2>1, <2>2, <2>3
<1>4. n \in Calls(wbuf) <=> \E i \in DOMAIN Pipe : i > Len(tx) /\ Pipe[i].call = n
  <2>1. 0 \in 0 .. Len(wbuf) /\ Drop(wbuf, 0) = wbuf /\ Len(tx) + 0 = Len(tx)
    BY <1>1, DropNothing
  <2> QED BY <2>1, LostOfBuffer
<1>5. \A i \in DOMAIN Pipe : /\ i \in 1 .. Len(tx) \/ i > Len(tx)
                             /\ i > Len(tx) => i > k
  BY <1>1
<1>6. \A i \in 1 .. Len(tx) : i \in DOMAIN Pipe
  BY <1>1
<1> QED BY <1>3, <1>4, <1>5, <1>6 DEF d

\* The head of the pipe stays and the calls of the rest are dropped.
LEMMA FateCut ==
    ASSUME HostOK, LinkOK, LinkOK', Framing, Executions, Fate,
           log' = log, exec' = exec, pc = "idle", pc' = pc,
           NEW p \in Nat, Part(Pipe', 0, Pipe), Len(Pipe') = p,
           NEW c, lost' = lost \cup c,
           \A n : n \in c <=> \E i \in DOMAIN Pipe : i > p /\ Pipe[i].call = n
    PROVE  Fate'
<1>1. /\ lost \subseteq lost'
      /\ \A i \in DOMAIN Pipe : i > Len(Pipe') => Pipe[i].call \in lost'
      /\ \A n \in lost' : \/ n \in lost
                          \/ \E i \in DOMAIN Pipe : i > Len(Pipe') /\ Pipe[i].call = n
  OBVIOUS
<1> QED BY <1>1, FateLoses

LEMMA EmptyPipe ==
    ASSUME LinkOK', wbuf' = <<>> PROVE Len(Pipe') = Len(tx')
<1>1. tx' \in Seq(Byte)
  BY DEF LinkOK
<1>2. Pipe' = tx' \o <<>>
  BY DEF Pipe
<1> QED BY <1>1, <1>2, ConcatEmptySeq

\* A flush that fails after k bytes.
LEMMA FlushedPart ==
    ASSUME LinkOK, LinkOK', NEW k \in 0 .. Len(wbuf),
           tx' = tx \o SubSeq(wbuf, 1, k), wbuf' = <<>>
    PROVE  Part(Pipe', 0, Pipe) /\ Len(Pipe') = Len(tx) + k /\ Len(tx) + k \in Nat
<1> DEFINE w == SubSeq(wbuf, 1, k)
<1>1. /\ tx \in Seq(Byte) /\ wbuf \in Seq(Byte) /\ Len(tx) \in Nat /\ Len(wbuf) \in Nat
      /\ Len(Pipe') = Len(tx')
  BY PipeIs, EmptyPipe DEF LinkOK
<1>2. k \in Nat /\ k <= Len(wbuf)
  BY <1>1
<1>3. Part(Pipe', 0, Pipe)
  BY <1>2, PrefixIsPart
<1>4. w \in Seq(Byte) /\ Len(w) = k
  BY <1>1, PrefixFacts
<1>5. tx' = tx \o w
  OBVIOUS
<1> HIDE DEF w
<1>6. Len(tx \o w) = Len(tx) + Len(w)
  BY <1>1, <1>4, ConcatFacts
<1> QED BY <1>1, <1>2, <1>3, <1>4, <1>5, <1>6

LEMMA UserFlushFate ==
    ASSUME HostOK, LinkOK, LinkOK', Framing, Executions, Fate, UserFlush
    PROVE  Fate'
<1>1. /\ pc = "idle" /\ pc' = pc /\ wpos' = wpos /\ wbuf' = <<>> /\ log' = log /\ exec' = exec
      /\ tx \in Seq(Byte) /\ wbuf \in Seq(Byte) /\ Len(tx) \in Nat /\ Len(wbuf) \in Nat
      /\ Len(Pipe') = Len(tx')
  BY PipeIs, EmptyPipe DEF UserFlush, host, LinkOK
<1>2. CASE tx' = tx \o wbuf /\ lost' = lost
  <2>1. Pipe' = tx' \o <<>> /\ tx' \in Seq(Byte)
    BY <1>1 DEF Pipe, LinkOK
  <2>2. Pipe' = Pipe
    BY <1>2, <2>1, ConcatEmptySeq DEF Pipe
  <2> QED BY <1>1, <1>2, <2>2, FateSame DEF InCall
<1>3. CASE \E k \in 0 .. Len(wbuf) :
              tx' = tx \o SubSeq(wbuf, 1, k) /\ lost' = lost \cup Calls(Drop(wbuf, k))
  <2>1. PICK k \in 0 .. Len(wbuf) :
              tx' = tx \o SubSeq(wbuf, 1, k) /\ lost' = lost \cup Calls(Drop(wbuf, k))
    BY <1>3
  <2>2. Part(Pipe', 0, Pipe) /\ Len(Pipe') = Len(tx) + k /\ Len(tx) + k \in Nat
    BY <1>1, <2>1, FlushedPart
  <2>3. \A n : n \in Calls(Drop(wbuf, k)) <=>
               \E i \in DOMAIN Pipe : i > Len(tx) + k /\ Pipe[i].call = n
    BY LostOfBuffer
  <2> QED BY <1>1, <2>1, <2>2, <2>3, FateCut
<1>4. CASE lost' = lost \cup Calls(wbuf) /\ tx' = tx
  <2>1. Part(Pipe', 0, Pipe)
    BY <1>1, <1>4, PrefixIsPart
  <2>2. Drop(wbuf, 0) = wbuf /\ 0 \in 0 .. Len(wbuf) /\ Len(tx) + 0 = Len(tx)
    BY <1>1, DropNothing
  <2>3. \A n : n \in Calls(wbuf) <=>
               \E i \in DOMAIN Pipe : i > Len(tx) /\ Pipe[i].call = n
    BY <2>2, LostOfBuffer
  <2> QED BY <1>1, <1>4, <2>1, <2>3, FateCut
<1> QED BY <1>2, <1>3, <1>4 DEF UserFlush

LEMMA ClearFate ==
    ASSUME HostOK, LinkOK, LinkOK', Framing, Executions, Fate, Clear
    PROVE  Fate'
<1>1. /\ pc = "idle" /\ pc' = pc /\ wbuf' = <<>> /\ log' = log /\ exec' = exec
      /\ tx \in Seq(Byte) /\ Len(tx) \in Nat /\ Len(Pipe') = Len(tx')
  BY PipeIs, EmptyPipe DEF Clear, host, LinkOK
<1>2. PICK k \in 0 .. Len(tx) :
          tx' = SubSeq(tx, 1, k) /\ lost' = lost \cup Calls(Drop(tx, k)) \cup Calls(wbuf)
  BY DEF Clear
<1>3. k \in Nat /\ k <= Len(tx)
  BY <1>1
<1>4. Part(Pipe', 0, Pipe)
  BY <1>1, <1>2, <1>3, PrefixIsPart
<1>5. Len(Pipe') = k
  BY <1>1, <1>2, PrefixFacts
<1>6. lost' = lost \cup (Calls(Drop(tx, k)) \cup Calls(wbuf))
  BY <1>2
<1>7. \A n : n \in Calls(Drop(tx, k)) \cup Calls(wbuf) <=>
             \E i \in DOMAIN Pipe : i > k /\ Pipe[i].call = n
  BY LostOfAll
<1> QED BY <1>1, <1>3, <1>4, <1>5, <1>6, <1>7, FateCut

LEMMA OpenFate ==
    ASSUME HostOK, LinkOK, LinkOK', Framing, Executions, Fate, Open
    PROVE  Fate'
<1>1. /\ pc = "idle" /\ pc' = pc /\ wbuf' = <<>> /\ log' = log /\ exec' = exec /\ tx' = tx
      /\ wbuf \in Seq(Byte) /\ Len(tx) \in Nat /\ Len(wbuf) \in Nat /\ Len(Pipe') = Len(tx')
      /\ lost' = lost \cup Calls(wbuf)
  BY PipeIs, EmptyPipe DEF Open, LinkOK
<1>2. Part(Pipe', 0, Pipe)
  BY <1>1, PrefixIsPart
<1>3. Drop(wbuf, 0) = wbuf /\ 0 \in 0 .. Len(wbuf) /\ Len(tx) + 0 = Len(tx)
  BY <1>1, DropNothing
<1>4. \A n : n \in Calls(wbuf) <=> \E i \in DOMAIN Pipe : i > Len(tx) /\ Pipe[i].call = n
  BY <1>3, LostOfBuffer
<1> QED BY <1>1, <1>2, <1>4, FateCut

LEMMA WriteClosedFate ==
    ASSUME HostOK, LinkOK, LinkOK', Framing, Executions, Fate, WriteClosed
    PROVE  Fate'
<1>1. /\ pc = "write" /\ pc' = "idle" /\ log' = log /\ exec' = exec /\ Pipe' = Pipe
      /\ lost' = lost \cup {Cur} /\ ~open
  BY DEF WriteClosed, Throw, usb, Pipe
<1>2. wpos < ReqBytes[Call.fn]
  <2>1. wpos = 0
    BY <1>1 DEF Framing, Writing
  <2>2. ReqBytes[Call.fn] \in Nat \ {0}
    BY <1>1, CallIs, SizesAreNat DEF InCall
  <2> QED BY <2>1, <2>2
<1>3. Part(Pipe', 0, Pipe) /\ \A i \in DOMAIN Pipe : ~(i > Len(Pipe'))
  BY <1>1, PipeIs DEF Part
<1> QED BY <1>1, <1>2, <1>3, FateLoses

LEMMA FlushFailsFate ==
    ASSUME HostOK, LinkOK, LinkOK', Framing, Executions, Fate, FlushFails
    PROVE  Fate'
<1>1. pc = "write" /\ pc' = "idle" /\ log' = log /\ exec' = exec /\ wbuf' = <<>>
  BY DEF FlushFails, Throw
<1>2. PICK k \in 0 .. Len(wbuf) :
          /\ tx' = tx \o SubSeq(wbuf, 1, k)
          /\ lost' = lost \cup Calls(Drop(wbuf, k))
                          \cup (IF wpos < ReqBytes[Call.fn] THEN {Cur} ELSE {})
  BY DEF FlushFails
<1>3. Part(Pipe', 0, Pipe) /\ Len(Pipe') = Len(tx) + k
  BY <1>1, <1>2, FlushedPart
<1>4. \A n : n \in Calls(Drop(wbuf, k)) <=>
             \E i \in DOMAIN Pipe : i > Len(Pipe') /\ Pipe[i].call = n
  BY <1>3, LostOfBuffer
<1>5. /\ lost \subseteq lost'
      /\ \A i \in DOMAIN Pipe : i > Len(Pipe') => Pipe[i].call \in lost'
      /\ \A n \in lost' : \/ n \in lost
                          \/ \E i \in DOMAIN Pipe : i > Len(Pipe') /\ Pipe[i].call = n
                          \/ n = Cur /\ wpos < ReqBytes[Call.fn]
      /\ wpos < ReqBytes[Call.fn] => Cur \in lost'
  BY <1>2, <1>4
<1> QED BY <1>1, <1>3, <1>5, FateLoses

-----------------------------------------------------------------------------
(* Calls are made and written. *)

LEMMA CreateFate ==
    ASSUME HostOK, LinkOK, LinkOK', Fate, NEW f \in Fn, pc = "getid", Create(f)
    PROVE  Fate'
<1>1. /\ Cur' = Cur + 1 /\ Cur \in Nat /\ Pipe' = Pipe /\ exec' = exec /\ lost' = lost
      /\ pc' = "write" /\ wpos' = 0
      /\ \A i \in 1 .. Cur : log'[i] = log[i]
  <2>1. [fn |-> f, as |-> cmdId[f], arg |-> fn] \in CallRecord
    BY DEF HostOK, CallRecord
  <2> QED BY <2>1, AppendProperties, LenProperties DEF Create, LinkOK, Cur, Pipe, usb
<1>2. /\ \A i \in DOMAIN Pipe : Pipe[i].call \in 1 .. Cur
      /\ lost \subseteq 1 .. Cur /\ Len(Pipe) \in Nat
  BY PipeIs DEF Known, Fate
<1>3. Executed' = Executed
  BY <1>1 DEF Executed
<1>4. ASSUME NEW n \in 1 .. Cur, n \notin Executed \cup lost PROVE InTransit(n)'
  <2>1. InTransit(n)
    BY <1>4 DEF Fate, NothingForgotten
  <2>2. Written(n)' = Written(n)
    BY <1>1 DEF Written
  <2> QED BY <1>1, <2>1, <2>2, TransitIs, TransitNext DEF Lies
<1>5. ASSUME NEW n, n = Cur + 1 PROVE InTransit(n)'
  <2>1. Written(n)' = 0
    BY <1>1, <1>5 DEF Written
  <2>2. 0 \in 0 .. Len(Pipe') - 0
    BY <1>1, <1>2
  <2> QED BY <2>1, <2>2, TransitNext
<1>6. NothingForgotten'
  <2>1. \A n \in 1 .. Cur' : n \in 1 .. Cur \/ n = Cur + 1
    BY <1>1
  <2> QED BY <1>1, <1>3, <1>4, <1>5, <2>1 DEF Fate, NothingForgotten
<1>7. lost' \subseteq 1 .. Cur' /\ Cur' \notin lost'
  BY <1>1, <1>2
<1>8. \A i \in DOMAIN Pipe' :
          Pipe'[i].call \in lost' => Pipe'[i].at < ReqBytes[log'[Pipe'[i].call].fn]
  BY <1>1, <1>2 DEF Fate
<1> QED BY <1>6, <1>7, <1>8 DEF Fate

LEMMA WriteByteIs ==
    ASSUME HostOK, LinkOK, LinkOK', WriteByte
    PROVE  /\ Len(Pipe') = Len(Pipe) + 1 /\ Len(Pipe) \in Nat
           /\ Pipe'[Len(Pipe) + 1] = [call |-> Cur, at |-> wpos + 1]
           /\ \A i \in 1 .. Len(Pipe) : Pipe'[i] = Pipe[i]
<1> DEFINE b == [call |-> Cur, at |-> wpos + 1]
<1>1. /\ wbuf' = Append(wbuf, b) /\ tx' = tx /\ wpos \in Nat /\ Cur \in Nat
      /\ tx \in Seq(Byte) /\ wbuf \in Seq(Byte)
  BY HdrIs DEF WriteByte, HostOK, LinkOK
<1>2. b \in Byte
  BY <1>1 DEF Byte
<1> HIDE DEF b
<1>3. Pipe' = Append(Pipe, b)
  <2>1. wbuf' = wbuf \o <<b>> /\ <<b>> \in Seq(Byte)
    BY <1>1, <1>2, AppendIsConcat
  <2>2. tx \o (wbuf \o <<b>>) = (tx \o wbuf) \o <<b>>
    BY <1>1, <2>1, ConcatAssociative
  <2> QED BY <1>1, <1>2, <2>1, <2>2, PipeIs, AppendIsConcat DEF Pipe
<1>4. /\ Len(Pipe') = Len(Pipe) + 1 /\ Len(Pipe) \in Nat /\ Pipe'[Len(Pipe) + 1] = b
      /\ \A i \in 1 .. Len(Pipe) : Pipe'[i] = Pipe[i]
  BY <1>2, <1>3, PipeIs, AppendProperties
<1> QED BY <1>4 DEF b

\* What is written of the call in progress is at the end of the pipe.
LEMMA CurrentAtEnd ==
    ASSUME HostOK, LinkOK, Framing, pc = "write", InTransit(Cur)
    PROVE  wpos <= Len(Pipe) /\ Lies(Cur, Len(Pipe) - wpos, wpos)
<1>1. Written(Cur) = wpos /\ wpos \in Nat /\ Writing /\ Len(Pipe) \in Nat /\ Cur \in Nat
      /\ DOMAIN Pipe = 1 .. Len(Pipe)
  BY PipeIs, HdrIs DEF Written, HostOK, Framing
<1>2. PICK i \in 0 .. Len(Pipe) - wpos : Lies(Cur, i, wpos)
  BY <1>1, TransitIs
<1>3. CASE wpos = 0
  BY <1>1, <1>3 DEF Lies
<1>4. CASE wpos # 0
  <2>1. wpos \in 1 .. wpos /\ i + wpos \in DOMAIN Pipe
    BY <1>1, <1>2, <1>4
  <2>2. Pipe[i + wpos] = [call |-> Cur, at |-> wpos]
    BY <1>2, <2>1 DEF Lies
  <2>3. ASSUME i + wpos < Len(Pipe) PROVE FALSE
    <3> DEFINE q == i + wpos + 1
    <3>1. q \in DOMAIN Pipe /\ i + wpos < q
      BY <1>1, <1>2, <2>1, <2>3
    <3> HIDE DEF q
    <3>2. Before(Pipe[i + wpos], Pipe[q])
      BY <2>1, <3>1 DEF Framing, Sorted
    <3>3. Pipe[q].call \in 1 .. Cur /\ Pipe[q].at \in Nat
      BY <3>1, PipeIs, BytesAreNat DEF Known
    <3>4. Pipe[q].call = Cur /\ wpos < Pipe[q].at
      BY <1>1, <2>2, <3>2, <3>3 DEF Before
    <3> QED BY <1>1, <3>1, <3>3, <3>4 DEF Writing
  <2>4. i = Len(Pipe) - wpos /\ wpos <= Len(Pipe)
    <3>1. wpos \in Nat /\ Len(Pipe) \in Nat /\ i \in Nat /\ i <= Len(Pipe) - wpos
      BY <1>1
    <3>2. ~(i + wpos < Len(Pipe))
      BY <2>3
    <3> QED BY <3>1, <3>2
  <2> QED BY <1>2, <2>4 DEF Lies
<1> QED BY <1>3, <1>4

LEMMA WriteByteFate ==
    ASSUME HostOK, LinkOK, LinkOK', Framing, Executions, Fate, WriteByte
    PROVE  Fate'
<1>1. /\ pc = "write" /\ pc' = pc /\ wpos' = wpos + 1 /\ log' = log /\ exec' = exec /\ lost' = lost
      /\ Cur' = Cur /\ Executed' = Executed /\ wpos \in Nat /\ Cur \in Nat \ {0} /\ InCall
  BY CallIs, SameLog DEF WriteByte, history, Executed, HostOK, InCall
<1>2. /\ Len(Pipe') = Len(Pipe) + 1 /\ Len(Pipe) \in Nat
      /\ Pipe'[Len(Pipe) + 1] = [call |-> Cur, at |-> wpos + 1]
      /\ \A i \in 1 .. Len(Pipe) : Pipe'[i] = Pipe[i]
      /\ DOMAIN Pipe = 1 .. Len(Pipe) /\ DOMAIN Pipe' = 1 .. Len(Pipe')
  BY WriteByteIs, PipeIs, PipeNext
<1>3. ASSUME NEW n \in 1 .. Cur, n # Cur, n \notin Executed \cup lost PROVE InTransit(n)'
  <2>1. InTransit(n)
    BY <1>3 DEF Fate, NothingForgotten
  <2>2. Written(n)' = Written(n) /\ Written(n) \in Nat
    BY <1>1, <1>3, WrittenIsNat DEF Written
  <2>3. PICK i \in 0 .. Len(Pipe) - Written(n) : Lies(n, i, Written(n))
    BY <2>1, TransitIs
  <2>4. i \in 0 .. Len(Pipe') - Written(n)
    BY <1>2, <2>2
  <2>5. \A j \in 1 .. Written(n) : i + j \in 1 .. Len(Pipe)
    BY <1>2, <2>2
  <2>6. \A j \in 1 .. Written(n) : Pipe'[i + j] = [call |-> n, at |-> j]
    BY <1>2, <2>3, <2>5 DEF Lies
  <2> QED BY <2>2, <2>4, <2>6, TransitNext
<1>4. Cur \notin Executed \cup lost
  <2>1. \A i \in DOMAIN exec : exec[i] < Cur /\ exec[i] \in Nat
    BY <1>1 DEF Framing, Writing, Executions
  <2> QED BY <1>1, <2>1 DEF Executed, Fate
<1>5. InTransit(Cur)'
  <2>1. wpos <= Len(Pipe) /\ Lies(Cur, Len(Pipe) - wpos, wpos)
    <3>1. Cur \in 1 .. Cur
      BY <1>1
    <3> QED BY <1>1, <1>4, <3>1, CurrentAtEnd DEF Fate, NothingForgotten
  <2>2. Written(Cur)' = wpos + 1
    BY <1>1 DEF Written
  <2> DEFINE i == Len(Pipe) - wpos
  <2>3. i \in Nat /\ i + (wpos + 1) = Len(Pipe) + 1 /\ i \in 0 .. Len(Pipe') - (wpos + 1)
    BY <1>1, <1>2, <2>1
  <2>4. ASSUME NEW j \in 1 .. wpos + 1 PROVE Pipe'[i + j] = [call |-> Cur, at |-> j]
    <3>1. CASE j \in 1 .. wpos
      <4>1. i + j \in 1 .. Len(Pipe)
        BY <1>1, <1>2, <2>1, <3>1
      <4>2. Pipe[i + j] = [call |-> Cur, at |-> j]
        BY <2>1, <3>1 DEF Lies
      <4> QED BY <1>2, <4>1, <4>2
    <3>2. CASE j = wpos + 1
      BY <1>2, <2>3, <3>2
    <3> QED BY <1>1, <3>1, <3>2
  <2> HIDE DEF i
  <2> QED BY <1>1, <2>2, <2>3, <2>4, TransitNext
<1>6. NothingForgotten'
  BY <1>1, <1>3, <1>5 DEF Fate, NothingForgotten
<1>7. ASSUME NEW i \in DOMAIN Pipe', Pipe'[i].call \in lost
      PROVE  Pipe'[i].at < ReqBytes[log[Pipe'[i].call].fn]
  <2>1. i \in 1 .. Len(Pipe) \/ i = Len(Pipe) + 1
    BY <1>2
  <2>2. i # Len(Pipe) + 1
    BY <1>2, <1>4, <1>7
  <2> QED BY <1>2, <1>7, <2>1, <2>2 DEF Fate
<1> QED BY <1>1, <1>6, <1>7 DEF Fate, InCall

-----------------------------------------------------------------------------
(* The board takes bytes. *)

\* The first m bytes of the pipe, all of call c, which is done with, are gone.
LEMMA FateTaken ==
    ASSUME HostOK, LinkOK, LinkOK', Fate, log' = log, lost' = lost, pc' = pc, wpos' = wpos,
           NEW m \in 0 .. Len(tx), tx' = Drop(tx, m), wbuf' = wbuf,
           NEW c, \A j \in 1 .. m : Pipe[j].call = c,
           Executed \subseteq Executed', Executed' \subseteq Executed \cup {c},
           c \in Executed' \cup lost, c \in Executed' => c \notin lost
    PROVE  Fate'
<1>1. /\ Part(Pipe', m, Pipe) /\ Len(Pipe') = Len(Pipe) - m /\ Cur' = Cur
      /\ m \in Nat /\ Len(Pipe) \in Nat /\ Len(tx) \in Nat /\ Len(wbuf) \in Nat
      /\ Len(Pipe) = Len(tx) + Len(wbuf)
      /\ DOMAIN Pipe = 1 .. Len(Pipe) /\ DOMAIN Pipe' = 1 .. Len(Pipe') /\ Len(Pipe') \in Nat
  <2>1. Part(Pipe', m, Pipe) /\ Len(Pipe') = Len(Pipe) - m
    BY SuffixIsPart
  <2>2. /\ Len(Pipe) \in Nat /\ Len(tx) \in Nat /\ Len(wbuf) \in Nat
        /\ Len(Pipe) = Len(tx) + Len(wbuf) /\ DOMAIN Pipe = 1 .. Len(Pipe)
    BY PipeIs
  <2>3. DOMAIN Pipe' = 1 .. Len(Pipe') /\ Len(Pipe') \in Nat
    BY PipeNext
  <2>4. m \in Nat /\ Cur' = Cur
    BY <2>2, SameLog
  <2> QED BY <2>1, <2>2, <2>3, <2>4
<1>2. \A i \in DOMAIN Pipe' : m + i \in DOMAIN Pipe /\ Pipe'[i] = Pipe[m + i]
  <2> TAKE i \in DOMAIN Pipe'
  <2>1. i \in 1 .. Len(Pipe') /\ m + i \in 1 .. Len(Pipe)
    BY <1>1
  <2> QED BY <1>1, <2>1 DEF Part
<1>3. ASSUME NEW n \in 1 .. Cur, n \notin Executed' \cup lost PROVE InTransit(n)'
  <2>1. InTransit(n) /\ n # c
    BY <1>3 DEF Fate, NothingForgotten
  <2>2. Written(n)' = Written(n) /\ Written(n) \in Nat
    BY WrittenSame, WrittenIsNat
  <2> DEFINE k == Written(n)
  <2>3. PICK i \in 0 .. Len(Pipe) - k : Lies(n, i, k)
    BY <2>1, TransitIs
  <2> HIDE DEF k
  <2>4. CASE k = 0
    <3>1. 0 \in 0 .. Len(Pipe') - 0
      BY <1>1
    <3> QED BY <2>2, <2>4, <3>1, TransitNext DEF k
  <2>5. CASE k # 0
    <3>1. k \in Nat \ {0} /\ i \in Nat /\ i + k <= Len(Pipe)
      BY <1>1, <2>2, <2>3, <2>5 DEF k
    <3>2. Pipe[i + 1] = [call |-> n, at |-> 1]
      <4>1. 1 \in 1 .. k
        BY <3>1
      <4> QED BY <2>3, <4>1 DEF Lies
    <3>3. m <= i
      <4>1. ~(i + 1 \in 1 .. m)
        BY <2>1, <3>2
      <4> QED BY <1>1, <3>1, <4>1
    <3> DEFINE p == i - m
    <3>4. p \in 0 .. Len(Pipe') - k /\ m + p = i /\ p \in Nat
      BY <1>1, <3>1, <3>3
    <3>5. ASSUME NEW j \in 1 .. k PROVE Pipe'[p + j] = [call |-> n, at |-> j]
      <4>1. p + j \in DOMAIN Pipe' /\ m + (p + j) = i + j
        BY <1>1, <3>1, <3>4
      <4> QED BY <1>2, <2>3, <4>1 DEF Lies
    <3> HIDE DEF p
    <3> QED BY <2>2, <3>4, <3>5, TransitNext DEF k
  <2> QED BY <2>4, <2>5
<1>4. Executed' \cap lost = {}
  BY DEF Fate, NothingForgotten
<1>5. \A i \in DOMAIN Pipe' :
          Pipe'[i].call \in lost => Pipe'[i].at < ReqBytes[log[Pipe'[i].call].fn]
  BY <1>2 DEF Fate
<1>6. NothingForgotten'
  BY <1>1, <1>3, <1>4 DEF NothingForgotten
<1> QED BY <1>1, <1>5, <1>6 DEF Fate, InCall

LEMMA ExecuteFate ==
    ASSUME HostOK, LinkOK, LinkOK', Framing, Executions, Fate, Execute
    PROVE  Fate'
<1> DEFINE n == tx[1].call
           m == ReqBytes[log[n].fn]
<1>1. n \in 1 .. Cur /\ n \in Nat /\ m \in Nat \ {0} /\ Len(tx) \in Nat \ {0}
  <2>1. tx # <<>> /\ Cur \in Nat
    BY HdrIs DEF Execute
  <2> QED BY <2>1, FirstOfTx
<1>2. /\ m <= Len(tx) /\ \A j \in 1 .. m : tx[j] = [call |-> n, at |-> j]
      /\ exec' = Append(exec, n) /\ tx' = Drop(tx, m)
      /\ UNCHANGED <<pc, wpos, wbuf, log, lost>>
  BY DEF Execute, Whole, host, history
<1> HIDE DEF n, m
<1>3. m \in 0 .. Len(tx) /\ \A j \in 1 .. m : Pipe[j] = [call |-> n, at |-> j] /\ j \in DOMAIN Pipe
  <2>1. /\ DOMAIN Pipe = 1 .. Len(Pipe) /\ Len(Pipe) = Len(tx) + Len(wbuf) /\ Len(wbuf) \in Nat
        /\ \A i \in 1 .. Len(tx) : Pipe[i] = tx[i]
    BY PipeIs
  <2>2. \A j \in 1 .. m : j \in 1 .. Len(tx) /\ j \in DOMAIN Pipe
    BY <1>1, <1>2, <2>1
  <2> QED BY <1>1, <1>2, <2>1, <2>2
<1>4. Executed' = Executed \cup {n}
  <2>1. /\ exec \in Seq(Nat) /\ DOMAIN exec = 1 .. Len(exec) /\ Len(exec) \in Nat
        /\ DOMAIN exec' = 1 .. Len(exec) + 1 /\ exec'[Len(exec) + 1] = n
        /\ \A i \in 1 .. Len(exec) : exec'[i] = exec[i]
    BY <1>1, <1>2, AppendProperties, LenProperties DEF LinkOK
  <2>2. \A i \in DOMAIN exec' : i \in DOMAIN exec \/ i = Len(exec) + 1
    BY <2>1
  <2>3. Len(exec) + 1 \in DOMAIN exec' /\ \A i \in DOMAIN exec : i \in DOMAIN exec'
    BY <2>1
  <2> QED BY <2>1, <2>2, <2>3 DEF Executed
<1>5. n \notin lost
  <2>1. m \in 1 .. m
    BY <1>1
  <2>2. m \in DOMAIN Pipe /\ Pipe[m] = [call |-> n, at |-> m]
    BY <1>3, <2>1
  <2>3. Pipe[m].call = n /\ Pipe[m].at = m
    BY <2>2
  <2>4. n \in lost => m < ReqBytes[log[n].fn]
    BY <2>2, <2>3 DEF Fate
  <2>5. m = ReqBytes[log[n].fn]
    BY DEF m
  <2> QED BY <1>1, <2>4, <2>5
<1>6. /\ \A j \in 1 .. m : Pipe[j].call = n
      /\ Executed \subseteq Executed' /\ Executed' \subseteq Executed \cup {n} /\ n \in Executed'
  <2>1. ASSUME NEW j \in 1 .. m PROVE Pipe[j].call = n
    <3>1. Pipe[j] = [call |-> n, at |-> j]
      BY <1>3
    <3> QED BY <3>1
  <2>2. Executed \subseteq Executed' /\ Executed' \subseteq Executed \cup {n} /\ n \in Executed'
    BY <1>4
  <2> QED BY <2>1, <2>2
<1>7. /\ log' = log /\ lost' = lost /\ pc' = pc /\ wpos' = wpos /\ wbuf' = wbuf
      /\ tx' = Drop(tx, m) /\ m \in 0 .. Len(tx) /\ n \in Executed' \cup lost
  BY <1>2, <1>3, <1>6
<1> QED BY <1>5, <1>6, <1>7, FateTaken

LEMMA DiscardFate ==
    ASSUME HostOK, LinkOK, LinkOK', Framing, Executions, Fate, Discard
    PROVE  Fate'
<1> DEFINE n == tx[1].call
<1>1. /\ tx # <<>> /\ tx' = Drop(tx, 1) /\ Cur \in Nat
      /\ UNCHANGED <<wbuf, pc, wpos, log, lost, exec>>
  BY HdrIs DEF Discard, host, usb, history
<1>2. /\ n \in 1 .. Cur /\ Len(tx) \in Nat \ {0}
      /\ ReqBytes[log[n].fn] \in Nat \ {0}
  BY <1>1, FirstOfTx
<1>3. /\ DOMAIN Pipe = 1 .. Len(Pipe) /\ Len(Pipe) \in Nat
      /\ \A i \in 1 .. Len(tx) : Pipe[i] = tx[i] /\ i \in DOMAIN Pipe
      /\ 1 \in 1 .. Len(tx) /\ 1 \in DOMAIN Pipe /\ Pipe[1].call = n
      /\ Pipe[1].at \in Nat \ {0}
  <2>1. /\ DOMAIN Pipe = 1 .. Len(Pipe) /\ Len(Pipe) \in Nat /\ Pipe \in Seq(Byte)
        /\ Len(Pipe) = Len(tx) + Len(wbuf) /\ Len(wbuf) \in Nat
        /\ \A i \in 1 .. Len(tx) : Pipe[i] = tx[i]
    BY PipeIs
  <2>2. 1 \in 1 .. Len(tx) /\ \A i \in 1 .. Len(tx) : i \in 1 .. Len(Pipe)
    BY <1>2, <2>1
  <2>3. Pipe[1] \in Byte
    BY <2>1, <2>2, ElementOfSeq
  <2> QED BY <2>1, <2>2, <2>3 DEF Byte
<1>4. PICK j \in 1 .. Least(Len(tx), ReqBytes[log[n].fn]) : tx[j] # [call |-> n, at |-> j]
  BY DEF Discard, Broken
<1> HIDE DEF n
<1>5. j \in 1 .. Len(tx) /\ j \in 1 .. ReqBytes[log[n].fn]
  BY <1>2, <1>4 DEF Least
<1>6. Executed' = Executed /\ n \notin Executed
  <2>1. \A i \in DOMAIN exec : exec[i] < n /\ exec[i] \in Nat
    BY <1>3 DEF Executions, Ahead
  <2> QED BY <1>1, <1>2, <2>1 DEF Executed
<1>7. ASSUME n \notin lost PROVE FALSE
  <2> DEFINE k == Written(n)
  <2>1. InTransit(n)
    BY <1>2, <1>6, <1>7 DEF Fate, NothingForgotten
  <2>2. PICK i \in 0 .. Len(Pipe) - k : Lies(n, i, k)
    BY <2>1, TransitIs
  <2>3. k \in Nat /\ (k # ReqBytes[log[n].fn] => n = Cur /\ pc = "write" /\ k = wpos)
    BY <1>2, WrittenIsNat DEF Written
  <2> HIDE DEF k
  <2>4. k # 0
    <3>1. CASE n = Cur /\ pc = "write" /\ k = wpos
      <4>1. Pipe[1].at <= wpos
        BY <1>3, <3>1 DEF Framing, Writing
      <4> QED BY <1>3, <2>3, <3>1, <4>1
    <3> QED BY <1>2, <2>3, <3>1
  <2>5. i \in Nat /\ i + k <= Len(Pipe) /\ \A h \in 1 .. k : i + h \in DOMAIN Pipe
    BY <1>3, <2>2, <2>3
  <2>6. i = 0
    <3>1. 1 \in 1 .. k
      BY <2>3, <2>4
    <3>2. Pipe[i + 1] = [call |-> n, at |-> 1] /\ i + 1 \in DOMAIN Pipe
      BY <2>2, <2>5, <3>1 DEF Lies
    <3>3. 1 < i + 1 => Before(Pipe[1], Pipe[i + 1])
      BY <1>3, <3>2 DEF Framing, Sorted
    <3>4. ~Before(Pipe[1], Pipe[i + 1])
      BY <1>2, <1>3, <3>2 DEF Before
    <3> QED BY <2>5, <3>3, <3>4
  <2>7. \A h \in 1 .. k : Pipe[h] = [call |-> n, at |-> h]
    <3>1. \A h \in 1 .. k : 0 + h = h
      BY <2>3
    <3> QED BY <2>2, <2>6, <3>1 DEF Lies
  <2>8. ~(j \in 1 .. k)
    BY <1>3, <1>4, <1>5, <2>7
  <2>9. n = Cur /\ pc = "write" /\ k = wpos /\ k < j
    BY <1>2, <1>5, <2>3, <2>8
  <2>10. k \in 1 .. k /\ k \in DOMAIN Pipe /\ Pipe[k] = [call |-> n, at |-> k] /\ j \in DOMAIN Pipe
    <3>1. k \in 1 .. k
      BY <2>3, <2>4
    <3>2. 0 + k = k
      BY <2>3
    <3> QED BY <1>3, <1>5, <2>5, <2>6, <2>7, <3>1, <3>2
  <2>11. Before(Pipe[k], Pipe[j])
    BY <2>9, <2>10 DEF Framing, Sorted
  <2>12. Pipe[j].call \in 1 .. Cur /\ Pipe[j].at \in Nat
    BY <2>10, PipeIs, BytesAreNat DEF Known
  <2>13. Pipe[j].call = Cur /\ k < Pipe[j].at
    BY <1>1, <2>9, <2>10, <2>11, <2>12 DEF Before
  <2>14. Pipe[j].at <= wpos
    BY <2>9, <2>10, <2>13 DEF Framing, Writing
  <2> QED BY <2>3, <2>9, <2>12, <2>13, <2>14
<1>8. 1 \in 0 .. Len(tx) /\ \A h \in 1 .. 1 : Pipe[h].call = n
  BY <1>2, <1>3
<1> QED BY <1>1, <1>6, <1>7, <1>8, FateTaken

-----------------------------------------------------------------------------
(* All steps together. *)

LEMMA FateInit == Init => Fate
<1> SUFFICES ASSUME Init PROVE Fate
  OBVIOUS
<1>1. Cur = 0 /\ exec = <<>> /\ lost = {} /\ ~InCall
  BY DEF Init, Cur, InCall
<1>2. DOMAIN Pipe = {}
  <2>1. Len(tx) = 0 /\ Len(wbuf) = 0
    BY EmptySeq DEF Init
  <2> QED BY <2>1, InitType, PipeIs
<1>3. 1 .. Cur = {}
  BY <1>1
<1> QED BY <1>1, <1>2, <1>3 DEF Fate, NothingForgotten

\* The buffer goes to the driver as a whole.
LEMMA WholeFlush ==
    ASSUME LinkOK, LinkOK', tx' = tx \o wbuf, wbuf' = <<>> PROVE Pipe' = Pipe
<1>1. Pipe' = tx' \o <<>> /\ tx' \in Seq(Byte)
  BY DEF Pipe, LinkOK
<1> QED BY <1>1, ConcatEmptySeq DEF Pipe

LEMMA WriteFate ==
    ASSUME HostOK, LinkOK, LinkOK', Fate, WriteFull \/ Flush \/ ReturnVoid
    PROVE  Fate'
<1>1. UNCHANGED <<log, exec, lost>>
  BY DEF WriteFull, Flush, ReturnVoid, history
<1>2. Pipe' = Pipe
  BY WholeFlush, PipeSame DEF WriteFull, Flush, ReturnVoid, usb
<1>3. CASE WriteFull
  BY <1>1, <1>2, <1>3, FateSame DEF WriteFull, host, InCall
<1>4. CASE Flush \/ ReturnVoid
  <2>1. pc = "write" /\ wpos = ReqBytes[Call.fn] /\ pc' # "write"
    BY <1>4 DEF Flush, ReturnVoid, Await, Return
  <2> QED BY <1>1, <1>2, <2>1, FateSame DEF InCall
<1> QED BY <1>3, <1>4

\* A step that neither writes nor takes anything of what is under way.
LEMMA FateStays ==
    ASSUME HostOK, LinkOK, Fate, UNCHANGED <<tx, wbuf, log, exec, lost>>,
           pc # "write", pc' # "write", InCall' => InCall
    PROVE  Fate'
BY PipeSame, FateSame

LEMMA FateStep ==
    HostOK /\ LinkOK /\ Framing /\ Executions /\ Fate /\ [Next]_vars => Fate'
<1> SUFFICES ASSUME HostOK, LinkOK, Framing, Executions, Fate, [Next]_vars PROVE Fate'
  OBVIOUS
<1>1. HostOK' /\ LinkOK' /\ Framing' /\ Executions'
  BY StepType, OrderStep
<1>2. CASE CreateKnown
  BY <1>1, <1>2, CreateFate DEF CreateKnown, HostOK
<1>3. CASE CreateLookup
  BY <1>1, <1>3, CreateFate, FnAssumption DEF CreateLookup
<1>4. CASE WriteByte
  BY <1>1, <1>4, WriteByteFate
<1>5. CASE WriteFull \/ Flush \/ ReturnVoid
  BY <1>1, <1>5, WriteFate
<1>6. CASE WriteClosed
  BY <1>1, <1>6, WriteClosedFate
<1>7. CASE FlushFails
  BY <1>1, <1>7, FlushFailsFate
<1>8. CASE \E f \in Fn : Client(f)
  BY <1>8, FateStays DEF Client, usb, history, InCall
<1>9. CASE NoSuchCall
  BY <1>9, FateStays DEF NoSuchCall, Throw, usb, history, InCall
<1>10. CASE CopyBytes \/ FillBuffer \/ ShortRead \/ ReadFails
  <2>1. UNCHANGED <<tx, wbuf, log, exec, lost>> /\ pc = "read" /\ pc' # "write"
    BY <1>10 DEF CopyBytes, FillBuffer, ShortRead, ReadFails, Reading, Throw, host, usb, history
  <2> QED BY <2>1, FateStays DEF InCall
<1>11. CASE Looking
  <2>1. Quiet /\ pc = "read"
    BY <1>11 DEF Looking, GotType, GotCmd, GotSize, CheckFails, GotValue, GotPar, GotDataType,
         GotDataSize, GotData, GotDrain, GotSink, Ready
  <2>2. pc' # "write"
    BY <1>11 DEF Looking, GotType, GotCmd, GotSize, CheckFails, GotValue, GotPar, GotDataType,
         GotDataSize, GotData, GotDrain, GotSink, Throw, Await, Return
  <2> QED BY <2>1, <2>2, FateStays DEF Quiet, usb, history, InCall
<1>12. CASE UserFlush
  BY <1>1, <1>12, UserFlushFate
<1>13. CASE Clear
  BY <1>1, <1>13, ClearFate
<1>14. CASE Open
  BY <1>1, <1>14, OpenFate
<1>15. CASE Close
  BY <1>15, FateStays DEF Close, InCall
<1>16. CASE Execute
  BY <1>1, <1>16, ExecuteFate
<1>17. CASE Discard
  BY <1>1, <1>17, DiscardFate
<1>18. CASE Arrive \/ UNCHANGED vars
  <2>1. UNCHANGED <<tx, wbuf, log, exec, lost, pc, wpos>>
    BY <1>18 DEF Arrive, vars, host, usb, history
  <2> QED BY <2>1, PipeSame, FateSame DEF InCall
<1> QED BY <1>2, <1>3, <1>4, <1>5, <1>6, <1>7, <1>8, <1>9, <1>10, <1>11, <1>12, <1>13, <1>14,
           <1>15, <1>16, <1>17, <1>18 DEF Next, Stub, User, Board, Looking

\* The parts of the invariant that Fate rests on, with it.
LEMMA FateHolds == Spec => [](HostOK /\ LinkOK /\ Framing /\ Executions /\ Answered /\ Fate)
BY InitType, StepType, OrderInit, OrderStep, PairingInit, PairingStep, FateInit, FateStep, PTL
   DEF Spec

\* Every call made is executed, is dropped, or still has all its bytes under way:
\* m_bufferW and its flush in the middle of a request lose and repeat nothing.
THEOREM NoCallForgotten == Spec => []NothingForgotten
<1>1. Fate => NothingForgotten
  BY DEF Fate
<1> QED BY FateHolds, <1>1, PTL

-----------------------------------------------------------------------------
(* The barrier. *)

Settled == ret.call \in 0 .. Cur /\ Barrier

\* A stub that has read its answer on a clean link: the call is executed, and
\* so the calls before it are not under way any more.
LEMMA AllSettled ==
    ASSUME Placed, Answered, Fate, clean, pc = "read", field # "type"
    PROVE  1 .. Cur \subseteq Executed \cup lost
<1>1. /\ HostOK /\ LinkOK /\ Executions /\ wbuf = <<>> /\ Cur \notin lost
      /\ \A i \in DOMAIN tx : tx[i].call # Cur
  BY DEF Placed, Answered, Clean, NotYet, Fate, InCall
<1>2. Cur \in Nat /\ Cur \in 1 .. Cur
  BY <1>1, CallIs DEF InCall
<1>3. ASSUME NEW n \in 1 .. Cur, n \notin Executed \cup lost
      PROVE  \E i \in DOMAIN Pipe : i \in DOMAIN tx /\ tx[i] = Pipe[i] /\ Pipe[i].call = n
  <2> DEFINE k == Written(n)
  <2>1. InTransit(n)
    BY <1>3 DEF Fate, NothingForgotten
  <2>2. PICK i \in 0 .. Len(Pipe) - k : Lies(n, i, k)
    BY <2>1, TransitIs
  <2>3. k \in Nat \ {0}
    BY <1>1, RequestOf DEF Written
  <2>4. /\ DOMAIN Pipe = 1 .. Len(Pipe) /\ Len(Pipe) = Len(tx) + Len(wbuf) /\ Len(tx) \in Nat
        /\ DOMAIN tx = 1 .. Len(tx) /\ \A j \in 1 .. Len(tx) : Pipe[j] = tx[j]
    BY <1>1, PipeIs, LenProperties DEF LinkOK
  <2>5. Len(wbuf) = 0
    BY <1>1, EmptySeq
  <2> HIDE DEF k
  <2>6. i + 1 \in DOMAIN Pipe /\ i + 1 \in 1 .. Len(tx) /\ 1 \in 1 .. k
    BY <2>2, <2>3, <2>4, <2>5
  <2>7. Pipe[i + 1] = [call |-> n, at |-> 1]
    BY <2>2, <2>6 DEF Lies
  <2> QED BY <2>4, <2>6, <2>7
<1>4. PICK e \in DOMAIN exec : exec[e] = Cur
  BY <1>1, <1>2, <1>3 DEF Executed
<1>5. ASSUME NEW n \in 1 .. Cur, n \notin Executed \cup lost PROVE FALSE
  <2>1. PICK i \in DOMAIN Pipe : Pipe[i].call = n
    BY <1>3, <1>5
  <2>2. Cur < n
    BY <1>1, <1>4, <2>1 DEF Executions, Ahead
  <2> QED BY <1>2, <2>2
<1> QED BY <1>5

\* What is executed or dropped stays so, and the calls made stay in the log.
Grows == /\ Executed \cup lost \subseteq Executed' \cup lost'
         /\ log' = log \/ \E c : log' = Append(log, c)

LEMMA Growing == LinkOK /\ [Next]_vars => Grows
<1> SUFFICES ASSUME LinkOK, [Next]_vars PROVE Grows
  OBVIOUS
<1>1. exec' = exec \/ \E n : exec' = Append(exec, n)
  BY DEF Next, Stub, User, Board, Client, UserFlush, Clear, Close, Open, Execute, Discard, Arrive,
         CreateKnown, CreateLookup, Create, NoSuchCall, WriteByte, WriteFull, WriteClosed,
         ReturnVoid, Flush, FlushFails, CopyBytes, FillBuffer, ShortRead, ReadFails, GotType,
         GotCmd, GotSize, CheckFails, GotValue, GotPar, GotDataType, GotDataSize, GotData,
         GotDrain, GotSink, Quiet, history, vars
<1>2. lost \subseteq lost'
  BY DEF Next, Stub, User, Board, Client, UserFlush, Clear, Close, Open, Execute, Discard, Arrive,
         CreateKnown, CreateLookup, Create, NoSuchCall, WriteByte, WriteFull, WriteClosed,
         ReturnVoid, Flush, FlushFails, CopyBytes, FillBuffer, ShortRead, ReadFails, GotType,
         GotCmd, GotSize, CheckFails, GotValue, GotPar, GotDataType, GotDataSize, GotData,
         GotDrain, GotSink, Quiet, history, vars
<1>3. log' = log \/ \E c : log' = Append(log, c)
  BY DEF Next, Stub, User, Board, Client, UserFlush, Clear, Close, Open, Execute, Discard, Arrive,
         CreateKnown, CreateLookup, Create, NoSuchCall, WriteByte, WriteFull, WriteClosed,
         ReturnVoid, Flush, FlushFails, CopyBytes, FillBuffer, ShortRead, ReadFails, GotType,
         GotCmd, GotSize, CheckFails, GotValue, GotPar, GotDataType, GotDataSize, GotData,
         GotDrain, GotSink, Quiet, history, vars
<1>4. Executed \subseteq Executed'
  <2>1. ASSUME NEW n, exec' = Append(exec, n)
        PROVE  \A i \in DOMAIN exec : i \in DOMAIN exec' /\ exec'[i] = exec[i]
    <3>1. exec \in Seq(Nat) /\ DOMAIN exec = 1 .. Len(exec) /\ Len(exec) \in Nat
      BY LenProperties DEF LinkOK
    <3>2. DOMAIN exec' = 1 .. Len(exec) + 1 /\ \A i \in 1 .. Len(exec) : exec'[i] = exec[i]
      BY <2>1, <3>1
    <3> QED BY <3>1, <3>2
  <2>2. \A i \in DOMAIN exec : i \in DOMAIN exec' /\ exec'[i] = exec[i]
    BY <1>1, <2>1
  <2> QED BY <2>2 DEF Executed
<1> QED BY <1>2, <1>3, <1>4 DEF Grows

\* The reply stays as it is, or it is one that says nothing of the calls before.
LEMMA ReplyKept ==
    ASSUME LinkOK, LinkOK', Grows, Settled,
           \/ ret' = ret
           \/ log' = log /\ ret'.call \in 0 .. Cur
                 /\ (ret'.out # "ok" \/ ~ret'.sure \/ ~HasAnswer(log[ret'.call].fn)
                      \/ 1 .. Cur \subseteq Executed \cup lost)
    PROVE  Settled'
<1>1. Cur \in Nat /\ log \in Seq(CallRecord) /\ Cur = Len(log)
  BY LenProperties DEF LinkOK, Cur
<1>2. /\ 0 .. Cur \subseteq 0 .. Cur'
      /\ \A n \in 1 .. Cur : log'[n] = log[n]
  <2>1. CASE log' = log
    BY <2>1, SameLog
  <2>2. ASSUME NEW c, log' = Append(log, c)
        PROVE  /\ 0 .. Cur \subseteq 0 .. Cur'
               /\ \A n \in 1 .. Cur : log'[n] = log[n]
    <3>1. Len(log') = Len(log) + 1 /\ \A n \in 1 .. Len(log) : log'[n] = log[n]
      BY <1>1, <2>2
    <3>2. Cur' = Cur + 1
      BY <1>1, <3>1 DEF Cur
    <3> QED BY <1>1, <3>1, <3>2
  <2> QED BY <2>1, <2>2 DEF Grows
<1>3. CASE ret' = ret
  <2>1. ret.call > 0 => ret.call \in 1 .. Cur
    BY <1>1 DEF Settled
  <2> QED BY <1>2, <1>3, <2>1 DEF Settled, Barrier, Grows
<1>4. CASE /\ log' = log /\ ret'.call \in 0 .. Cur
           /\ (ret'.out # "ok" \/ ~ret'.sure \/ ~HasAnswer(log[ret'.call].fn)
                \/ 1 .. Cur \subseteq Executed \cup lost)
  <2>1. 1 .. ret'.call \subseteq 1 .. Cur
    BY <1>1, <1>4
  <2> QED BY <1>2, <1>4, <2>1 DEF Settled, Barrier, Grows
<1> QED BY <1>3, <1>4

LEMMA SettledStep == Placed /\ Answered /\ Fate /\ Settled /\ [Next]_vars => Settled'
<1> SUFFICES ASSUME Placed, Answered, Fate, Settled, [Next]_vars PROVE Settled'
  OBVIOUS
<1>1. HostOK /\ LinkOK /\ LinkOK' /\ Grows /\ Cur \in Nat /\ Cur \in 0 .. Cur
  <2>1. HostOK /\ LinkOK /\ LinkOK' /\ Grows
    BY StepType, Growing DEF Placed
  <2>2. Cur \in Nat
    BY <2>1, HdrIs
  <2> QED BY <2>1, <2>2
<1>2. CASE ret' = ret
  BY <1>1, <1>2, ReplyKept
<1>3. ASSUME NEW e, Throw(e), e # "ok", log' = log PROVE Settled'
  <2>1. ret'.call = Cur /\ ret'.out # "ok"
    BY <1>3 DEF Throw
  <2> QED BY <1>1, <1>3, <2>1, ReplyKept
<1>4. CASE NoSuchCall \/ WriteClosed \/ FlushFails \/ ReadFails
  BY <1>3, <1>4 DEF NoSuchCall, WriteClosed, FlushFails, ReadFails, history
<1>5. CASE ReturnVoid
  <2>1. ret'.call = Cur /\ log' = log /\ ~HasAnswer(log[Cur].fn)
    BY <1>5 DEF ReturnVoid, Return, history, Call
  <2> QED BY <1>1, <2>1, ReplyKept
<1>6. CASE GotValue \/ GotData
  <2>1. ret'.call = Cur /\ ret'.sure = clean /\ log' = log /\ pc = "read" /\ field # "type"
    BY <1>6 DEF GotValue, GotData, Return, Ready, Quiet, history
  <2>2. clean => 1 .. Cur \subseteq Executed \cup lost
    BY <2>1, AllSettled
  <2> QED BY <1>1, <2>1, <2>2, ReplyKept
<1>7. CASE GotType \/ GotDataType \/ GotDataSize \/ CheckFails \/ GotSink
  <2>1. ret' = ret \/ \E e : e # "ok" /\ Throw(e)
    BY <1>1, <1>7, HdrIs DEF GotType, GotDataType, GotDataSize, CheckFails, GotSink, Await
  <2>2. log' = log
    BY <1>7 DEF GotType, GotDataType, GotDataSize, CheckFails, GotSink, Quiet, history
  <2> QED BY <1>2, <1>3, <2>1, <2>2
<1>8. CASE \/ CreateKnown \/ CreateLookup \/ WriteByte \/ WriteFull \/ Flush
           \/ CopyBytes \/ FillBuffer \/ ShortRead
           \/ GotCmd \/ GotSize \/ GotPar \/ GotDrain
  BY <1>2, <1>8 DEF CreateKnown, CreateLookup, Create, WriteByte, WriteFull, Flush, CopyBytes,
                    FillBuffer, ShortRead, GotCmd, GotSize, GotPar, GotDrain, Await, host
<1>9. CASE User \/ Board \/ UNCHANGED vars
  BY <1>2, <1>9 DEF User, Board, Client, UserFlush, Clear, Close, Open, Execute, Discard, Arrive,
                    host, vars
<1> QED BY <1>4, <1>5, <1>6, <1>7, <1>8, <1>9 DEF Next, Stub

LEMMA SettledInit == Init => Settled
<1> SUFFICES ASSUME Init PROVE Settled
  OBVIOUS
<1>1. Cur = 0 /\ ret.call = 0 /\ ret.out # "ok"
  BY DEF Init, Cur
<1> QED BY <1>1 DEF Settled, Barrier

\* When a call has returned an answer, every call made before it is executed (or
\* was dropped), although void stubs leave their requests in m_bufferW.
THEOREM AnswerIsBarrier == Spec => []Barrier
<1>1. Settled => Barrier
  BY DEF Settled
<1>2. HostOK /\ LinkOK /\ Framing /\ Executions /\ Answered /\ Fate /\ Settled /\ [Next]_vars
        => Settled'
  BY SettledStep DEF Placed
<1> QED BY FateHolds, SettledInit, <1>1, <1>2, PTL DEF Spec

-----------------------------------------------------------------------------
(* What a step of UsbRpc does to the calls, their executions, the reply and  *)
(* the trust in it is a step the service allows.                             *)

\* What all the invariants say, taken together.
Sound == Placed /\ Answered /\ Fate

Made == [n \in DOMAIN log |-> log[n].fn]
Reply == [call |-> ret.call, out |-> ret.out, src |-> ret.src]

LEMMA SoundHolds == Spec => []Sound
<1>1. HostOK /\ LinkOK /\ Framing /\ Executions /\ Answered /\ Fate => Sound
  BY DEF Sound, Placed
<1> QED BY FateHolds, <1>1, PTL

MadeRight == /\ Made \in Seq(Fn) /\ Len(Made) = Cur /\ Cur \in Nat
             /\ \A n \in 1 .. Cur : Made[n] = log[n].fn

LEMMA MadeIs == LinkOK => MadeRight
<1> SUFFICES ASSUME LinkOK PROVE MadeRight
  OBVIOUS
<1>1. log \in Seq(CallRecord) /\ DOMAIN log = 1 .. Cur /\ Cur \in Nat
  BY LenProperties DEF LinkOK, Cur
<1>2. \A n \in 1 .. Cur : Made[n] = log[n].fn /\ log[n].fn \in Fn
  <2> TAKE n \in 1 .. Cur
  <2>1. log[n].fn \in Fn
    BY RequestOf
  <2> QED BY <1>1, <2>1 DEF Made
<1>3. Made \in [1 .. Cur -> Fn]
  BY <1>1, <1>2 DEF Made
<1> QED BY <1>1, <1>2, <1>3, LenProperties DEF MadeRight

-----------------------------------------------------------------------------
(* Steps the service does not see. *)

LEMMA Unseen ==
    ASSUME UNCHANGED <<log, exec, lost, clean, ret>>, InCall' = InCall
    PROVE  UNCHANGED Service!vars
BY DEF Service!vars, Executed, InCall

LEMMA StubUnseen ==
    ASSUME \/ WriteByte \/ WriteFull \/ Flush \/ CopyBytes \/ FillBuffer
           \/ GotCmd \/ GotSize \/ GotPar \/ GotDrain
    PROVE  UNCHANGED Service!vars
<1>1. UNCHANGED <<log, exec, lost, clean, ret>>
  BY DEF WriteByte, WriteFull, Flush, CopyBytes, FillBuffer, GotCmd, GotSize, GotPar, GotDrain,
         Await, Quiet, host, history
<1>2. InCall /\ InCall'
  BY DEF WriteByte, WriteFull, Flush, CopyBytes, FillBuffer, GotCmd, GotSize, GotPar, GotDrain,
         Await, Reading, Ready, host, InCall
<1> QED BY <1>1, <1>2, Unseen

LEMMA OthersUnseen ==
    ASSUME (\E f \in Fn : Client(f)) \/ Close \/ Discard \/ Arrive \/ UNCHANGED vars
    PROVE  UNCHANGED Service!vars
<1>1. UNCHANGED <<log, exec, lost, clean, ret>>
  BY DEF Client, Close, Discard, Arrive, vars, host, history
<1>2. InCall' = InCall
  BY DEF Client, Close, Discard, Arrive, vars, host, InCall
<1> QED BY <1>1, <1>2, Unseen

-----------------------------------------------------------------------------
(* Calls are made and end. *)

LEMMA CreateMakes ==
    ASSUME LinkOK, LinkOK', NEW f \in Fn, pc = "getid", Create(f)
    PROVE  Service!Make
<1>1. /\ log' = Append(log, [fn |-> f, as |-> cmdId[f], arg |-> fn]) /\ ~InCall /\ InCall'
      /\ UNCHANGED <<exec, lost, clean, ret>>
  BY DEF Create, InCall
<1>2. /\ Made \in Seq(Fn) /\ Len(Made) = Cur /\ Cur \in Nat
      /\ \A n \in 1 .. Cur : Made[n] = log[n].fn
  BY MadeIs DEF MadeRight
<1>3. /\ Made' \in Seq(Fn) /\ Len(Made') = Cur' /\ Cur' \in Nat
      /\ \A n \in 1 .. Cur' : Made'[n] = log'[n].fn
  <2>1. MadeRight'
    BY MadeIs, PTL
  <2> QED BY <2>1 DEF MadeRight
<1>4. /\ Cur' = Cur + 1 /\ log'[Cur + 1].fn = f
      /\ \A n \in 1 .. Cur : log'[n] = log[n]
  <2>1. log \in Seq(CallRecord) /\ Cur = Len(log) /\ Cur \in Nat
    BY LenProperties DEF LinkOK, Cur
  <2>2. /\ Len(log') = Len(log) + 1 /\ log'[Len(log) + 1] = [fn |-> f, as |-> cmdId[f], arg |-> fn]
        /\ \A n \in 1 .. Len(log) : log'[n] = log[n]
    BY <1>1, <2>1
  <2> QED BY <2>1, <2>2 DEF Cur
<1>5. Made' = Append(Made, f)
  <2>1. /\ Append(Made, f) \in Seq(Fn) /\ Len(Append(Made, f)) = Cur + 1
        /\ Append(Made, f)[Cur + 1] = f
        /\ \A n \in 1 .. Cur : Append(Made, f)[n] = Made[n]
    BY <1>2, AppendProperties
  <2>2. ASSUME NEW n \in 1 .. Cur + 1 PROVE Made'[n] = Append(Made, f)[n]
    <3>1. CASE n = Cur + 1
      BY <1>2, <1>3, <1>4, <2>1, <3>1
    <3>2. CASE n \in 1 .. Cur
      BY <1>2, <1>3, <1>4, <2>1, <3>2
    <3> QED BY <1>2, <3>1, <3>2
  <2> QED BY <1>2, <1>3, <1>4, <2>1, <2>2, SeqEqual
<1> QED BY <1>1, <1>5 DEF Service!Make, Made, Executed, InCall

LEMMA ThrowFails ==
    ASSUME NEW e, e # "ok", Throw(e), InCall, UNCHANGED <<log, exec>>, lost \subseteq lost',
           Fate', clean' => clean, LinkOK
    PROVE  Service!Failed
<1>1. Reply'.call = Cur /\ Reply'.out # "ok" /\ ~InCall'
  BY DEF Throw, Reply, InCall
<1>2. Executed' = Executed /\ Executed \cap lost' = {}
  BY DEF Executed, Fate, NothingForgotten
<1>3. Service!Last = Cur
  BY MadeIs DEF MadeRight, Made, Service!Last
<1> QED BY <1>1, <1>2, <1>3 DEF Service!Failed, Reply, InCall

LEMMA ReturnAnswers ==
    ASSUME NEW src, NEW id, Return(src, id), Quiet, InCall, LinkOK, clean => src = Cur,
           clean /\ HasAnswer(Call.fn) => 1 .. Cur \subseteq Executed \cup lost, Cur \in 1 .. Cur
    PROVE  Service!Answered
<1>1. /\ Reply' = [call |-> Cur, out |-> "ok", src |-> src]
      /\ ~InCall' /\ UNCHANGED <<log, exec, lost, clean>>
  BY DEF Return, Reply, InCall, Quiet, history
<1>2. Service!Last = Cur /\ Executed' = Executed
  BY <1>1, MadeIs DEF MadeRight, Made, Service!Last, Executed
<1>3. Made[Cur] = Call.fn
  BY MadeIs DEF MadeRight, Call
<1>4. clean /\ Made[Cur] \in {f \in Fn : HasAnswer(f)} => \A n \in 1 .. Cur : n \in Executed \cup lost
  BY <1>3
<1> QED BY <1>1, <1>2, <1>4 DEF Service!Answered, Service!Done, Reply, InCall, Made

LEMMA GotAnswers ==
    ASSUME Sound, Sound', GotValue \/ GotData
    PROVE  Service!Answered
<1>1. HostOK /\ LinkOK /\ InCall /\ Quiet /\ pc = "read" /\ field # "type"
  BY DEF Sound, Placed, GotValue, GotData, Ready, InCall
<1>2. PICK src, id : Return(src, id)
  BY DEF GotValue, GotData
<1>3. clean => src = Cur
  <2>1. Paired'
    BY DEF Sound, Answered
  <2> QED BY <1>2, <2>1 DEF Paired, Return
<1>4. clean => 1 .. Cur \subseteq Executed \cup lost
  BY <1>1, AllSettled DEF Sound
<1>5. Cur \in 1 .. Cur
  BY <1>1, CallIs
<1> QED BY <1>1, <1>2, <1>3, <1>4, <1>5, ReturnAnswers

LEMMA VoidAnswers ==
    ASSUME Sound, ReturnVoid
    PROVE  Service!Answered
<1>1. HostOK /\ LinkOK /\ InCall /\ Quiet /\ ~HasAnswer(Call.fn) /\ Return(Cur, NoId)
  BY DEF Sound, Placed, ReturnVoid, InCall, Quiet
<1>2. Cur \in 1 .. Cur
  BY <1>1, CallIs
<1> QED BY <1>1, <1>2, ReturnAnswers

LEMMA StubFails ==
    ASSUME Sound, Sound', WriteClosed \/ FlushFails \/ ReadFails
    PROVE  Service!Failed
<1>1. /\ LinkOK /\ InCall /\ Fate' /\ UNCHANGED <<log, exec>> /\ lost \subseteq lost'
      /\ clean' => clean
  BY DEF Sound, Placed, WriteClosed, FlushFails, ReadFails, Reading, InCall
<1>2. \E e : e # "ok" /\ Throw(e)
  BY DEF WriteClosed, FlushFails, ReadFails
<1> QED BY <1>1, <1>2, ThrowFails

\* A stub looks at what it has read: it ends or goes on.
LEMMA LookingServes ==
    ASSUME Sound, Sound', Looking
    PROVE  Service!Answered \/ Service!Failed \/ UNCHANGED Service!vars
<1>1. HostOK /\ LinkOK /\ Fate' /\ Looked
  BY LookingIs DEF Sound, Placed
<1>2. UNCHANGED <<log, exec, lost, clean>> /\ InCall /\ pc = "read"
  BY <1>1 DEF Looked, Quiet, history
<1>3. ASSUME NEW e, e # "ok", Throw(e) PROVE Service!Failed
  BY <1>1, <1>2, <1>3, ThrowFails
<1>4. ASSUME NEW f, NEW n, NEW h, Await(f, n, h) PROVE UNCHANGED Service!vars
  <2>1. UNCHANGED ret /\ InCall'
    BY <1>4 DEF Await, InCall
  <2> QED BY <1>2, <2>1, Unseen
<1>5. CASE GotValue \/ GotData
  BY <1>5, GotAnswers
<1>6. CASE GotType \/ GotDataType \/ GotDataSize
  <2>1. (\E e : e # "ok" /\ Throw(e)) \/ \E f, n, h : Await(f, n, h)
    BY <1>6 DEF GotType, GotDataType, GotDataSize
  <2> QED BY <1>3, <1>4, <2>1
<1>7. CASE CheckFails \/ GotSink
  <2>1. \E e : e # "ok" /\ Throw(e)
    BY <1>1, <1>7, HdrIs DEF CheckFails, GotSink
  <2> QED BY <1>3, <2>1
<1>8. CASE GotCmd \/ GotSize \/ GotPar \/ GotDrain
  BY <1>8, StubUnseen
<1> QED BY <1>5, <1>6, <1>7, <1>8 DEF Looking

LEMMA NoCallRefused ==
    ASSUME Sound, NoSuchCall
    PROVE  Service!Refused
<1>1. /\ Reply'.call = Cur /\ Reply'.out # "ok" /\ ~InCall /\ ~InCall'
      /\ UNCHANGED <<log, exec, lost, clean>>
  BY DEF NoSuchCall, Throw, Reply, InCall, history
<1>2. Service!Last = Cur
  BY MadeIs DEF MadeRight, Made, Service!Last, Sound, Placed
<1> QED BY <1>1, <1>2 DEF Service!Refused, Reply, InCall, Executed

LEMMA ShortReadDistrusted == ASSUME ShortRead PROVE Service!Distrust
BY DEF ShortRead, Reading, Service!Distrust, Executed

-----------------------------------------------------------------------------
(* Between the calls. *)

\* On a clean link no call that answers is under way.
IdleDone ==
    ~InCall /\ clean => \A n \in 1 .. Cur : HasAnswer(log[n].fn) => n \in Executed \cup lost

LEMMA SoundIdle == Sound => IdleDone
<1> SUFFICES ASSUME Sound, ~InCall, clean, NEW n \in 1 .. Cur, HasAnswer(log[n].fn),
                    n \notin Executed \cup lost
             PROVE  FALSE
  BY DEF IdleDone
<1>1. HostOK /\ LinkOK /\ Sent(Pipe)
  BY DEF Sound, Placed, Answered, Clean
<1> DEFINE k == Written(n)
<1>2. k \in Nat \ {0}
  BY <1>1, RequestOf DEF Written, InCall
<1>3. PICK i \in 0 .. Len(Pipe) - k : Lies(n, i, k)
  BY TransitIs DEF Sound, Fate, NothingForgotten
<1> HIDE DEF k
<1>4. i + 1 \in DOMAIN Pipe /\ 1 \in 1 .. k
  <2>1. DOMAIN Pipe = 1 .. Len(Pipe) /\ Len(Pipe) \in Nat
    BY <1>1, PipeIs
  <2> QED BY <1>2, <1>3, <2>1
<1>5. Pipe[i + 1] = [call |-> n, at |-> 1]
  BY <1>3, <1>4 DEF Lies
<1>6. Pipe[i + 1].call = n
  BY <1>5
<1> QED BY <1>1, <1>4, <1>6 DEF Sent

LEMMA UserResets ==
    ASSUME Sound, Sound', UserFlush \/ Clear \/ Open
    PROVE  Service!Reset
<1>1. /\ UNCHANGED <<log, exec, ret>> /\ ~InCall /\ ~InCall' /\ lost \subseteq lost'
      /\ Fate' /\ LinkOK
  BY DEF UserFlush, Clear, Open, host, InCall, Sound, Placed
<1>2. Executed' = Executed /\ Executed \cap lost' = {} /\ Cur' = Cur
  BY <1>1, SameLog DEF Executed, Fate, NothingForgotten
<1>3. IdleDone'
  BY SoundIdle, PTL
<1>4. clean' => \A n \in 1 .. Cur : HasAnswer(log[n].fn) => n \in Executed \cup lost'
  BY <1>1, <1>2, <1>3 DEF IdleDone
<1>5. /\ Service!Last = Cur
      /\ \A n \in 1 .. Cur : Made[n] \in {f \in Fn : HasAnswer(f)} => HasAnswer(log[n].fn)
  BY <1>1, MadeIs DEF MadeRight, Made, Service!Last
<1> QED BY <1>1, <1>2, <1>4, <1>5 DEF Service!Reset, InCall, Made

LEMMA ExecuteServes ==
    ASSUME Sound, Sound', Execute
    PROVE  Service!Execute
<1> DEFINE n == tx[1].call
<1>1. /\ LinkOK /\ LinkOK' /\ exec' = Append(exec, n) /\ tx # <<>> /\ Fate'
      /\ UNCHANGED <<log, lost, clean, ret, pc>>
  BY DEF Execute, Sound, Placed, host
<1>2. n \in 1 .. Cur
  BY <1>1, FirstOfTx DEF Sound, Placed
<1>3. 1 \in DOMAIN Pipe /\ Pipe[1] = tx[1]
  <2>1. /\ DOMAIN Pipe = 1 .. Len(Pipe) /\ Len(Pipe) = Len(tx) + Len(wbuf)
        /\ Len(tx) \in Nat /\ Len(wbuf) \in Nat /\ tx \in Seq(Byte)
        /\ \A i \in 1 .. Len(tx) : Pipe[i] = tx[i]
    BY <1>1, PipeIs DEF LinkOK
  <2>2. Len(tx) # 0
    BY <1>1, <2>1, EmptySeq
  <2> QED BY <2>1, <2>2
<1>4. \A m \in Executed : m < n
  BY <1>3 DEF Sound, Placed, Executions, Ahead, Executed
<1> HIDE DEF n
<1>5. Executed' = Executed \cup {n}
  <2>1. /\ exec \in Seq(Nat) /\ DOMAIN exec = 1 .. Len(exec) /\ Len(exec) \in Nat
        /\ DOMAIN exec' = 1 .. Len(exec) + 1 /\ exec'[Len(exec) + 1] = n
        /\ \A i \in 1 .. Len(exec) : exec'[i] = exec[i]
    BY <1>1, <1>2, AppendProperties, LenProperties DEF LinkOK
  <2>2. \A i \in DOMAIN exec' : i \in DOMAIN exec \/ i = Len(exec) + 1
    BY <2>1
  <2>3. Len(exec) + 1 \in DOMAIN exec' /\ \A i \in DOMAIN exec : i \in DOMAIN exec'
    BY <2>1
  <2> QED BY <2>1, <2>2, <2>3 DEF Executed
<1>6. n \notin Executed /\ n \notin lost
  <2>1. n \in Nat
    BY <1>1, <1>2, RequestOf
  <2>2. Executed' \cap lost' = {}
    BY <1>1 DEF Fate, NothingForgotten
  <2> QED BY <1>1, <1>4, <1>5, <2>1, <2>2
<1>7. Service!Last = Cur
  BY <1>1, MadeIs DEF MadeRight, Made, Service!Last
<1> QED BY <1>1, <1>2, <1>4, <1>5, <1>6, <1>7 DEF Service!Execute, Service!Done

-----------------------------------------------------------------------------
(* All steps together. *)

LEMMA ServiceInit == Init => Service!Init
<1> SUFFICES ASSUME Init PROVE Service!Init
  OBVIOUS
<1>1. Made = <<>>
  <2>1. Cur = 0 /\ LinkOK
    BY InitType DEF Init, Cur
  <2>2. Made \in Seq(Fn) /\ Len(Made) = 0
    BY <2>1, MadeIs DEF MadeRight
  <2> QED BY <2>2, EmptySeq
<1>2. Executed = {}
  BY DEF Init, Executed
<1> QED BY <1>1, <1>2 DEF Init, Service!Init, Made

LEMMA ServiceStep == Sound /\ Sound' /\ [Next]_vars => [Service!Next]_(Service!vars)
<1> SUFFICES ASSUME Sound, Sound', [Next]_vars PROVE Service!Next \/ UNCHANGED Service!vars
  OBVIOUS
<1>1. LinkOK /\ LinkOK' /\ HostOK
  BY DEF Sound, Placed
<1>2. CASE CreateKnown
  <2>1. Service!Make
    BY <1>1, <1>2, CreateMakes DEF CreateKnown, HostOK
  <2> QED BY <2>1 DEF Service!Next
<1>3. CASE CreateLookup
  <2>1. Service!Make
    BY <1>1, <1>3, CreateMakes, FnAssumption DEF CreateLookup
  <2> QED BY <2>1 DEF Service!Next
<1>4. CASE NoSuchCall
  BY <1>4, NoCallRefused DEF Service!Next
<1>5. CASE WriteClosed \/ FlushFails \/ ReadFails
  BY <1>5, StubFails DEF Service!Next
<1>6. CASE ReturnVoid
  BY <1>6, VoidAnswers DEF Service!Next
<1>7. CASE Looking
  BY <1>7, LookingServes DEF Service!Next
<1>8. CASE ShortRead
  BY <1>8, ShortReadDistrusted DEF Service!Next
<1>9. CASE UserFlush \/ Clear \/ Open
  BY <1>9, UserResets DEF Service!Next
<1>10. CASE Execute
  BY <1>10, ExecuteServes DEF Service!Next
<1>11. CASE WriteByte \/ WriteFull \/ Flush \/ CopyBytes \/ FillBuffer
  BY <1>11, StubUnseen
<1>12. CASE (\E f \in Fn : Client(f)) \/ Close \/ Discard \/ Arrive \/ UNCHANGED vars
  BY <1>12, OthersUnseen
<1> QED BY <1>2, <1>3, <1>4, <1>5, <1>6, <1>7, <1>8, <1>9, <1>10, <1>11, <1>12
        DEF Next, Stub, User, Board, Looking

\* The link implements the service: whatever the buffers, the messages and the
\* failures do, the client sees calls executed in their order and at most once,
\* answers it may trust, and none trusted again before the link is quiet.
THEOREM LinkServes == Spec => ServiceSpec
BY SoundHolds, ServiceInit, ServiceStep, PTL DEF Spec, ServiceSpec, Service!Spec
=============================================================================
