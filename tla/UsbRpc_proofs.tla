-------------------------- MODULE UsbRpc_proofs --------------------------
(***************************************************************************)
(* The types, the link and the boundaries of messages (UsbRpcInv) are      *)
(* invariants of UsbRpc, for every table of calls, every size of the       *)
(* buffers and any number of calls and failures.                           *)
(***************************************************************************)
EXTENDS UsbRpcInv, SequenceTheorems, TLAPS

-----------------------------------------------------------------------------
(* Sequences of bytes. *)

\* The bytes after the first n of a sequence.
LEMMA DropFacts ==
    ASSUME NEW s \in Seq(Byte), NEW n \in 0 .. Len(s)
    PROVE  /\ Drop(s, n) \in Seq(Byte)
           /\ Len(Drop(s, n)) = Len(s) - n
           /\ \A i \in 1 .. Len(s) - n : Drop(s, n)[i] = s[n + i]
<1>1. CASE n = Len(s)
  BY <1>1, SubSeqProperties DEF Drop
<1>2. CASE n < Len(s)
  BY <1>2, SubSeqProperties DEF Drop
<1> QED BY <1>1, <1>2

\* The first n bytes of a sequence.
LEMMA PrefixFacts ==
    ASSUME NEW s \in Seq(Byte), NEW n \in 0 .. Len(s)
    PROVE  /\ SubSeq(s, 1, n) \in Seq(Byte)
           /\ Len(SubSeq(s, 1, n)) = n
           /\ \A i \in 1 .. n : SubSeq(s, 1, n)[i] = s[i]
BY SubSeqProperties

\* One sequence behind another.
LEMMA ConcatFacts ==
    ASSUME NEW s \in Seq(Byte), NEW t \in Seq(Byte)
    PROVE  /\ s \o t \in Seq(Byte)
           /\ Len(s \o t) = Len(s) + Len(t)
           /\ \A i \in 1 .. Len(s) : (s \o t)[i] = s[i]
           /\ \A i \in 1 .. Len(t) : (s \o t)[Len(s) + i] = t[i]
           /\ \A i \in 1 .. Len(s) + Len(t) :
                 \/ i \in 1 .. Len(s) /\ (s \o t)[i] = s[i]
                 \/ i - Len(s) \in 1 .. Len(t) /\ (s \o t)[i] = t[i - Len(s)]
BY ConcatProperties

-----------------------------------------------------------------------------
(* TypeOK and Bytes, in two parts: what the stub keeps, and the rest. *)

Headers == [cmd : Ids, size : Nat, src : Nat, err : Outcomes \ {"ok"}]

HostOK ==
    /\ cmdId \in [Fn -> Ids]
    /\ pc \in {"idle", "getid", "noid", "write", "read"}
    /\ fn \in Fn /\ wpos \in Nat
    /\ field \in Fields /\ need \in Nat /\ got \in Seq(Byte)
    /\ hdr \in Headers
    /\ ret \in [call : Nat, out : Outcomes, src : Nat, sure : BOOLEAN]
    /\ InCall => Cur > 0
    /\ FromBoard(got) /\ hdr.src \in 0 .. Cur
    /\ field \in {"type", "cmd", "size", "dtype", "dsize", "drain"} => need > 0 \/ got # <<>>
    /\ pc = "write" => wpos <= ReqBytes[Call.fn]

LinkOK ==
    /\ open \in BOOLEAN /\ wbuf \in Seq(Byte) /\ up \in Seq(Byte) /\ tx \in Seq(Byte)
    /\ nbuf \in Nat /\ nrx \in Nat /\ nbuf + nrx <= Len(up)
    /\ Len(wbuf) <= WCap /\ nbuf <= RCap
    /\ log \in Seq(CallRecord) /\ exec \in Seq(Nat) /\ lost \subseteq Nat
    /\ clean \in BOOLEAN /\ whole \in BOOLEAN
    /\ failed \in Nat
    /\ Known(tx) /\ Known(wbuf) /\ FromBoard(up)

\* The two parts are the whole.
LEMMA Parts == /\ TypeOK /\ Bytes <=> HostOK /\ LinkOK
               /\ (TypeOK /\ Bytes)' <=> HostOK' /\ LinkOK'
BY DEF TypeOK, Bytes, HostOK, LinkOK, Headers

LEMMA InitType == Init => HostOK /\ LinkOK
<1> SUFFICES ASSUME Init PROVE HostOK /\ LinkOK
  OBVIOUS
<1> USE DEF Init
<1>1. NoId \in Ids /\ Lookup \in Fn /\ Fixed \subseteq Fn
  BY FnAssumption DEF Ids
<1>2. cmdId \in [Fn -> Ids]
  BY <1>1 DEF Cleared, Ids
<1>3. /\ <<>> \in Seq(Byte) /\ <<>> \in Seq(CallRecord) /\ <<>> \in Seq(Nat)
      /\ Len(<<>>) = 0
  BY EmptySeq
<1>4. hdr \in Headers
  BY <1>1 DEF NoHdr, Headers, Outcomes
<1>5. ret \in [call : Nat, out : Outcomes, src : Nat, sure : BOOLEAN]
  BY DEF Outcomes
<1>6. Known(tx) /\ Known(wbuf) /\ FromBoard(up) /\ FromBoard(got)
  BY <1>3 DEF Known, FromBoard
<1>7. HostOK
  BY <1>1, <1>2, <1>3, <1>4, <1>5, <1>6 DEF HostOK, InCall, Fields, NoHdr, Cur
<1>8. /\ wbuf \in Seq(Byte) /\ up \in Seq(Byte) /\ tx \in Seq(Byte)
      /\ log \in Seq(CallRecord) /\ exec \in Seq(Nat)
  BY <1>3
<1>9. Len(wbuf) <= WCap /\ nbuf <= RCap /\ nbuf + nrx <= Len(up)
  BY <1>3, UsbAssumption
<1>10. LinkOK
  BY <1>6, <1>8, <1>9 DEF LinkOK
<1> QED BY <1>7, <1>10

-----------------------------------------------------------------------------
(* How a stub ends and goes on keeps its part. *)

LEMMA RestType ==
    ASSUME Rest PROVE /\ field' \in Fields /\ need' \in Nat /\ got' \in Seq(Byte)
                      /\ hdr' \in Headers /\ hdr'.src = 0 /\ field' = "none"
                      /\ FromBoard(got)'
<1>1. NoId \in Ids
  BY FnAssumption DEF Ids
<1>2. hdr' \in Headers /\ hdr'.src = 0
  BY <1>1 DEF Rest, NoHdr, Headers, Outcomes
<1>3. got' \in Seq(Byte) /\ FromBoard(got)'
  BY EmptySeq DEF Rest, FromBoard
<1> QED BY <1>2, <1>3 DEF Rest, Fields

LEMMA ThrowType ==
    ASSUME HostOK, LinkOK, NEW e \in Outcomes, Throw(e), log' = log
    PROVE  HostOK'
<1>1. Cur \in Nat /\ Cur' = Cur
  BY DEF Cur, LinkOK
<1>2. Rest
  BY DEF Throw
<1>3. ret' \in [call : Nat, out : Outcomes, src : Nat, sure : BOOLEAN]
  BY <1>1 DEF Throw, LinkOK
<1> QED BY <1>1, <1>2, <1>3, RestType DEF Throw, HostOK, InCall

LEMMA ReturnType ==
    ASSUME HostOK, LinkOK, NEW src \in Nat, NEW id \in Ids, Return(src, id), log' = log
    PROVE  HostOK'
<1>1. Cur \in Nat /\ Cur' = Cur
  BY DEF Cur, LinkOK
<1>2. Rest
  BY DEF Return
<1>3. ret' \in [call : Nat, out : Outcomes, src : Nat, sure : BOOLEAN]
  BY <1>1 DEF Return, LinkOK, Outcomes
<1>4. cmdId' \in [Fn -> Ids]
  BY DEF Return, HostOK
<1> QED BY <1>1, <1>2, <1>3, <1>4, RestType DEF Return, HostOK, InCall

LEMMA AwaitType ==
    ASSUME HostOK, LinkOK, log' = log, InCall,
           pc' = "read", got' = <<>>, UNCHANGED <<cmdId, fn, wpos, ret>>,
           field' \in Fields, need' \in Nat, hdr' \in Headers, hdr'.src \in 0 .. Cur,
           field' \in {"type", "cmd", "size", "dtype", "dsize", "drain"} => need' > 0
    PROVE  HostOK'
<1>1. Cur \in Nat /\ Cur' = Cur
  BY DEF Cur, LinkOK
<1>2. got' \in Seq(Byte) /\ FromBoard(got)'
  BY EmptySeq DEF FromBoard
<1> QED BY <1>1, <1>2 DEF HostOK, InCall
-----------------------------------------------------------------------------
(* What a stub reads out of its bytes has the right type. *)

\* Source gives the source it was given, or none.
LEMMA SourceIs ==
    ASSUME NEW s, NEW b, NEW at, NEW n PROVE Source(s, b, at, n) \in {s, 0}
BY DEF Source

LEMMA FirstByte ==
    ASSUME HostOK, LinkOK, got # <<>>
    PROVE  got[1].call \in 1 .. Cur /\ log[got[1].call].as \in Fn /\ Len(got) > 0
<1>1. Len(got) \in Nat \ {0} /\ DOMAIN got = 1 .. Len(got)
  BY EmptySeq, LenProperties DEF HostOK
<1> QED BY <1>1 DEF HostOK, FromBoard

LEMMA SizesAreNat ==
    /\ Junk \in Nat /\ 0 .. Junk \subseteq Nat /\ 0 \in Nat /\ 1 \in Nat
    /\ \A f \in Fn : /\ ParBytes[f] \in Nat /\ DatBytes[f] \in Nat /\ ReqBytes[f] \in Nat \ {0}
                     /\ Shape[f] \in Shapes
BY UsbAssumption, SizeAssumption

LEMMA HdrIs ==
    ASSUME HostOK, LinkOK
    PROVE  /\ hdr \in Headers /\ hdr.cmd \in Ids /\ hdr.size \in Nat /\ hdr.err \in Outcomes \ {"ok"}
           /\ hdr.src \in 0 .. Cur /\ Cur \in Nat /\ 0 .. Cur \subseteq Nat
<1>1. hdr \in Headers /\ hdr.src \in 0 .. Cur
  BY DEF HostOK
<1>2. Cur \in Nat
  BY DEF LinkOK, Cur
<1>3. 0 .. Cur \subseteq Nat
  BY <1>2
<1> QED BY <1>1, <1>2, <1>3 DEF Headers

LEMMA CallIs ==
    ASSUME HostOK, LinkOK, InCall
    PROVE  /\ Cur \in Nat \ {0} /\ Call \in CallRecord
           /\ Call.fn \in Fn /\ Call.as \in Ids /\ Call.arg \in Fn
<1>1. Cur \in 1 .. Len(log) /\ Cur \in Nat \ {0}
  BY DEF LinkOK, HostOK, Cur
<1>2. log[Cur] \in CallRecord
  BY <1>1, ElementOfSeq DEF LinkOK
<1> QED BY <1>1, <1>2 DEF Call, CallRecord
-----------------------------------------------------------------------------
(* The steps of a stub that only look at what was read. *)

Looking == \/ GotType \/ GotCmd \/ GotSize \/ CheckFails \/ GotValue \/ GotPar
           \/ GotDataType \/ GotDataSize \/ GotData \/ GotDrain \/ GotSink

LEMMA LookingType ==
    ASSUME HostOK, LinkOK, Looking
    PROVE  HostOK' /\ LinkOK'
<1>1. Quiet /\ pc = "read" /\ InCall /\ log' = log
  BY DEF Looking, GotType, GotCmd, GotSize, CheckFails, GotValue, GotPar, GotDataType,
         GotDataSize, GotData, GotDrain, GotSink, Quiet, Ready, InCall, history
<1>2. LinkOK'
  BY <1>1 DEF LinkOK, Quiet, usb, history, Known, FromBoard, Cur
<1> SUFFICES HostOK'
  BY <1>2
<1>3. need = 0 /\ field \in {"type", "cmd", "size", "dtype", "dsize", "drain"} => got # <<>>
  BY DEF HostOK
<1>h. /\ hdr \in Headers /\ hdr.cmd \in Ids /\ hdr.size \in Nat /\ hdr.err \in Outcomes \ {"ok"}
      /\ hdr.src \in 0 .. Cur /\ Cur \in Nat /\ 0 .. Cur \subseteq Nat
  BY HdrIs
<1> USE <1>h, SizesAreNat
<1>4. CASE GotType
  <2>1. PICK t \in TypeOf(log, got) :
          CASE t = "DTB"  -> Await("cmd", 2, [hdr EXCEPT !.src = IF got[1].at = 1 THEN got[1].call ELSE 0])
            [] t \in {"DATA", "OLD"} -> Await("drain", 3, [hdr EXCEPT !.err = "NO_CMD_MSG"])
            [] OTHER -> Throw("WRONG_MSG_TYPE")
    BY <1>4 DEF GotType
  <2>2. got # <<>>
    BY <1>3, <1>4 DEF GotType, Ready
  <2>3. (IF got[1].at = 1 THEN got[1].call ELSE 0) \in 0 .. Cur
    BY <2>2, FirstByte
  <2>h. /\ [hdr EXCEPT !.src = IF got[1].at = 1 THEN got[1].call ELSE 0] \in Headers
        /\ [hdr EXCEPT !.src = IF got[1].at = 1 THEN got[1].call ELSE 0].src \in 0 .. Cur
        /\ [hdr EXCEPT !.err = "NO_CMD_MSG"] \in Headers
        /\ [hdr EXCEPT !.err = "NO_CMD_MSG"].src \in 0 .. Cur
    BY <2>3 DEF Headers, Outcomes, Errors
  <2>4. "cmd" \in Fields /\ "drain" \in Fields /\ "NO_CMD_MSG" \in Outcomes
        /\ "WRONG_MSG_TYPE" \in Outcomes
    BY DEF Fields, Outcomes, Errors
  <2>5. CASE t = "DTB"
    <3>1. Await("cmd", 2, [hdr EXCEPT !.src = IF got[1].at = 1 THEN got[1].call ELSE 0])
      BY <2>1, <2>5
    <3> QED BY <1>1, <2>h, <2>4, <3>1, AwaitType DEF Await
  <2>6. CASE t \in {"DATA", "OLD"}
    <3>1. Await("drain", 3, [hdr EXCEPT !.err = "NO_CMD_MSG"])
      BY <2>1, <2>6
    <3> QED BY <1>1, <2>h, <2>4, <3>1, AwaitType DEF Await
  <2>7. CASE t \notin {"DTB", "DATA", "OLD"}
    BY <1>1, <2>1, <2>4, <2>7, ThrowType
  <2> QED BY <2>5, <2>6, <2>7
<1>5. CASE GotCmd
  <2>1. PICK c \in CmdOf(log, got) :
          Await("size", 1, [hdr EXCEPT !.cmd = c, !.src = Source(hdr.src, got, 2, 2)])
    BY <1>5 DEF GotCmd
  <2>2. got # <<>>
    BY <1>3, <1>5 DEF GotCmd, Ready
  <2>3. c \in Ids
    BY <2>2, FirstByte DEF CmdOf, Ids
  <2>4. Source(hdr.src, got, 2, 2) \in 0 .. Cur
    BY SourceIs
  <2>5. /\ [hdr EXCEPT !.cmd = c, !.src = Source(hdr.src, got, 2, 2)] \in Headers
        /\ [hdr EXCEPT !.cmd = c, !.src = Source(hdr.src, got, 2, 2)].src \in 0 .. Cur
    BY <2>3, <2>4 DEF Headers
  <2> QED BY <1>1, <2>1, <2>5, AwaitType DEF Await, Fields
<1>6. CASE GotSize
  <2>1. PICK n \in SizeOf(log, got, Junk) :
          Await("par", n, [hdr EXCEPT !.size = n, !.src = Source(hdr.src, got, 4, 1)])
    BY <1>6 DEF GotSize
  <2>2. got # <<>>
    BY <1>3, <1>6 DEF GotSize, Ready
  <2>3. n \in Nat
    BY <2>2, FirstByte DEF SizeOf
  <2>4. Source(hdr.src, got, 4, 1) \in 0 .. Cur
    BY SourceIs
  <2>5. /\ [hdr EXCEPT !.size = n, !.src = Source(hdr.src, got, 4, 1)] \in Headers
        /\ [hdr EXCEPT !.size = n, !.src = Source(hdr.src, got, 4, 1)].src \in 0 .. Cur
    BY <2>3, <2>4 DEF Headers
  <2> QED BY <1>1, <2>1, <2>3, <2>5, AwaitType DEF Await, Fields
<1>7. CASE CheckFails
  BY <1>1, <1>7, ThrowType DEF CheckFails, Outcomes, Errors
<1>8. CASE GotValue
  <2>1. ParSource \in 0 .. Cur
    BY SourceIs DEF ParSource
  <2>2. PICK id \in IF ParSource = 0 \/ log[ParSource].as # Lookup
                    THEN Ids ELSE {IdOf(log[ParSource].arg)} : Return(ParSource, id)
    BY <1>8 DEF GotValue
  <2>3. id \in Ids
    <3>1. CASE ParSource # 0
      <4>1. log[ParSource] \in CallRecord
        BY <2>1, <3>1, ElementOfSeq DEF LinkOK, Cur
      <4> QED BY <2>2, <4>1 DEF CallRecord, IdOf, Ids
    <3> QED BY <2>2, <3>1
  <2> QED BY <1>1, <2>1, <2>2, <2>3, ReturnType
<1>9. CASE GotPar
  <2>1. ParSource \in 0 .. Cur
    BY SourceIs DEF ParSource
  <2>2. [hdr EXCEPT !.src = ParSource] \in Headers /\ [hdr EXCEPT !.src = ParSource].src \in 0 .. Cur
    BY <2>1 DEF Headers
  <2> QED BY <1>1, <1>9, <2>2, AwaitType DEF Await, GotPar, Fields
<1>10. CASE GotDataType
  <2>1. PICK t \in TypeOf(log, got) :
          CASE t = "DATA" ->
                 Await("dsize", 3, [hdr EXCEPT !.src = Source(@, got, CmdEnd(Call.fn) + 1, 1)])
            [] t = "DTB"  -> Await("drain", 3, [hdr EXCEPT !.err = "NO_DATA_MSG"])
            [] t = "OLD"  -> Await("drain", 3, [hdr EXCEPT !.err = "NO_CMD_MSG"])
            [] OTHER -> Throw("WRONG_MSG_TYPE")
    BY <1>10 DEF GotDataType
  <2>2. Source(hdr.src, got, CmdEnd(Call.fn) + 1, 1) \in 0 .. Cur
    BY SourceIs
  <2>3. /\ "dsize" \in Fields /\ "drain" \in Fields
        /\ {"NO_CMD_MSG", "NO_DATA_MSG", "WRONG_MSG_TYPE"} \subseteq Outcomes
    BY DEF Fields, Outcomes, Errors
  <2>h. /\ [hdr EXCEPT !.src = Source(hdr.src, got, CmdEnd(Call.fn) + 1, 1)] \in Headers
        /\ [hdr EXCEPT !.src = Source(hdr.src, got, CmdEnd(Call.fn) + 1, 1)].src \in 0 .. Cur
        /\ \A e \in {"NO_CMD_MSG", "NO_DATA_MSG"} :
              [hdr EXCEPT !.err = e] \in Headers /\ [hdr EXCEPT !.err = e].src \in 0 .. Cur
    BY <2>2, <2>3 DEF Headers
  <2>4. CASE t = "DATA"
    <3>1. Await("dsize", 3, [hdr EXCEPT !.src = Source(hdr.src, got, CmdEnd(Call.fn) + 1, 1)])
      BY <2>1, <2>4
    <3> QED BY <1>1, <2>h, <2>3, <3>1, AwaitType DEF Await
  <2>5. CASE t = "DTB"
    <3>1. Await("drain", 3, [hdr EXCEPT !.err = "NO_DATA_MSG"])
      BY <2>1, <2>5
    <3> QED BY <1>1, <2>h, <2>3, <3>1, AwaitType DEF Await
  <2>6. CASE t = "OLD"
    <3>1. Await("drain", 3, [hdr EXCEPT !.err = "NO_CMD_MSG"])
      BY <2>1, <2>6
    <3> QED BY <1>1, <2>h, <2>3, <3>1, AwaitType DEF Await
  <2>7. CASE t \notin {"DTB", "DATA", "OLD"}
    BY <1>1, <2>1, <2>3, <2>7, ThrowType
  <2> QED BY <2>4, <2>5, <2>6, <2>7
<1>11. CASE GotDataSize
  <2>1. PICK n \in DataSizeOf(log, got, Junk) :
          IF Shape[Call.fn] = "vector" /\ n % 2 # 0
          THEN Await("sink", n, [hdr EXCEPT !.err = "WRONG_DATA_SIZE"])
          ELSE Await("data", n, [hdr EXCEPT !.size = n,
                                    !.src = Source(@, got, CmdEnd(Call.fn) + 2, 3)])
    BY <1>11 DEF GotDataSize
  <2>2. got # <<>>
    BY <1>3, <1>11 DEF GotDataSize, Ready
  <2>3. n \in Nat
    BY <2>2, FirstByte DEF DataSizeOf
  <2>4. Source(hdr.src, got, CmdEnd(Call.fn) + 2, 3) \in 0 .. Cur
    BY SourceIs
  <2>5. "sink" \in Fields /\ "data" \in Fields /\ "WRONG_DATA_SIZE" \in Outcomes
    BY DEF Fields, Outcomes, Errors
  <2>h. /\ [hdr EXCEPT !.err = "WRONG_DATA_SIZE"] \in Headers
        /\ [hdr EXCEPT !.err = "WRONG_DATA_SIZE"].src \in 0 .. Cur
        /\ [hdr EXCEPT !.size = n, !.src = Source(hdr.src, got, CmdEnd(Call.fn) + 2, 3)] \in Headers
        /\ [hdr EXCEPT !.size = n,
                        !.src = Source(hdr.src, got, CmdEnd(Call.fn) + 2, 3)].src \in 0 .. Cur
    BY <2>3, <2>4, <2>5 DEF Headers
  <2>6. CASE Shape[Call.fn] = "vector" /\ n % 2 # 0
    BY <1>1, <2>1, <2>3, <2>5, <2>h, <2>6, AwaitType DEF Await
  <2>7. CASE ~(Shape[Call.fn] = "vector" /\ n % 2 # 0)
    BY <1>1, <2>1, <2>3, <2>h, <2>5, <2>7, AwaitType DEF Await
  <2> QED BY <2>6, <2>7
<1>12. CASE GotData
  <2>1. Source(hdr.src, got, CmdEnd(Call.fn) + 5, hdr.size) \in 0 .. Cur
    BY SourceIs
  <2> QED BY <1>1, <1>12, <2>1, ReturnType DEF GotData, Ids
<1>13. CASE GotDrain
  <2>1. PICK n \in DrainSizes : Await("sink", n, hdr)
    BY <1>13 DEF GotDrain
  <2>2. got # <<>>
    BY <1>3, <1>13 DEF GotDrain, Ready
  <2>3. n \in Nat
    <3>1. CASE hdr.err = "NO_DATA_MSG" /\ Len(got) = 3
      <4>1. got[3] \in Byte /\ got[3].call \in 1 .. Cur /\ log[got[3].call].as \in Fn
        <5>1. 3 \in 1 .. Len(got) /\ 3 \in DOMAIN got
          BY <3>1, LenProperties DEF HostOK
        <5>2. got[3] \in Byte
          BY <5>1, ElementOfSeq DEF HostOK
        <5> QED BY <5>1, <5>2 DEF HostOK, FromBoard
      <4>2. <<got[3]>>[1] = got[3]
        OBVIOUS
      <4> QED BY <2>1, <3>1, <4>1, <4>2 DEF DrainSizes, SizeOf
    <3>2. CASE hdr.err = "NO_DATA_MSG" /\ Len(got) # 3
      BY <2>1, <3>2 DEF DrainSizes
    <3>3. CASE hdr.err # "NO_DATA_MSG"
      <4>1. PICK m \in DataSizeOf(log, got, Junk) : n = m % Wide
        BY <2>1, <3>3 DEF DrainSizes
      <4>2. m \in Nat
        BY <2>2, FirstByte DEF DataSizeOf
      <4> QED BY <4>1, <4>2, UsbAssumption
    <3> QED BY <3>1, <3>2, <3>3
  <2> QED BY <1>1, <2>1, <2>3, AwaitType DEF Await, Fields
<1>14. CASE GotSink
  BY <1>1, <1>14, ThrowType DEF GotSink
<1> QED BY <1>4, <1>5, <1>6, <1>7, <1>8, <1>9, <1>10, <1>11, <1>12, <1>13, <1>14
        DEF Looking
-----------------------------------------------------------------------------
(* The parts of a sequence hold no bytes but its own. *)

LEMMA KnownParts ==
    ASSUME NEW s \in Seq(Byte), NEW t \in Seq(Byte), NEW n \in 0 .. Len(s)
    PROVE  /\ Known(s) => Known(Drop(s, n)) /\ Known(SubSeq(s, 1, n))
           /\ Known(s) /\ Known(t) => Known(s \o t)
           /\ FromBoard(s) => FromBoard(Drop(s, n)) /\ FromBoard(SubSeq(s, 1, n))
           /\ FromBoard(s) /\ FromBoard(t) => FromBoard(s \o t)
<1>1. /\ DOMAIN s = 1 .. Len(s) /\ DOMAIN t = 1 .. Len(t)
      /\ Len(s) \in Nat /\ Len(t) \in Nat
  BY LenProperties
<1>2. DOMAIN Drop(s, n) = 1 .. Len(s) - n
  BY DropFacts, LenProperties
<1>3. DOMAIN SubSeq(s, 1, n) = 1 .. n
  BY PrefixFacts, LenProperties
<1>4. DOMAIN (s \o t) = 1 .. Len(s) + Len(t)
  BY ConcatFacts, LenProperties
<1>5. /\ \A i \in DOMAIN Drop(s, n) : \E j \in DOMAIN s : Drop(s, n)[i] = s[j]
      /\ \A i \in DOMAIN SubSeq(s, 1, n) : \E j \in DOMAIN s : SubSeq(s, 1, n)[i] = s[j]
  <2>1. ASSUME NEW i \in DOMAIN Drop(s, n) PROVE n + i \in DOMAIN s /\ Drop(s, n)[i] = s[n + i]
    <3>1. i \in 1 .. Len(s) - n /\ n \in Nat
      BY <1>1, <1>2
    <3>2. Drop(s, n)[i] = s[n + i]
      BY <3>1, DropFacts
    <3> QED BY <1>1, <3>1, <3>2
  <2>2. ASSUME NEW i \in DOMAIN SubSeq(s, 1, n) PROVE i \in DOMAIN s /\ SubSeq(s, 1, n)[i] = s[i]
    BY <1>1, <1>3, PrefixFacts
  <2> QED BY <2>1, <2>2
<1>6. \A i \in DOMAIN (s \o t) : \/ \E j \in DOMAIN s : (s \o t)[i] = s[j]
                                 \/ \E j \in DOMAIN t : (s \o t)[i] = t[j]
  <2> SUFFICES ASSUME NEW i \in 1 .. Len(s) + Len(t)
               PROVE  \/ \E j \in DOMAIN s : (s \o t)[i] = s[j]
                      \/ \E j \in DOMAIN t : (s \o t)[i] = t[j]
    BY <1>4
  <2>1. \/ i \in 1 .. Len(s) /\ (s \o t)[i] = s[i]
        \/ i - Len(s) \in 1 .. Len(t) /\ (s \o t)[i] = t[i - Len(s)]
    BY ConcatFacts
  <2> QED BY <1>1, <2>1
<1>7. /\ Known(s) => Known(Drop(s, n)) /\ Known(SubSeq(s, 1, n))
      /\ FromBoard(s) => FromBoard(Drop(s, n)) /\ FromBoard(SubSeq(s, 1, n))
  BY <1>5 DEF Known, FromBoard
<1>8. /\ Known(s) /\ Known(t) => Known(s \o t)
      /\ FromBoard(s) /\ FromBoard(t) => FromBoard(s \o t)
  BY <1>6 DEF Known, FromBoard
<1> QED BY <1>7, <1>8

\* While the log stays as it is, a sequence keeps what it is.
LEMMA SameLog ==
    ASSUME log' = log
    PROVE  /\ Cur' = Cur /\ Call' = Call
           /\ (\A s : (\A i \in DOMAIN s : s[i].call \in 1 .. Cur) <=>
                      (\A i \in DOMAIN s : s[i].call \in 1 .. Cur'))
           /\ tx' = tx => Known(tx)' = Known(tx)
           /\ wbuf' = wbuf => Known(wbuf)' = Known(wbuf)
           /\ up' = up => FromBoard(up)' = FromBoard(up)
           /\ got' = got => FromBoard(got)' = FromBoard(got)
BY DEF Cur, Call, Known, FromBoard

LEMMA ClientType ==
    ASSUME HostOK, LinkOK, NEW f \in Fn, Client(f)
    PROVE  HostOK' /\ LinkOK'
<1>1. log' = log /\ UNCHANGED <<usb, tx, history>>
  BY DEF Client, history
<1>2. LinkOK'
  BY <1>1, SameLog DEF LinkOK, usb, history
<1> QED BY <1>1, <1>2, SameLog DEF Client, HostOK, InCall

LEMMA CreateType ==
    ASSUME HostOK, LinkOK, NEW f \in Fn, pc = "getid", Create(f)
    PROVE  HostOK' /\ LinkOK'
<1>1. [fn |-> f, as |-> cmdId[f], arg |-> fn] \in CallRecord
  BY DEF HostOK, CallRecord
<1>2. /\ log' \in Seq(CallRecord) /\ Len(log') = Len(log) + 1 /\ Len(log) \in Nat
      /\ \A i \in 1 .. Len(log) : log'[i] = log[i]
      /\ log'[Len(log) + 1] = [fn |-> f, as |-> cmdId[f], arg |-> fn]
  BY <1>1, AppendProperties, LenProperties DEF Create, LinkOK
<1>3. /\ Cur' = Cur + 1 /\ Cur \in Nat /\ Call'.fn = f
      /\ \A i \in 1 .. Cur : i \in 1 .. Cur' /\ log'[i] = log[i]
  BY <1>2 DEF Cur, Call
<1>4. FromBoard(got)' /\ FromBoard(up)' /\ Known(tx)' /\ Known(wbuf)'
  BY <1>3 DEF FromBoard, Known, HostOK, LinkOK, Create, usb
<1>5. LinkOK'
  BY <1>2, <1>4 DEF Create, LinkOK, usb
<1>6. /\ hdr.src \in 0 .. Cur' /\ InCall'
      /\ wpos' = 0 /\ ReqBytes[Call'.fn] \in Nat
  BY <1>3, SizesAreNat DEF HostOK, Create, InCall
<1>7. HostOK'
  BY <1>3, <1>4, <1>6 DEF Create, HostOK
<1> QED BY <1>5, <1>7
-----------------------------------------------------------------------------
(* The steps that write. *)

LEMMA CallsAreNat == \A s \in Seq(Byte) : Calls(s) \subseteq Nat
<1> SUFFICES ASSUME NEW s \in Seq(Byte), NEW i \in DOMAIN s PROVE s[i].call \in Nat
  BY DEF Calls
<1>1. s[i] \in Byte
  BY ElementOfSeq, LenProperties
<1> QED BY <1>1 DEF Byte

LEMMA FailType == ASSUME LinkOK, NEW k, Fail(k) PROVE failed' \in Nat
BY DEF Fail, LinkOK

\* A step that leaves the call in progress where it is keeps what the stub has.
LEMMA HostSame ==
    ASSUME HostOK, log' = log, UNCHANGED <<cmdId, pc, fn, field, need, got, hdr, ret>>,
           wpos' \in Nat, pc = "write" => wpos' <= ReqBytes[Call.fn]
    PROVE  HostOK'
BY SameLog DEF HostOK, InCall

LEMMA WriteByteType ==
    ASSUME HostOK, LinkOK, WriteByte PROVE HostOK' /\ LinkOK'
<1>1. InCall /\ log' = log /\ pc = "write"
  BY DEF WriteByte, InCall, history
<1>2. /\ Cur \in Nat \ {0} /\ Cur' = Cur /\ ReqBytes[Call.fn] \in Nat
  BY <1>1, CallIs, SameLog, SizesAreNat
<1>3. [call |-> Cur, at |-> wpos + 1] \in Byte /\ wpos' \in Nat /\ wpos' <= ReqBytes[Call.fn]
  BY <1>2, SMTT(30) DEF WriteByte, HostOK, Byte
<1>4. /\ wbuf' \in Seq(Byte) /\ Len(wbuf') = Len(wbuf) + 1 /\ Len(wbuf) \in Nat
      /\ \A i \in 1 .. Len(wbuf) : wbuf'[i] = wbuf[i]
      /\ wbuf'[Len(wbuf) + 1].call = Cur
  BY <1>3, AppendProperties, LenProperties DEF WriteByte, LinkOK
<1>5. \A i \in DOMAIN wbuf' : wbuf'[i].call \in 1 .. Cur
  <2> SUFFICES ASSUME NEW i \in 1 .. Len(wbuf) + 1 PROVE wbuf'[i].call \in 1 .. Cur
    BY <1>4, LenProperties
  <2>1. CASE i \in 1 .. Len(wbuf)
    BY <1>4, <2>1, LenProperties DEF LinkOK, Known
  <2>2. CASE i = Len(wbuf) + 1
    BY <1>2, <1>4, <2>2
  <2> QED BY <1>4, <2>1, <2>2
<1>6. Known(wbuf)' /\ Known(tx)' /\ FromBoard(up)'
  BY <1>1, <1>2, <1>5, SameLog DEF WriteByte, Known, LinkOK
<1>7. LinkOK'
  BY <1>4, <1>6, UsbAssumption DEF WriteByte, LinkOK, history
<1>8. HostOK'
  BY <1>1, <1>3, HostSame DEF WriteByte
<1> QED BY <1>7, <1>8

\* The buffer, or what the driver took of it, goes behind tx.
LEMMA SendType ==
    ASSUME LinkOK, log' = log, NEW k \in 0 .. Len(wbuf),
           tx' = tx \o SubSeq(wbuf, 1, k) \/ tx' = tx \o wbuf \/ tx' = tx,
           wbuf' = <<>>, lost' \subseteq Nat, failed' \in Nat,
           clean' \in BOOLEAN, UNCHANGED <<open, up, nbuf, nrx, exec, whole>>
    PROVE  LinkOK'
<1>1. SubSeq(wbuf, 1, k) \in Seq(Byte)
  BY PrefixFacts DEF LinkOK
<1>2. tx' \in Seq(Byte)
  BY <1>1, ConcatFacts DEF LinkOK
<1>3. Known(SubSeq(wbuf, 1, k))
  BY KnownParts DEF LinkOK
<1>4. Known(tx')
  <2>1. Known(tx \o SubSeq(wbuf, 1, k))
    <3>1. tx \in Seq(Byte) /\ Known(tx) /\ 0 \in 0 .. Len(tx)
      BY LenProperties DEF LinkOK
    <3> QED BY <1>1, <1>3, <3>1, KnownParts
  <2>2. Known(tx \o wbuf)
    BY KnownParts, LenProperties DEF LinkOK
  <2> QED BY <2>1, <2>2 DEF LinkOK
<1>5. Known(tx)' /\ FromBoard(up)'
  BY <1>4, SameLog DEF Known, LinkOK
<1>6. wbuf' \in Seq(Byte) /\ Len(wbuf') <= WCap /\ Known(wbuf)'
  BY EmptySeq, UsbAssumption DEF Known
<1> QED BY <1>2, <1>5, <1>6 DEF LinkOK

LEMMA WriteType ==
    ASSUME HostOK, LinkOK,
           WriteByte \/ WriteFull \/ WriteClosed \/ ReturnVoid \/ Flush \/ FlushFails
    PROVE  HostOK' /\ LinkOK'
<1>1. InCall /\ log' = log /\ pc = "write"
  BY DEF WriteByte, WriteFull, WriteClosed, ReturnVoid, Flush, FlushFails, InCall, history
<1>2. /\ Cur \in Nat \ {0} /\ Cur' = Cur /\ ReqBytes[Call.fn] \in Nat
  BY <1>1, CallIs, SameLog, SizesAreNat
<1>3. Len(wbuf) \in Nat /\ 0 \in 0 .. Len(wbuf) /\ lost \subseteq Nat /\ failed \in Nat
      /\ clean \in BOOLEAN
  BY LenProperties DEF LinkOK
<1>4. CASE WriteByte
  BY <1>4, WriteByteType
<1>5. CASE WriteFull
  <2>1. LinkOK'
    BY <1>1, <1>3, <1>5, SendType DEF WriteFull, history
  <2>2. HostOK'
    BY <1>1, <1>5, HostSame DEF WriteFull, host, HostOK
  <2> QED BY <2>1, <2>2
<1>6. CASE WriteClosed
  <2>1. HostOK'
    BY <1>1, <1>6, ThrowType DEF WriteClosed, Outcomes, Errors
  <2>2. LinkOK'
    BY <1>1, <1>2, <1>3, <1>6, SameLog DEF WriteClosed, LinkOK, usb
  <2> QED BY <2>1, <2>2
<1>7. CASE ReturnVoid
  <2>1. HostOK'
    BY <1>1, <1>2, <1>7, ReturnType DEF ReturnVoid, Ids
  <2>2. LinkOK'
    BY <1>1, <1>7, SameLog DEF ReturnVoid, LinkOK, usb, history
  <2> QED BY <2>1, <2>2
<1>8. CASE Flush
  <2>1. NoHdr \in Headers /\ NoHdr.src = 0
    BY FnAssumption DEF NoHdr, Headers, Ids, Outcomes
  <2>2. HostOK'
    BY <1>1, <1>2, <1>8, <2>1, AwaitType DEF Flush, Await, Fields
  <2>3. LinkOK'
    BY <1>1, <1>3, <1>8, SendType DEF Flush, history
  <2> QED BY <2>2, <2>3
<1>9. CASE FlushFails
  <2>1. HostOK'
    BY <1>1, <1>9, ThrowType DEF FlushFails, Outcomes, Errors
  <2>2. PICK k \in 0 .. Len(wbuf) :
          /\ tx' = tx \o SubSeq(wbuf, 1, k)
          /\ lost' = lost \cup Calls(Drop(wbuf, k))
                          \cup (IF wpos < ReqBytes[Call.fn] THEN {Cur} ELSE {})
    BY <1>9 DEF FlushFails
  <2>3. Calls(Drop(wbuf, k)) \subseteq Nat
    BY CallsAreNat, DropFacts DEF LinkOK
  <2>4. lost' \subseteq Nat /\ failed' \in Nat
    BY <1>2, <1>3, <1>9, <2>2, <2>3, FailType DEF FlushFails
  <2>5. LinkOK'
    BY <1>1, <1>9, <2>2, <2>4, SendType DEF FlushFails
  <2> QED BY <2>1, <2>5
<1> QED BY <1>4, <1>5, <1>6, <1>7, <1>8, <1>9
-----------------------------------------------------------------------------
(* The steps that read. *)

\* What is taken from the head of up goes behind got.
LEMMA TakeType ==
    ASSUME HostOK, LinkOK, NEW m \in 1 .. Len(up)
    PROVE  /\ got \o SubSeq(up, 1, m) \in Seq(Byte) /\ got \o SubSeq(up, 1, m) # <<>>
           /\ FromBoard(got \o SubSeq(up, 1, m))
           /\ Drop(up, m) \in Seq(Byte) /\ Len(Drop(up, m)) = Len(up) - m
           /\ FromBoard(Drop(up, m))
<1>1. /\ got \in Seq(Byte) /\ up \in Seq(Byte) /\ FromBoard(got) /\ FromBoard(up)
      /\ m \in 0 .. Len(up) /\ 0 \in 0 .. Len(got) /\ Len(got) \in Nat
  BY LenProperties DEF HostOK, LinkOK
<1>2. /\ SubSeq(up, 1, m) \in Seq(Byte) /\ Len(SubSeq(up, 1, m)) = m
  BY <1>1, PrefixFacts
<1>3. FromBoard(SubSeq(up, 1, m)) /\ FromBoard(Drop(up, m))
  BY <1>1, KnownParts
<1>4. FromBoard(got \o SubSeq(up, 1, m))
  BY <1>1, <1>2, <1>3, KnownParts
<1>5. /\ got \o SubSeq(up, 1, m) \in Seq(Byte)
      /\ Len(got \o SubSeq(up, 1, m)) = Len(got) + m
  BY <1>1, <1>2, ConcatFacts
<1>6. got \o SubSeq(up, 1, m) # <<>>
  BY <1>1, <1>5, EmptySeq
<1> QED BY <1>1, <1>3, <1>4, <1>5, <1>6, DropFacts

LEMMA ReadType ==
    ASSUME HostOK, LinkOK, CopyBytes \/ FillBuffer \/ ShortRead \/ ReadFails
    PROVE  HostOK' /\ LinkOK'
<1>1. InCall /\ log' = log /\ pc = "read" /\ Cur' = Cur /\ need > 0
  BY SameLog DEF CopyBytes, FillBuffer, ShortRead, ReadFails, Reading, InCall, history
<1>2. Len(up) \in Nat /\ nbuf \in Nat /\ nrx \in Nat /\ nbuf + nrx <= Len(up) /\ need \in Nat
  BY LenProperties DEF LinkOK, HostOK
<1>3. CASE CopyBytes
  <2>1. PICK m \in 1 .. nbuf :
          /\ got' = got \o SubSeq(up, 1, m) /\ up' = Drop(up, m)
          /\ nbuf' = nbuf - m /\ need' = need - m /\ m <= need
    <3>1. /\ Least(need, nbuf) \in 1 .. nbuf /\ Least(need, nbuf) <= need
      BY <1>1, <1>2, <1>3 DEF CopyBytes, Least
    <3> QED BY <1>3, <3>1 DEF CopyBytes
  <2>2. m \in 1 .. Len(up) /\ nbuf' \in Nat /\ need' \in Nat
    BY <1>2, <2>1
  <2>3. got' \in Seq(Byte) /\ got' # <<>> /\ up' \in Seq(Byte) /\ Len(up') = Len(up) - m
    BY <2>1, <2>2, TakeType
  <2>4. FromBoard(got)' /\ FromBoard(up)'
    BY <1>1, <2>1, <2>2, TakeType DEF FromBoard
  <2>5. HostOK'
    BY <1>1, <1>3, <2>2, <2>3, <2>4 DEF CopyBytes, HostOK, InCall
  <2>6. nbuf' + nrx <= Len(up') /\ nbuf' <= RCap
    BY <1>2, <2>1, <2>3, UsbAssumption DEF LinkOK
  <2>7. LinkOK'
    BY <1>1, <1>3, <2>2, <2>3, <2>4, <2>6, SameLog DEF CopyBytes, LinkOK, history
  <2> QED BY <2>5, <2>7
<1>4. CASE FillBuffer
  <2>1. FillMin \in Nat
    BY <1>2, UsbAssumption DEF FillMin, Least
  <2>2. PICK k \in FillMin .. Least(nrx, RCap) : nbuf' = k /\ nrx' = nrx - k
    BY <1>4 DEF FillBuffer
  <2>3. nbuf' \in Nat /\ nrx' \in Nat /\ nbuf' + nrx' <= Len(up) /\ nbuf' <= RCap
    BY <1>2, <1>4, <2>1, <2>2, UsbAssumption DEF Least, FillBuffer
  <2>4. LinkOK'
    BY <1>1, <1>4, <2>3, SameLog DEF FillBuffer, LinkOK, history
  <2>5. HostOK'
    BY <1>1, <1>4, HostSame DEF FillBuffer, host, HostOK
  <2> QED BY <2>4, <2>5
<1>5. CASE ShortRead
  <2>1. nrx \in 1 .. Len(up) /\ nbuf = 0 /\ nrx' = 0 /\ nbuf' = 0
    BY <1>2, <1>5 DEF ShortRead
  <2>2. got' = got \o SubSeq(up, 1, nrx) /\ up' = Drop(up, nrx)
    BY <1>5 DEF ShortRead
  <2>3. got' \in Seq(Byte) /\ got' # <<>> /\ up' \in Seq(Byte) /\ Len(up') = Len(up) - nrx
    BY <2>1, <2>2, TakeType
  <2>4. FromBoard(got)' /\ FromBoard(up)'
    BY <1>1, <2>1, <2>2, TakeType DEF FromBoard
  <2>5. HostOK'
    BY <1>1, <1>5, <2>3, <2>4 DEF ShortRead, HostOK, InCall
  <2>6. nbuf' + nrx' <= Len(up') /\ nbuf' <= RCap /\ failed' \in Nat
    BY <1>2, <1>5, <2>1, <2>3, UsbAssumption, FailType DEF ShortRead
  <2>7. LinkOK'
    BY <1>1, <1>5, <2>1, <2>3, <2>4, <2>6, SameLog DEF ShortRead, LinkOK
  <2> QED BY <2>5, <2>7
<1>6. CASE ReadFails
  <2>1. PICK e \in {"READ_TIMEOUT", "READ_ERROR"} : Throw(e)
    BY <1>6 DEF ReadFails
  <2>2. HostOK'
    BY <1>1, <2>1, ThrowType DEF Outcomes, Errors
  <2>3. failed' \in Nat
    BY <1>6, FailType DEF ReadFails
  <2>4. LinkOK'
    BY <1>1, <1>6, <2>3, SameLog DEF ReadFails, LinkOK, usb
  <2> QED BY <2>2, <2>4
<1> QED BY <1>3, <1>4, <1>5, <1>6
-----------------------------------------------------------------------------
(* The steps between calls, and those of the board. *)

\* Losing the first n bytes of up.
LEMMA LoseType ==
    ASSUME LinkOK, NEW n \in 0 .. Len(up), log' = log, up' = Drop(up, n)
    PROVE  up' \in Seq(Byte) /\ Len(up') = Len(up) - n /\ FromBoard(up)'
<1>1. up \in Seq(Byte) /\ FromBoard(up)
  BY DEF LinkOK
<1>2. FromBoard(Drop(up, n))
  BY <1>1, KnownParts
<1> QED BY <1>1, <1>2, DropFacts, SameLog DEF FromBoard

LEMMA UserType ==
    ASSUME HostOK, LinkOK, UserFlush \/ Clear \/ Close \/ Open
    PROVE  HostOK' /\ LinkOK'
<1>1. log' = log /\ pc = "idle" /\ Cur' = Cur
  BY SameLog DEF UserFlush, Clear, Close, Open, history
<1>2. /\ Len(up) \in Nat /\ nbuf \in Nat /\ nrx \in Nat /\ nbuf + nrx <= Len(up)
      /\ Len(wbuf) \in Nat /\ 0 \in 0 .. Len(wbuf)
  BY LenProperties DEF LinkOK
<1>3. Calls(wbuf) \subseteq Nat /\ lost \subseteq Nat /\ failed \in Nat /\ clean \in BOOLEAN
  BY CallsAreNat DEF LinkOK
<1>4. /\ <<>> \in Seq(Byte) /\ Len(<<>>) = 0 /\ Len(<<>>) <= WCap /\ 0 <= RCap
      /\ wbuf' = <<>> => Known(wbuf)'
  BY EmptySeq, UsbAssumption DEF Known
<1>5. CASE UserFlush
  <2>1. HostOK'
    BY <1>1, <1>5, HostSame DEF UserFlush, host, HostOK
  <2>2. CASE open /\ tx' = tx \o wbuf /\ UNCHANGED <<lost, failed>>
    BY <1>1, <1>2, <1>3, <1>5, <2>1, <2>2, SendType DEF UserFlush
  <2>3. CASE ~open /\ lost' = lost \cup Calls(wbuf) /\ UNCHANGED <<tx, failed>>
    BY <1>1, <1>2, <1>3, <1>5, <2>1, <2>3, SendType DEF UserFlush
  <2>4. CASE /\ Fail("write")
             /\ \E k \in 0 .. Len(wbuf) :
                   tx' = tx \o SubSeq(wbuf, 1, k) /\ lost' = lost \cup Calls(Drop(wbuf, k))
    <3>1. PICK k \in 0 .. Len(wbuf) :
            tx' = tx \o SubSeq(wbuf, 1, k) /\ lost' = lost \cup Calls(Drop(wbuf, k))
      BY <2>4
    <3>2. Calls(Drop(wbuf, k)) \subseteq Nat
      BY CallsAreNat, DropFacts DEF LinkOK
    <3>3. lost' \subseteq Nat /\ failed' \in Nat
      BY <1>3, <2>4, <3>1, <3>2, FailType
    <3> QED BY <1>1, <1>3, <1>5, <2>1, <3>1, <3>3, SendType DEF UserFlush
  <2> QED BY <1>5, <2>1, <2>2, <2>3, <2>4 DEF UserFlush
<1>6. CASE Clear
  <2>1. HostOK'
    BY <1>1, <1>6, HostSame DEF Clear, host, HostOK
  <2>2. PICK k \in 0 .. Len(tx) :
          tx' = SubSeq(tx, 1, k) /\ lost' = lost \cup Calls(Drop(tx, k)) \cup Calls(wbuf)
    BY <1>6 DEF Clear
  <2>3. tx \in Seq(Byte) /\ Known(tx)
    BY DEF LinkOK
  <2>4. tx' \in Seq(Byte) /\ Known(tx') /\ Calls(Drop(tx, k)) \subseteq Nat
    BY <2>2, <2>3, PrefixFacts, DropFacts, KnownParts, CallsAreNat
  <2>5. Known(tx)' /\ lost' \subseteq Nat
    BY <1>1, <1>3, <2>2, <2>4 DEF Known
  <2>6. nbuf + nrx \in 0 .. Len(up) /\ up' = Drop(up, nbuf + nrx)
    BY <1>2, <1>6 DEF Clear
  <2>7. up' \in Seq(Byte) /\ Len(up') \in Nat /\ FromBoard(up)'
    BY <1>1, <2>6, LoseType, LenProperties
  <2>8. wbuf' = <<>> /\ nbuf' = 0 /\ nrx' = 0 /\ whole' \in BOOLEAN /\ clean' \in BOOLEAN
    BY <1>6 DEF Clear
  <2>9. LinkOK'
    BY <1>1, <1>4, <1>6, <2>4, <2>5, <2>7, <2>8 DEF Clear, LinkOK
  <2> QED BY <2>1, <2>9
<1>7. Cleared \in [Fn -> Ids]
  BY FnAssumption DEF Cleared, Ids
<1>8. CASE Close
  BY <1>1, <1>7, <1>8, SameLog DEF Close, LinkOK, HostOK, InCall
<1>9. CASE Open
  <2>1. HostOK'
    BY <1>1, <1>7, <1>9, SameLog DEF Open, HostOK, InCall
  <2>2. PICK k \in {nbuf, nbuf + nrx} : up' = Drop(up, k) /\ nrx' = nrx + nbuf - k
    BY <1>9 DEF Open
  <2>3. k \in 0 .. Len(up) /\ nrx' \in Nat /\ nrx' <= Len(up) - k
    BY <1>2, <2>2
  <2>4. up' \in Seq(Byte) /\ Len(up') = Len(up) - k /\ FromBoard(up)'
    BY <1>1, <2>2, <2>3, LoseType
  <2>5. lost' \subseteq Nat /\ wbuf' = <<>> /\ nbuf' = 0
    BY <1>3, <1>9 DEF Open
  <2>6. whole' \in BOOLEAN /\ clean' \in BOOLEAN /\ open' \in BOOLEAN
    BY <1>9 DEF Open
  <2>7. nbuf' + nrx' <= Len(up')
    BY <1>2, <2>3, <2>4, <2>5, SMTT(30)
  <2>8. LinkOK'
    BY <1>1, <1>4, <1>9, <2>3, <2>4, <2>5, <2>6, <2>7, SameLog DEF Open, LinkOK
  <2> QED BY <2>1, <2>8
<1> QED BY <1>5, <1>6, <1>8, <1>9

\* The answer of the board is made of bytes of the call it answers.
LEMMA AnswerFacts ==
    ASSUME NEW n \in Nat, NEW as \in Ids
    PROVE  /\ Answer(n, as) \in Seq(Byte)
           /\ as \notin Fn => Answer(n, as) = <<>>
           /\ as \in Fn => /\ AnswerBytes(as) \in Nat
                           /\ Len(Answer(n, as)) = AnswerBytes(as)
                           /\ \A j \in 1 .. AnswerBytes(as) :
                                 Answer(n, as)[j] = [call |-> n, at |-> j]
<1>1. as \in Fn => AnswerBytes(as) \in Nat
  <2> SUFFICES ASSUME as \in Fn PROVE AnswerBytes(as) \in Nat
    OBVIOUS
  <2>1. ParBytes[as] \in Nat /\ DatBytes[as] \in Nat
    BY SizesAreNat
  <2>2. \A p, d \in Nat : 4 + p \in Nat /\ 4 + p + 4 + d \in Nat
    OBVIOUS
  <2>3. CmdEnd(as) \in Nat /\ CmdEnd(as) + 4 + DatBytes[as] \in Nat
    BY <2>1, <2>2 DEF CmdEnd
  <2> QED BY <2>3 DEF AnswerBytes
<1> DEFINE len == IF as \in Fn THEN AnswerBytes(as) ELSE 0
<1>2. len \in Nat
  BY <1>1
<1> HIDE DEF len
<1>3. \A j \in 1 .. len : [call |-> n, at |-> j] \in Byte
  BY <1>2 DEF Byte
<1>4. Answer(n, as) = [j \in 1 .. len |-> [call |-> n, at |-> j]]
  BY DEF Answer, len
<1>5. [j \in 1 .. len |-> [call |-> n, at |-> j]] \in Seq(Byte)
  BY <1>2, <1>3, IsASeq
<1>6. Len([j \in 1 .. len |-> [call |-> n, at |-> j]]) = len
  BY <1>2, <1>5, LenProperties
<1>7. as \notin Fn => len = 0
  BY DEF len
<1>8. as \in Fn => len = AnswerBytes(as)
  BY DEF len
<1>9. as \notin Fn => Answer(n, as) = <<>>
  BY <1>4, <1>5, <1>6, <1>7, EmptySeq
<1> QED BY <1>1, <1>4, <1>5, <1>6, <1>8, <1>9

LEMMA FirstOfTx ==
    ASSUME HostOK, LinkOK, tx # <<>>
    PROVE  /\ Len(tx) \in Nat \ {0} /\ DOMAIN tx = 1 .. Len(tx)
           /\ tx[1] \in Byte /\ tx[1].call \in 1 .. Cur /\ tx[1].call \in Nat
           /\ log[tx[1].call] \in CallRecord /\ log[tx[1].call].fn \in Fn
           /\ log[tx[1].call].as \in Ids
           /\ ReqBytes[log[tx[1].call].fn] \in Nat \ {0}
<1>1. Len(tx) \in Nat \ {0} /\ DOMAIN tx = 1 .. Len(tx)
  BY EmptySeq, LenProperties DEF LinkOK
<1>2. tx[1] \in Byte
  BY <1>1, ElementOfSeq DEF LinkOK
<1>3. tx[1].call \in 1 .. Cur /\ tx[1].call \in Nat
  <2>1. 1 \in DOMAIN tx /\ Known(tx)
    BY <1>1 DEF LinkOK
  <2>2. tx[1].call \in 1 .. Cur
    BY <2>1 DEF Known
  <2> QED BY <1>2, <2>2 DEF Byte
<1>4. log[tx[1].call] \in CallRecord
  BY <1>3, ElementOfSeq DEF LinkOK, Cur
<1>5. log[tx[1].call].fn \in Fn /\ log[tx[1].call].as \in Ids
  BY <1>4 DEF CallRecord
<1> QED BY <1>1, <1>2, <1>3, <1>4, <1>5, SizesAreNat

LEMMA BoardType ==
    ASSUME HostOK, LinkOK, Execute \/ Discard \/ Arrive
    PROVE  HostOK' /\ LinkOK'
<1>1. log' = log /\ Cur' = Cur /\ UNCHANGED <<host>>
  BY SameLog DEF Execute, Discard, Arrive, history
<1>2. HostOK'
  BY <1>1, HostSame DEF host, HostOK
<1>3. tx \in Seq(Byte) /\ Known(tx) /\ up \in Seq(Byte) /\ FromBoard(up) /\ Len(up) \in Nat
  BY LenProperties DEF LinkOK
<1>4. CASE Execute
  <2> DEFINE n == tx[1].call
             m == ReqBytes[log[n].fn]
             a == Answer(n, log[n].as)
  <2>1. n \in 1 .. Cur /\ n \in Nat /\ m \in Nat /\ log[n].as \in Ids /\ log[n].fn \in Fn
    BY <1>4, FirstOfTx DEF Execute
  <2>2. m <= Len(tx) /\ tx' = Drop(tx, m) /\ exec' = Append(exec, n) /\ up' = up \o a
    BY <1>4 DEF Execute, Whole
  <2>3. a \in Seq(Byte) /\ \A j \in DOMAIN a : a[j].call = n /\ log[n].as \in Fn
    <3>1. a \in Seq(Byte)
      BY <2>1, AnswerFacts
    <3>2. CASE log[n].as \in Fn
      <4>1. Len(a) = AnswerBytes(log[n].as) /\ DOMAIN a = 1 .. Len(a)
        BY <2>1, <3>1, <3>2, AnswerFacts, LenProperties
      <4>2. \A j \in 1 .. Len(a) : a[j] = [call |-> n, at |-> j]
        BY <2>1, <3>2, <4>1, AnswerFacts
      <4>3. \A j \in DOMAIN a : a[j].call = n
        <5>1. ASSUME NEW j \in 1 .. Len(a) PROVE a[j].call = n
          <6>1. a[j] = [call |-> n, at |-> j]
            BY <4>2
          <6> QED BY <6>1
        <5> QED BY <4>1, <5>1
      <4> QED BY <3>1, <3>2, <4>3
    <3>3. CASE log[n].as \notin Fn
      BY <2>1, <3>1, <3>3, AnswerFacts, EmptySeq, LenProperties
    <3> QED BY <3>2, <3>3
  <2> HIDE DEF n, m, a
  <2>4. m \in 0 .. Len(tx) /\ 0 \in 0 .. Len(up)
    BY <1>3, <2>1, <2>2, LenProperties
  <2>5. tx' \in Seq(Byte) /\ Known(tx')
    BY <1>3, <2>2, <2>4, DropFacts, KnownParts
  <2>6. FromBoard(a)
    BY <2>1, <2>3 DEF FromBoard
  <2>7. up' \in Seq(Byte) /\ FromBoard(up') /\ Len(up') = Len(up) + Len(a) /\ Len(a) \in Nat
    BY <1>3, <2>2, <2>3, <2>4, <2>6, KnownParts, ConcatFacts, LenProperties
  <2>8. Known(tx)' /\ FromBoard(up)'
    BY <1>1, <2>5, <2>7 DEF Known, FromBoard
  <2>9. exec' \in Seq(Nat)
    BY <2>1, <2>2, AppendProperties DEF LinkOK
  <2>10. nbuf + nrx <= Len(up')
    BY <1>3, <2>7 DEF LinkOK
  <2> QED BY <1>1, <1>2, <1>4, <2>5, <2>7, <2>8, <2>9, <2>10, SameLog DEF Execute, LinkOK
<1>5. CASE Discard
  <2>1. 1 \in 0 .. Len(tx) /\ tx' = Drop(tx, 1)
    BY <1>5, FirstOfTx DEF Discard
  <2>2. tx' \in Seq(Byte) /\ Known(tx')
    BY <1>3, <2>1, DropFacts, KnownParts
  <2>3. Known(tx)'
    BY <1>1, <2>2 DEF Known
  <2> QED BY <1>1, <1>2, <1>5, <2>2, <2>3, SameLog DEF Discard, LinkOK, usb, history
<1>6. CASE Arrive
  BY <1>1, <1>2, <1>3, <1>6, SameLog DEF Arrive, LinkOK, history
<1> QED BY <1>4, <1>5, <1>6
-----------------------------------------------------------------------------
(* Every step. *)

LEMMA StepType == HostOK /\ LinkOK /\ [Next]_vars => HostOK' /\ LinkOK'
<1> SUFFICES ASSUME HostOK, LinkOK, [Next]_vars PROVE HostOK' /\ LinkOK'
  OBVIOUS
<1>1. CASE \E f \in Fn : Client(f)
  BY <1>1, ClientType
<1>2. CASE CreateKnown
  BY <1>2, CreateType DEF CreateKnown, HostOK
<1>3. CASE CreateLookup
  BY <1>3, CreateType, FnAssumption DEF CreateLookup
<1>4. CASE NoSuchCall
  <2>1. log' = log /\ UNCHANGED <<usb, tx, history>>
    BY <1>4 DEF NoSuchCall, history
  <2>2. HostOK'
    BY <1>4, <2>1, ThrowType DEF NoSuchCall, Outcomes, Errors
  <2> QED BY <2>1, <2>2, SameLog DEF LinkOK, usb, history
<1>5. CASE WriteByte \/ WriteFull \/ WriteClosed \/ ReturnVoid \/ Flush \/ FlushFails
  BY <1>5, WriteType
<1>6. CASE CopyBytes \/ FillBuffer \/ ShortRead \/ ReadFails
  BY <1>6, ReadType
<1>7. CASE Looking
  BY <1>7, LookingType
<1>8. CASE UserFlush \/ Clear \/ Close \/ Open
  BY <1>8, UserType
<1>9. CASE Execute \/ Discard \/ Arrive
  BY <1>9, BoardType
<1>10. CASE UNCHANGED vars
  <2>1. UNCHANGED <<host, usb, tx, history>>
    BY <1>10 DEF vars
  <2>2. HostOK'
    BY <2>1, HostSame DEF host, history, HostOK
  <2> QED BY <2>1, <2>2, SameLog DEF LinkOK, usb, history
<1> QED BY <1>1, <1>2, <1>3, <1>4, <1>5, <1>6, <1>7, <1>8, <1>9, <1>10
        DEF Next, Stub, User, Board, Looking

\* The variables have their types, whatever the client calls and whatever
\* fails: sizes read out of bytes that are no size included.
THEOREM TypeCorrect == Spec => []TypeOK
<1>1. HostOK /\ LinkOK => TypeOK
  BY Parts
<1> QED BY InitType, StepType, <1>1, PTL DEF Spec

-----------------------------------------------------------------------------
(* Where the messages begin: however stale the answers are that a stub       *)
(* finds before its own, between two calls the bytes to come begin with a    *)
(* whole message, as long as no Read was cut short and no data message is    *)
(* longer than a uint16_t can count.                                         *)

\* The size of each data message is kept whole in 16 bits.
SmallData == \A f \in Fn : DatBytes[f] < Wide

-----------------------------------------------------------------------------
(* Answers and their bytes. *)

LEMMA AnswerSizes ==
    ASSUME NEW f \in Fn
    PROVE  /\ ParBytes[f] \in Nat /\ DatBytes[f] \in Nat /\ AnswerBytes(f) \in Nat
           /\ CmdEnd(f) = 4 + ParBytes[f] /\ CmdEnd(f) \in Nat
           /\ HasData(f) => HasAnswer(f) /\ AnswerBytes(f) = CmdEnd(f) + 4 + DatBytes[f]
           /\ ~HasData(f) /\ HasAnswer(f) => AnswerBytes(f) = CmdEnd(f)
           /\ ~HasAnswer(f) => AnswerBytes(f) = 0
<1>1. ParBytes[f] \in Nat /\ DatBytes[f] \in Nat
  BY SizesAreNat
<1>2. CmdEnd(f) = 4 + ParBytes[f] /\ CmdEnd(f) \in Nat
  BY <1>1 DEF CmdEnd
<1>3. HasData(f) => HasAnswer(f)
  BY DEF HasData, HasAnswer
<1>4. /\ HasData(f) => AnswerBytes(f) = CmdEnd(f) + 4 + DatBytes[f]
      /\ ~HasData(f) /\ HasAnswer(f) => AnswerBytes(f) = CmdEnd(f)
      /\ ~HasAnswer(f) => AnswerBytes(f) = 0
  BY <1>3 DEF AnswerBytes
<1>5. AnswerBytes(f) \in Nat
  BY <1>1, <1>2, <1>4
<1> QED BY <1>1, <1>2, <1>3, <1>4, <1>5

\* What is on its way from the board, byte by byte.
LEMMA UpIs ==
    LinkOK => /\ up \in Seq(Byte) /\ DOMAIN up = 1 .. Len(up) /\ Len(up) \in Nat
              /\ up # <<>> => 1 \in DOMAIN up
              /\ \A i \in DOMAIN up : /\ up[i].call \in 1 .. Cur /\ log[up[i].call].as \in Fn
                                      /\ up[i].at \in Nat \ {0}
<1> SUFFICES ASSUME LinkOK
             PROVE  /\ up \in Seq(Byte) /\ DOMAIN up = 1 .. Len(up) /\ Len(up) \in Nat
                    /\ up # <<>> => 1 \in DOMAIN up
                    /\ \A i \in DOMAIN up : /\ up[i].call \in 1 .. Cur /\ log[up[i].call].as \in Fn
                                            /\ up[i].at \in Nat \ {0}
  OBVIOUS
<1>1. up \in Seq(Byte) /\ DOMAIN up = 1 .. Len(up) /\ Len(up) \in Nat /\ FromBoard(up)
  BY LenProperties DEF LinkOK
<1>2. up # <<>> => 1 \in DOMAIN up
  BY <1>1, EmptySeq
<1>3. \A i \in DOMAIN up : up[i] \in Byte
  BY <1>1, ElementOfSeq
<1>4. \A i \in DOMAIN up : up[i].at \in Nat \ {0}
  BY <1>3 DEF Byte
<1> QED BY <1>1, <1>2, <1>4 DEF FromBoard

\* Behind the command part of an answer, and behind the whole, a message begins.
LEMMA BoundaryAt ==
    ASSUME LinkOK, NEW c, NEW q \in Nat, log[c].as \in Fn, HasAnswer(log[c].as), Follows(c, q),
           q = CmdEnd(log[c].as) \/ q = AnswerBytes(log[c].as)
    PROVE  AtStart
<1> DEFINE f == log[c].as
<1>1. /\ CmdEnd(f) \in Nat /\ AnswerBytes(f) \in Nat
      /\ ~HasData(f) => AnswerBytes(f) = CmdEnd(f)
  BY AnswerSizes
<1>2. CASE q < AnswerBytes(f)
  <2>1. up # <<>> /\ up[1] = [call |-> c, at |-> q + 1]
    BY <1>2 DEF Follows
  <2>2. up[1].call = c /\ up[1].at = q + 1
    BY <2>1
  <2>3. HasData(f) /\ q = CmdEnd(f)
    BY <1>1, <1>2
  <2> QED BY <2>2, <2>3 DEF AtStart, StartsMessage
<1>3. CASE ~(q < AnswerBytes(f))
  BY <1>3 DEF Follows, AtStart, StartsMessage
<1> QED BY <1>2, <1>3

-----------------------------------------------------------------------------
(* The bytes from the board, when some are taken and some come. *)

LEMMA RunsCut ==
    ASSUME LinkOK, Runs, NEW m \in 0 .. Len(up), up' = Drop(up, m), log' = log
    PROVE  Runs'
<1>1. /\ DOMAIN up = 1 .. Len(up) /\ Len(up) \in Nat /\ m \in Nat /\ m <= Len(up)
      /\ DOMAIN up' = 1 .. Len(up) - m
      /\ \A i \in 1 .. Len(up) - m : up'[i] = up[m + i]
  <2>1. up \in Seq(Byte) /\ DOMAIN up = 1 .. Len(up) /\ Len(up) \in Nat
    BY UpIs
  <2>2. m \in Nat /\ m <= Len(up)
    BY <2>1
  <2>3. /\ Drop(up, m) \in Seq(Byte) /\ Len(Drop(up, m)) = Len(up) - m
        /\ \A i \in 1 .. Len(up) - m : Drop(up, m)[i] = up[m + i]
    BY <2>1, DropFacts
  <2>4. DOMAIN Drop(up, m) = 1 .. Len(up) - m
    BY <2>3, LenProperties
  <2> QED BY <2>1, <2>2, <2>3, <2>4
<1>2. SUFFICES ASSUME NEW i \in DOMAIN up'
               PROVE  /\ RestOf(up'[i]) \in Nat /\ i + RestOf(up'[i]) \in DOMAIN up'
                      /\ \A j \in 0 .. RestOf(up'[i]) :
                            up'[i + j] = [call |-> up'[i].call, at |-> up'[i].at + j]
                      /\ i + RestOf(up'[i]) + 1 \in DOMAIN up'
                            => up'[i + RestOf(up'[i]) + 1].at = 1
  BY DEF Runs, RestOf
<1> DEFINE r == RestOf(up[m + i])
           e == m + i
<1>3. e \in DOMAIN up /\ up'[i] = up[e] /\ i \in Nat \ {0} /\ e \in Nat
  BY <1>1, <1>2
<1>4. /\ r \in Nat /\ e + r \in DOMAIN up
      /\ \A j \in 0 .. r : up[e + j] = [call |-> up[e].call, at |-> up[e].at + j]
      /\ e + r + 1 \in DOMAIN up => up[e + r + 1].at = 1
  BY <1>3 DEF Runs
<1> HIDE DEF r
<1>5. i + r \in DOMAIN up'
  BY <1>1, <1>3, <1>4
<1>6. ASSUME NEW j \in 0 .. r PROVE up'[i + j] = [call |-> up'[i].call, at |-> up'[i].at + j]
  <2>1. i + j \in 1 .. Len(up) - m /\ m + (i + j) = e + j
    <3>1. /\ Len(up) \in Nat /\ m \in Nat /\ i \in Nat \ {0} /\ r \in Nat
          /\ j \in Nat /\ j <= r /\ (m + i) + r <= Len(up)
      BY <1>1, <1>3, <1>4
    <3> QED BY <3>1
  <2> QED BY <1>1, <1>3, <1>4, <2>1
<1>7. ASSUME i + r + 1 \in DOMAIN up' PROVE up'[i + r + 1].at = 1
  <2>1. m + (i + r + 1) = e + r + 1 /\ e + r + 1 \in DOMAIN up
    BY <1>1, <1>3, <1>4, <1>7
  <2> QED BY <1>1, <1>4, <1>7, <2>1
<1> QED BY <1>3, <1>4, <1>5, <1>6, <1>7 DEF r

LEMMA Differences ==
    \A a, b \in Nat :
        /\ b + 1 <= a => 1 \in 1 .. a - b /\ a - b # 0
        /\ a - b # 0 /\ b <= a => b + 1 <= a
OBVIOUS

LEMMA NextPlace ==
    \A a, b, i, r \in Nat :
        i + r <= a /\ ~(i + r + 1 <= a) /\ i + r + 1 <= a + b => i + r + 1 = a + 1 /\ 1 \in 1 .. b
OBVIOUS

\* The next m bytes of an answer are taken.
LEMMA Taking ==
    ASSUME LinkOK, LinkOK', Runs, NEW c, NEW q \in Nat, log[c].as \in Fn, Follows(c, q),
           NEW m \in 1 .. Len(up), q + m <= AnswerBytes(log[c].as), up' = Drop(up, m), log' = log
    PROVE  /\ \A j \in 1 .. m : up[j] = [call |-> c, at |-> q + j]
           /\ Follows(c, q + m)'
<1> DEFINE a == AnswerBytes(log[c].as)
           r == RestOf(up[1])
<1>1. a \in Nat
  BY AnswerSizes
<1>2. /\ up \in Seq(Byte) /\ DOMAIN up = 1 .. Len(up) /\ Len(up) \in Nat /\ m \in Nat \ {0}
      /\ m <= Len(up)
  <2>1. up \in Seq(Byte) /\ DOMAIN up = 1 .. Len(up) /\ Len(up) \in Nat
    BY UpIs
  <2> QED BY <2>1
<1>3. q < a /\ q + m <= a
  BY <1>1, <1>2
<1>4. up # <<>> /\ up[1] = [call |-> c, at |-> q + 1] /\ 1 \in DOMAIN up
  BY <1>2, <1>3 DEF Follows
<1>5. up[1].call = c /\ up[1].at = q + 1
  BY <1>4
<1>6. r = a - (q + 1)
  BY <1>5 DEF RestOf
<1>7. /\ r \in Nat /\ 1 + r \in DOMAIN up
      /\ \A j \in 0 .. r : up[1 + j] = [call |-> c, at |-> (q + 1) + j]
      /\ 1 + r + 1 \in DOMAIN up => up[1 + r + 1].at = 1
  BY <1>4, <1>5 DEF Runs
<1> HIDE DEF a, r
<1>8. ASSUME NEW j \in 1 .. m PROVE up[j] = [call |-> c, at |-> q + j]
  <2>1. j - 1 \in 0 .. r /\ 1 + (j - 1) = j /\ (q + 1) + (j - 1) = q + j
    BY <1>1, <1>2, <1>3, <1>6, <1>7
  <2> QED BY <1>7, <2>1
<1>9. /\ Len(up') = Len(up) - m /\ up' \in Seq(Byte)
      /\ \A i \in 1 .. Len(up) - m : up'[i] = up[m + i]
  <2>1. m \in 0 .. Len(up)
    BY <1>2
  <2> QED BY <1>2, <2>1, DropFacts
<1>10. CASE q + m < a
  <2>1. m \in 0 .. r /\ 1 + m \in DOMAIN up
    <3>1. /\ a \in Nat /\ q \in Nat /\ m \in Nat /\ r \in Nat /\ Len(up) \in Nat
          /\ r = a - (q + 1) /\ q + m < a /\ 1 + r <= Len(up)
      BY <1>1, <1>2, <1>6, <1>7, <1>10
    <3>2. m <= r /\ 1 + m <= Len(up)
      BY <3>1
    <3> QED BY <1>2, <3>1, <3>2
  <2>2. up[1 + m] = [call |-> c, at |-> (q + 1) + m] /\ (q + 1) + m = (q + m) + 1 /\ 1 + m = m + 1
    BY <1>2, <1>7, <2>1
  <2>3. 1 \in 1 .. Len(up) - m /\ Len(up) - m # 0
    <3>1. m + 1 <= Len(up)
      BY <1>2, <2>1
    <3> QED BY <1>2, <3>1, Differences
  <2>4. up'[1] = [call |-> c, at |-> (q + m) + 1] /\ Len(up') # 0
    <3>1. up'[1] = up[m + 1]
      BY <1>9, <2>3
    <3>2. up[m + 1] = [call |-> c, at |-> (q + m) + 1]
      BY <2>2
    <3>3. Len(up') # 0
      BY <1>9, <2>3
    <3> QED BY <3>1, <3>2, <3>3
  <2>5. up' # <<>>
    BY <2>4, EmptySeq
  <2> QED BY <1>8, <1>10, <2>4, <2>5 DEF Follows, a
<1>11. CASE ~(q + m < a)
  <2>1. 1 + r = m
    BY <1>1, <1>2, <1>3, <1>6, <1>7, <1>11
  <2>2. ASSUME up' # <<>> PROVE up'[1].at = 1
    <3>1. Len(up) - m # 0
      BY <1>9, <2>2, EmptySeq
    <3>2. m + 1 <= Len(up)
      BY <1>2, <3>1, Differences
    <3>3. 1 \in 1 .. Len(up) - m /\ m + 1 \in DOMAIN up
      BY <1>2, <3>2, Differences
    <3>4. 1 + r + 1 = m + 1
      BY <2>1
    <3> QED BY <1>7, <1>9, <3>3, <3>4
  <2> QED BY <1>8, <1>11, <2>2 DEF Follows, a
<1> QED BY <1>10, <1>11

LEMMA RunsGrow ==
    ASSUME HostOK, LinkOK, Runs, Execute
    PROVE  /\ Runs'
           /\ AtStart => AtStart'
           /\ \A c, q : Follows(c, q) => Follows(c, q)'
<1> DEFINE n == tx[1].call
           a == Answer(n, log[n].as)
<1>1. log' = log /\ Cur' = Cur /\ up' = up \o a /\ tx # <<>>
  BY SameLog DEF Execute, history
<1>2. n \in Nat /\ n \in 1 .. Cur /\ log[n].as \in Ids
  BY <1>1, FirstOfTx
<1>3. up \in Seq(Byte) /\ DOMAIN up = 1 .. Len(up) /\ Len(up) \in Nat
  BY UpIs
<1>4. /\ a \in Seq(Byte) /\ Len(a) \in Nat
      /\ Len(a) # 0 => log[n].as \in Fn /\ Len(a) = AnswerBytes(log[n].as)
      /\ \A j \in 1 .. Len(a) : a[j] = [call |-> n, at |-> j]
  <2>1. CASE log[n].as \in Fn
    BY <1>2, <2>1, AnswerFacts
  <2>2. CASE log[n].as \notin Fn
    <3>1. a = <<>>
      BY <1>2, <2>2, AnswerFacts
    <3>2. Len(a) = 0 /\ a \in Seq(Byte)
      BY <3>1, EmptySeq
    <3> QED BY <3>2
  <2> QED BY <2>1, <2>2
<1> HIDE DEF a, n
<1>5. /\ DOMAIN up' = 1 .. Len(up) + Len(a) /\ Len(up') = Len(up) + Len(a)
      /\ \A i \in 1 .. Len(up) : up'[i] = up[i]
      /\ \A j \in 1 .. Len(a) : up'[Len(up) + j] = [call |-> n, at |-> j]
  <2>1. /\ up \o a \in Seq(Byte) /\ Len(up \o a) = Len(up) + Len(a)
        /\ \A i \in 1 .. Len(up) : (up \o a)[i] = up[i]
        /\ \A i \in 1 .. Len(a) : (up \o a)[Len(up) + i] = a[i]
    BY <1>3, <1>4, ConcatFacts
  <2>2. DOMAIN (up \o a) = 1 .. Len(up) + Len(a)
    BY <2>1, LenProperties
  <2> QED BY <1>1, <1>4, <2>1, <2>2
<1>6. up = <<>> => (up' # <<>> => up'[1].at = 1)
  <2> SUFFICES ASSUME up = <<>>, up' # <<>> PROVE up'[1].at = 1
    OBVIOUS
  <2>1. Len(up) = 0
    BY <1>3, EmptySeq
  <2>2. Len(up') # 0
    BY <1>1, <1>3, <1>4, EmptySeq, ConcatFacts
  <2>3. 1 \in 1 .. Len(a) /\ Len(up) + 1 = 1
    BY <1>4, <1>5, <2>1, <2>2
  <2>4. up'[1] = [call |-> n, at |-> 1]
    BY <1>5, <2>3
  <2> QED BY <2>4
<1>7. up # <<>> => up' # <<>> /\ up'[1] = up[1]
  <2> SUFFICES ASSUME up # <<>> PROVE up' # <<>> /\ up'[1] = up[1]
    OBVIOUS
  <2>1. Len(up) # 0
    BY <1>3, EmptySeq
  <2>2. 1 \in 1 .. Len(up) /\ Len(up') # 0
    BY <1>3, <1>4, <1>5, <2>1
  <2> QED BY <1>5, <2>2, EmptySeq
<1>8. ASSUME NEW i \in DOMAIN up'
      PROVE  /\ RestOf(up'[i]) \in Nat /\ i + RestOf(up'[i]) \in DOMAIN up'
             /\ \A j \in 0 .. RestOf(up'[i]) :
                   up'[i + j] = [call |-> up'[i].call, at |-> up'[i].at + j]
             /\ i + RestOf(up'[i]) + 1 \in DOMAIN up'
                   => up'[i + RestOf(up'[i]) + 1].at = 1
  <2>1. CASE i \in 1 .. Len(up)
    <3> DEFINE r == RestOf(up[i])
    <3>0. i \in DOMAIN up /\ i \in Nat \ {0} /\ up'[i] = up[i]
      BY <1>3, <1>5, <2>1
    <3>1. /\ r \in Nat /\ i + r \in DOMAIN up
          /\ \A j \in 0 .. r : up[i + j] = [call |-> up[i].call, at |-> up[i].at + j]
          /\ i + r + 1 \in DOMAIN up => up[i + r + 1].at = 1
      BY <3>0 DEF Runs
    <3> HIDE DEF r
    <3>2. i + r \in DOMAIN up'
      BY <1>3, <1>4, <1>5, <3>0, <3>1
    <3>3. ASSUME NEW j \in 0 .. r PROVE up'[i + j] = [call |-> up[i].call, at |-> up[i].at + j]
      <4>1. i + j \in 1 .. Len(up)
        BY <1>3, <3>0, <3>1
      <4> QED BY <1>5, <3>1, <4>1
    <3>4. ASSUME i + r + 1 \in DOMAIN up' PROVE up'[i + r + 1].at = 1
      <4>1. CASE i + r + 1 \in 1 .. Len(up)
        BY <1>3, <1>5, <3>0, <3>1, <4>1
      <4>2. CASE ~(i + r + 1 \in 1 .. Len(up))
        <5>0. i + r <= Len(up) /\ ~(i + r + 1 <= Len(up)) /\ i + r + 1 <= Len(up) + Len(a)
          BY <1>3, <1>5, <3>0, <3>1, <3>4, <4>2
        <5>1. i + r + 1 = Len(up) + 1 /\ 1 \in 1 .. Len(a)
          BY <1>3, <1>4, <3>0, <3>1, <5>0, NextPlace
        <5>2. up'[i + r + 1] = [call |-> n, at |-> 1]
          BY <1>5, <5>1
        <5> QED BY <5>2
      <4> QED BY <4>1, <4>2
    <3> QED BY <3>0, <3>1, <3>2, <3>3, <3>4 DEF r
  <2>2. CASE ~(i \in 1 .. Len(up))
    <3> DEFINE k == i - Len(up)
               r == Len(a) - k
    <3>0. i \in 1 .. Len(up) + Len(a)
      BY <1>5, <1>8
    <3>1. /\ k \in 1 .. Len(a) /\ i = Len(up) + k /\ k \in Nat \ {0} /\ r \in Nat /\ k + r = Len(a)
          /\ i \in Nat \ {0}
      <4>1. Len(up) \in Nat /\ Len(a) \in Nat
        BY <1>3, <1>4
      <4>2. i \in Nat \ {0} /\ i <= Len(up) + Len(a) /\ Len(up) < i
        BY <2>2, <3>0, <4>1
      <4>3. i - Len(up) \in Nat \ {0} /\ i - Len(up) \in 1 .. Len(a) /\ i = Len(up) + (i - Len(up))
        BY <4>1, <4>2
      <4>4. Len(a) - (i - Len(up)) \in Nat /\ (i - Len(up)) + (Len(a) - (i - Len(up))) = Len(a)
        BY <4>1, <4>2
      <4> QED BY <4>2, <4>3, <4>4
    <3> HIDE DEF k
    <3>2. up'[i] = [call |-> n, at |-> k]
      BY <1>5, <3>1
    <3>3. up'[i].call = n /\ up'[i].at = k
      BY <3>2
    <3>4. RestOf(up'[i]) = r
      <4>1. Len(a) # 0
        BY <1>4, <3>1
      <4> QED BY <1>4, <3>3, <4>1 DEF RestOf
    <3> HIDE DEF r
    <3>5. i + r \in DOMAIN up' /\ ~(i + r + 1 \in DOMAIN up')
      BY <1>3, <1>4, <1>5, <3>1
    <3>6. ASSUME NEW j \in 0 .. r PROVE up'[i + j] = [call |-> n, at |-> k + j]
      <4>1. k + j \in 1 .. Len(a) /\ i + j = Len(up) + (k + j)
        BY <1>3, <1>4, <3>1
      <4> QED BY <1>5, <4>1
    <3> QED BY <3>1, <3>3, <3>4, <3>5, <3>6
  <2> QED BY <2>1, <2>2
<1>9. Runs'
  BY <1>1, <1>8 DEF Runs, RestOf
<1>10. AtStart => AtStart'
  BY <1>1, <1>6, <1>7 DEF AtStart, StartsMessage
<1>11. \A c, q : Follows(c, q) => Follows(c, q)'
  BY <1>1, <1>6, <1>7 DEF Follows
<1> QED BY <1>9, <1>10, <1>11

-----------------------------------------------------------------------------
(* A Read copies bytes. *)

LEMMA PlaceIs ==
    ASSUME NEW c, log[c].as \in Fn PROVE Place(c) \in Nat /\ Total(c) \in Nat
<1>1. CmdEnd(log[c].as) \in Nat /\ ParBytes[log[c].as] \in Nat /\ DatBytes[log[c].as] \in Nat
  BY AnswerSizes
<1>2. CmdEnd(log[c].as) + 1 \in Nat /\ CmdEnd(log[c].as) + 4 \in Nat
  BY <1>1
<1> QED BY <1>1, <1>2 DEF Place, Total

LEMMA Copied ==
    ASSUME HostOK, LinkOK, CopyBytes
    PROVE  \E m \in 1 .. Len(up) :
              /\ m <= need /\ up' = Drop(up, m) /\ need' = need - m /\ Len(got') = Len(got) + m
              /\ DOMAIN got' = 1 .. Len(got) + m
              /\ \A i \in DOMAIN got' : \/ i \in 1 .. Len(got) /\ got'[i] = got[i]
                                        \/ i - Len(got) \in 1 .. m /\ got'[i] = up[i - Len(got)]
<1>1. /\ up \in Seq(Byte) /\ got \in Seq(Byte) /\ Len(up) \in Nat /\ Len(got) \in Nat
      /\ nbuf \in Nat /\ nrx \in Nat /\ nbuf + nrx <= Len(up) /\ need \in Nat /\ nbuf > 0
      /\ need > 0
  BY LenProperties DEF HostOK, LinkOK, CopyBytes, Reading
<1>2. PICK m \in 1 .. Len(up) :
        m <= need /\ got' = got \o SubSeq(up, 1, m) /\ up' = Drop(up, m) /\ need' = need - m
  <2>1. Least(need, nbuf) \in 1 .. Len(up) /\ Least(need, nbuf) <= need
    BY <1>1 DEF Least
  <2> QED BY <2>1 DEF CopyBytes
<1> DEFINE w == SubSeq(up, 1, m)
<1>3. w \in Seq(Byte) /\ Len(w) = m /\ \A i \in 1 .. m : w[i] = up[i]
  <2>1. m \in 0 .. Len(up)
    BY <1>1
  <2> QED BY <1>1, <2>1, PrefixFacts
<1>4. got' = got \o w
  BY <1>2
<1> HIDE DEF w
<1>5. /\ got' \in Seq(Byte) /\ Len(got') = Len(got) + m
      /\ \A i \in 1 .. Len(got) + m :
            \/ i \in 1 .. Len(got) /\ got'[i] = got[i]
            \/ i - Len(got) \in 1 .. m /\ got'[i] = w[i - Len(got)]
  BY <1>1, <1>3, <1>4, ConcatFacts
<1>6. DOMAIN got' = 1 .. Len(got) + m
  BY <1>5, LenProperties
<1>7. \A i \in DOMAIN got' : \/ i \in 1 .. Len(got) /\ got'[i] = got[i]
                             \/ i - Len(got) \in 1 .. m /\ got'[i] = up[i - Len(got)]
  BY <1>3, <1>5, <1>6
<1> QED BY <1>2, <1>5, <1>6, <1>7

LEMMA CopyInside ==
    ASSUME HostOK, LinkOK, LinkOK', Runs, CopyBytes, NEW c \in 1 .. Cur, log[c].as \in Fn,
           Inside(c)
    PROVE  Inside(c)'
<1>1. UNCHANGED <<log, field, hdr>>
  BY DEF CopyBytes, history
<1>2. Place(c)' = Place(c) /\ Total(c)' = Total(c) /\ Place(c) \in Nat /\ Total(c) \in Nat
  BY <1>1, PlaceIs DEF Place, Total
<1>3. PICK m \in 1 .. Len(up) :
          /\ m <= need /\ up' = Drop(up, m) /\ need' = need - m /\ Len(got') = Len(got) + m
          /\ DOMAIN got' = 1 .. Len(got) + m
          /\ \A i \in DOMAIN got' : \/ i \in 1 .. Len(got) /\ got'[i] = got[i]
                                    \/ i - Len(got) \in 1 .. m /\ got'[i] = up[i - Len(got)]
  BY Copied
<1>4. /\ Len(got) \in Nat /\ DOMAIN got = 1 .. Len(got) /\ need \in Nat /\ m \in Nat
      /\ AnswerBytes(log[c].as) \in Nat
  BY <1>3, LenProperties, UpIs, AnswerSizes DEF HostOK
<1>q. PICK q \in Nat : q = Place(c) + Len(got)
  <2>1. Place(c) + Len(got) \in Nat
    BY <1>2, <1>4
  <2> QED BY <2>1
<1>5. q + m <= AnswerBytes(log[c].as) /\ Follows(c, q)
  <2>1. Follows(c, q)
    BY <1>q DEF Inside
  <2>2. need + Len(got) = Total(c) /\ Place(c) + Total(c) <= AnswerBytes(log[c].as)
    BY DEF Inside
  <2>3. q + m <= Place(c) + Total(c)
    <3>1. /\ m <= need /\ m \in Nat /\ need \in Nat /\ Len(got) \in Nat /\ Place(c) \in Nat
          /\ q = Place(c) + Len(got) /\ Total(c) = need + Len(got)
      BY <1>q, <1>2, <1>3, <1>4, <2>2
    <3> QED BY <3>1
  <2> QED BY <1>2, <1>4, <2>1, <2>2, <2>3
<1>6. (\A j \in 1 .. m : up[j] = [call |-> c, at |-> q + j]) /\ Follows(c, q + m)'
  BY <1>1, <1>3, <1>5, Taking
<1>7. need' + Len(got') = Total(c)' /\ Place(c)' + Len(got') = q + m
  BY <1>q, <1>2, <1>3, <1>4 DEF Inside
<1>8. ASSUME NEW i \in DOMAIN got' PROVE got'[i] = [call |-> c, at |-> Place(c) + i]
  <2>1. CASE i \in 1 .. Len(got) /\ got'[i] = got[i]
    BY <1>4, <2>1 DEF Inside, Continues
  <2>2. CASE i - Len(got) \in 1 .. m /\ got'[i] = up[i - Len(got)]
    <3>1. q + (i - Len(got)) = Place(c) + i
      BY <1>q, <1>2, <1>3, <1>4, <1>8
    <3> QED BY <1>6, <2>2, <3>1
  <2> QED BY <1>3, <1>8, <2>1, <2>2
<1>9. Follows(c, Place(c) + Len(got))'
  BY <1>6, <1>7 DEF Follows
<1> QED BY <1>1, <1>2, <1>7, <1>8, <1>9 DEF Inside, Continues

LEMMA CopyTypeRead ==
    ASSUME HostOK, LinkOK, LinkOK', Runs, CopyBytes, TypeRead
    PROVE  TypeRead'
<1>1. log' = log /\ need > 0
  BY DEF CopyBytes, Reading, history
<1>2. PICK m \in 1 .. Len(up) :
          /\ m <= need /\ up' = Drop(up, m) /\ need' = need - m /\ Len(got') = Len(got) + m
          /\ DOMAIN got' = 1 .. Len(got) + m
          /\ \A i \in DOMAIN got' : \/ i \in 1 .. Len(got) /\ got'[i] = got[i]
                                    \/ i - Len(got) \in 1 .. m /\ got'[i] = up[i - Len(got)]
  BY Copied
<1>3. /\ Len(got) \in Nat /\ need \in Nat /\ Len(up) \in Nat /\ 1 \in DOMAIN up
      /\ DOMAIN up = 1 .. Len(up)
  BY <1>2, LenProperties, UpIs DEF HostOK
<1>4. need = 1 /\ Len(got) = 0 /\ m = 1
  BY <1>1, <1>2, <1>3 DEF TypeRead
<1>5. need' = 0 /\ Len(got') = 1 /\ got'[1] = up[1]
  <2>1. need' = 0 /\ Len(got') = 1 /\ 1 \in DOMAIN got' /\ ~(1 \in 1 .. Len(got)) /\ 1 - Len(got) = 1
    BY <1>2, <1>4
  <2>2. got'[1] = up[1 - Len(got)]
    BY <1>2, <2>1
  <2> QED BY <2>1, <2>2
<1>c. PICK c : c = up[1].call
  OBVIOUS
<1>6. /\ c \in 1 .. Cur /\ log[c].as \in Fn /\ up[1].at \in Nat \ {0}
      /\ RestOf(up[1]) \in Nat /\ up[1 + 0] = [call |-> c, at |-> up[1].at + 0]
  <2>1. up[1].call \in 1 .. Cur /\ log[up[1].call].as \in Fn /\ up[1].at \in Nat \ {0}
    BY <1>3, UpIs
  <2>2. RestOf(up[1]) \in Nat
    BY <1>3 DEF Runs
  <2>3. 0 \in 0 .. RestOf(up[1])
    BY <2>2
  <2>4. up[1 + 0] = [call |-> c, at |-> up[1].at + 0]
    BY <1>c, <1>3, <2>3 DEF Runs
  <2> QED BY <1>c, <2>1, <2>2, <2>4
<1>q. PICK q \in Nat : q + 1 = up[1].at
  <2>1. up[1].at - 1 \in Nat /\ (up[1].at - 1) + 1 = up[1].at
    BY <1>6
  <2> QED BY <2>1
<1>7. /\ up[1] = [call |-> c, at |-> q + 1]
      /\ q + 1 <= AnswerBytes(log[c].as) /\ q < AnswerBytes(log[c].as) /\ HasAnswer(log[c].as)
  <2>1. AnswerBytes(log[c].as) \in Nat /\ (~HasAnswer(log[c].as) => AnswerBytes(log[c].as) = 0)
    BY <1>6, AnswerSizes
  <2>2. 1 + 0 = 1 /\ up[1].at + 0 = up[1].at
    BY <1>6
  <2>3. up[1].at <= AnswerBytes(log[c].as)
    BY <1>c, <1>6, <2>1 DEF RestOf
  <2> QED BY <1>q, <1>6, <2>1, <2>2, <2>3
<1>8. StartsMessage(up[1]) /\ up # <<>>
  <2>1. up # <<>>
    BY <1>3, EmptySeq
  <2> QED BY <1>4, <2>1 DEF TypeRead, AtStart
<1>9. Follows(c, q)
  BY <1>7, <1>8 DEF Follows
<1>10. Follows(c, q + 1)'
  <2>1. 1 \in 1 .. Len(up) /\ up' = Drop(up, 1)
    BY <1>2, <1>3, <1>4
  <2> QED BY <1>1, <1>6, <1>7, <1>9, <2>1, Taking
<1>11. got'[1].call = c /\ got'[1].at = q + 1
  BY <1>c, <1>q, <1>5
<1>12. Follows(got[1].call, got[1].at)'
  BY <1>10, <1>11 DEF Follows
<1>13. StartsMessage(got[1])' /\ HasAnswer(log[got[1].call].as)'
  BY <1>1, <1>5, <1>7, <1>8, <1>11 DEF StartsMessage
<1> QED BY <1>5, <1>12, <1>13 DEF TypeRead

-----------------------------------------------------------------------------
(* A stub looks at a field that it has read. *)

\* It goes on to a field of the answer to call c that begins behind place q.
LEMMA GoesOn ==
    ASSUME LinkOK, log' = log, up' = up, pc' = "read", got' = <<>>, field' \notin {"type", "dtype"},
           Runs, NEW c \in 1 .. Cur, log[c].as \in Fn, NEW q \in Nat, Follows(c, q),
           Place(c)' = q, need' = Total(c)', need' \in Nat, q + need' <= AnswerBytes(log[c].as)
    PROVE  Aligned'
<1>1. Len(got') = 0 /\ DOMAIN got' = {} /\ q + 0 = q /\ need' + 0 = need'
  BY EmptySeq
<1>2. Follows(c, Place(c) + Len(got))'
  BY <1>1 DEF Follows
<1>3. Inside(c)'
  BY <1>1, <1>2 DEF Inside, Continues
<1>4. Runs' /\ Cur' = Cur
  BY SameLog DEF Runs, RestOf
<1> QED BY <1>3, <1>4 DEF Aligned

\* It is done with the message, and ends or waits for the next one.
LEMMA AtBoundary ==
    ASSUME LinkOK, log' = log, up' = up, Runs, whole' => AtStart,
           pc' # "read" \/ (field' \in {"type", "dtype"} /\ need' = 1 /\ got' = <<>>)
    PROVE  Aligned'
<1>1. Runs' /\ (AtStart => AtStart')
  BY DEF Runs, RestOf, AtStart, StartsMessage
<1>2. ASSUME pc' = "read", whole' PROVE TypeRead'
  <2>1. Len(got') = 0 /\ 1 + 0 = 1
    BY <1>2, EmptySeq
  <2> QED BY <1>1, <1>2, <2>1 DEF TypeRead
<1> QED BY <1>1, <1>2 DEF Aligned

\* The first byte of a message.
LEMMA TypeIs ==
    ASSUME HostOK, LinkOK, TypeRead, need = 0
    PROVE  \E c \in 1 .. Cur : \E q \in Nat :
              /\ got[1].call = c /\ got[1].at = q /\ log[c].as \in Fn /\ HasAnswer(log[c].as)
              /\ Follows(c, q)
              /\ \/ q = 1 /\ TypeOf(log, got) = {"DTB"}
                 \/ /\ q = CmdEnd(log[c].as) + 1 /\ HasData(log[c].as)
                    /\ TypeOf(log, got) = {"DATA"}
<1>1. Len(got) = 1 /\ got # <<>> /\ got \in Seq(Byte)
  <2>1. got \in Seq(Byte) /\ Len(got) \in Nat
    BY LenProperties DEF HostOK
  <2>2. Len(got) = 1
    BY <2>1 DEF TypeRead
  <2> QED BY <2>1, <2>2, EmptySeq
<1>2. got[1].call \in 1 .. Cur /\ log[got[1].call].as \in Fn
  BY <1>1, FirstByte
<1>3. got[1] \in Byte
  BY <1>1, ElementOfSeq
<1>4. StartsMessage(got[1]) /\ HasAnswer(log[got[1].call].as) /\ Follows(got[1].call, got[1].at)
  BY DEF TypeRead
<1>5. CmdEnd(log[got[1].call].as) \in Nat /\ CmdEnd(log[got[1].call].as) >= 4
  BY <1>2, AnswerSizes
<1>6. got[1].at \in Nat
  BY <1>3 DEF Byte
<1>7. CASE got[1].at = 1
  BY <1>2, <1>4, <1>6, <1>7 DEF TypeOf
<1>8. CASE got[1].at # 1
  <2>1. HasData(log[got[1].call].as) /\ got[1].at = CmdEnd(log[got[1].call].as) + 1
    BY <1>4, <1>8 DEF StartsMessage
  <2>2. TypeOf(log, got) = {"DATA"}
    BY <1>8, <2>1 DEF TypeOf
  <2> QED BY <1>2, <1>4, <1>6, <2>1, <2>2
<1> QED BY <1>7, <1>8

\* The rest of a message that a stub does not expect is drained.
LEMMA Drains ==
    ASSUME HostOK, LinkOK, Quiet, Runs, NEW c \in 1 .. Cur, NEW q \in Nat, log[c].as \in Fn,
           HasAnswer(log[c].as), Follows(c, q), NEW e \in Errors,
           Await("drain", 3, [hdr EXCEPT !.err = e]),
           \/ q = 1 /\ e = "NO_DATA_MSG"
           \/ q = CmdEnd(log[c].as) + 1 /\ HasData(log[c].as) /\ e # "NO_DATA_MSG"
    PROVE  Aligned'
<1>1. /\ pc' = "read" /\ field' = "drain" /\ need' = 3 /\ got' = <<>> /\ log' = log /\ up' = up
      /\ hdr' = [hdr EXCEPT !.err = e]
  BY DEF Await, Quiet, usb, history
<1>2. hdr'.err = e
  BY <1>1, HdrIs DEF Headers
<1>3. Place(c)' = q /\ Total(c)' = 3
  BY <1>1, <1>2 DEF Place, Total
<1>4. q + 3 <= AnswerBytes(log[c].as)
  <2>1. /\ ParBytes[log[c].as] \in Nat /\ DatBytes[log[c].as] \in Nat
        /\ CmdEnd(log[c].as) = 4 + ParBytes[log[c].as]
        /\ HasData(log[c].as) => AnswerBytes(log[c].as) = CmdEnd(log[c].as) + 4 + DatBytes[log[c].as]
        /\ ~HasData(log[c].as) => AnswerBytes(log[c].as) = CmdEnd(log[c].as)
    BY AnswerSizes
  <2> QED BY <2>1
<1> QED BY <1>1, <1>3, <1>4, GoesOn

LEMMA GotTypeAligned ==
    ASSUME HostOK, LinkOK, Runs, TypeRead, GotType
    PROVE  Aligned'
<1>1. need = 0 /\ Quiet /\ log' = log /\ up' = up
  BY DEF GotType, Ready, Quiet, usb, history
<1>2. PICK c \in 1 .. Cur, q \in Nat :
              /\ got[1].call = c /\ got[1].at = q /\ log[c].as \in Fn /\ HasAnswer(log[c].as)
              /\ Follows(c, q)
              /\ \/ q = 1 /\ TypeOf(log, got) = {"DTB"}
                 \/ /\ q = CmdEnd(log[c].as) + 1 /\ HasData(log[c].as)
                    /\ TypeOf(log, got) = {"DATA"}
  BY <1>1, TypeIs
<1>3. CASE q = 1 /\ TypeOf(log, got) = {"DTB"}
  <2>1. pc' = "read" /\ field' = "cmd" /\ need' = 2 /\ got' = <<>>
    BY <1>3 DEF GotType, Await
  <2>2. Place(c)' = 1 /\ Total(c)' = 2
    BY <2>1 DEF Place, Total
  <2>3. 1 + 2 <= AnswerBytes(log[c].as)
    <3>1. /\ ParBytes[log[c].as] \in Nat /\ DatBytes[log[c].as] \in Nat
          /\ CmdEnd(log[c].as) = 4 + ParBytes[log[c].as]
          /\ HasData(log[c].as) => AnswerBytes(log[c].as) = CmdEnd(log[c].as) + 4 + DatBytes[log[c].as]
          /\ ~HasData(log[c].as) => AnswerBytes(log[c].as) = CmdEnd(log[c].as)
      BY <1>2, AnswerSizes
    <3> QED BY <3>1
  <2> QED BY <1>1, <1>2, <1>3, <2>1, <2>2, <2>3, GoesOn
<1>4. CASE q = CmdEnd(log[c].as) + 1 /\ HasData(log[c].as) /\ TypeOf(log, got) = {"DATA"}
  <2>1. Await("drain", 3, [hdr EXCEPT !.err = "NO_CMD_MSG"])
    BY <1>4 DEF GotType
  <2> QED BY <1>1, <1>2, <1>4, <2>1, Drains DEF Errors
<1> QED BY <1>2, <1>3, <1>4

LEMMA GotDataTypeAligned ==
    ASSUME HostOK, LinkOK, Runs, TypeRead, GotDataType
    PROVE  Aligned'
<1>1. need = 0 /\ Quiet /\ log' = log /\ up' = up
  BY DEF GotDataType, Ready, Quiet, usb, history
<1>2. PICK c \in 1 .. Cur, q \in Nat :
              /\ got[1].call = c /\ got[1].at = q /\ log[c].as \in Fn /\ HasAnswer(log[c].as)
              /\ Follows(c, q)
              /\ \/ q = 1 /\ TypeOf(log, got) = {"DTB"}
                 \/ /\ q = CmdEnd(log[c].as) + 1 /\ HasData(log[c].as)
                    /\ TypeOf(log, got) = {"DATA"}
  BY <1>1, TypeIs
<1>3. CASE q = 1 /\ TypeOf(log, got) = {"DTB"}
  <2>1. Await("drain", 3, [hdr EXCEPT !.err = "NO_DATA_MSG"])
    BY <1>3 DEF GotDataType
  <2> QED BY <1>1, <1>2, <1>3, <2>1, Drains DEF Errors
<1>4. CASE q = CmdEnd(log[c].as) + 1 /\ HasData(log[c].as) /\ TypeOf(log, got) = {"DATA"}
  <2>1. pc' = "read" /\ field' = "dsize" /\ need' = 3 /\ got' = <<>>
    BY <1>4 DEF GotDataType, Await
  <2>2. Place(c)' = q /\ Total(c)' = 3
    BY <1>1, <1>4, <2>1 DEF Place, Total
  <2>3. q + 3 <= AnswerBytes(log[c].as)
    <3>1. /\ DatBytes[log[c].as] \in Nat /\ CmdEnd(log[c].as) \in Nat
          /\ AnswerBytes(log[c].as) = CmdEnd(log[c].as) + 4 + DatBytes[log[c].as]
      BY <1>2, <1>4, AnswerSizes
    <3> QED BY <1>4, <3>1
  <2> QED BY <1>1, <1>2, <2>1, <2>2, <2>3, GoesOn
<1> QED BY <1>2, <1>3, <1>4

\* A field that is read: its bytes are in their places, the rest follows.
FieldIs(c) ==
    /\ Len(got) = Total(c) /\ Total(c) \in Nat /\ Place(c) \in Nat
    /\ \A i \in 1 .. Total(c) : got[i] = [call |-> c, at |-> Place(c) + i]
    /\ Follows(c, Place(c) + Total(c))
    /\ HasAnswer(log[c].as) /\ Place(c) + Total(c) <= AnswerBytes(log[c].as)

LEMMA FieldRead ==
    ASSUME HostOK, LinkOK, NEW c, log[c].as \in Fn, Inside(c), need = 0, Place(c) > 0
    PROVE  FieldIs(c)
<1>1. Len(got) \in Nat /\ DOMAIN got = 1 .. Len(got)
  BY LenProperties DEF HostOK
<1>2. Total(c) \in Nat /\ Place(c) \in Nat
  BY PlaceIs
<1>3. Len(got) = Total(c)
  <2>1. need + Len(got) = Total(c)
    BY DEF Inside
  <2> QED BY <1>1, <2>1
<1>4. HasAnswer(log[c].as)
  <2>1. Place(c) + Total(c) <= AnswerBytes(log[c].as)
    BY DEF Inside
  <2>2. ~HasAnswer(log[c].as) => AnswerBytes(log[c].as) = 0
    BY AnswerSizes
  <2> QED BY <1>2, <2>1, <2>2
<1> QED BY <1>1, <1>2, <1>3, <1>4 DEF Inside, Continues, FieldIs

LEMMA GotCmdAligned ==
    ASSUME HostOK, LinkOK, Runs, NEW c \in 1 .. Cur, log[c].as \in Fn, Inside(c), GotCmd
    PROVE  Aligned'
<1>1. /\ need = 0 /\ field = "cmd" /\ log' = log /\ up' = up
      /\ pc' = "read" /\ field' = "size" /\ need' = 1 /\ got' = <<>>
  BY DEF GotCmd, Ready, Quiet, usb, history, Await
<1>2. Place(c) = 1 /\ Total(c) = 2 /\ Place(c)' = 3 /\ Total(c)' = 1
  BY <1>1 DEF Place, Total
<1>3. FieldIs(c)
  BY <1>1, <1>2, FieldRead
<1>4. Follows(c, 3)
  <2>1. 1 + 2 = 3
    OBVIOUS
  <2> QED BY <1>2, <1>3, <2>1 DEF FieldIs
<1>5. 3 + 1 <= AnswerBytes(log[c].as)
  <2>1. /\ ParBytes[log[c].as] \in Nat /\ DatBytes[log[c].as] \in Nat
        /\ CmdEnd(log[c].as) = 4 + ParBytes[log[c].as]
        /\ HasData(log[c].as) => AnswerBytes(log[c].as) = CmdEnd(log[c].as) + 4 + DatBytes[log[c].as]
        /\ ~HasData(log[c].as) => AnswerBytes(log[c].as) = CmdEnd(log[c].as)
    BY <1>3, AnswerSizes DEF FieldIs
  <2> QED BY <2>1
<1> QED BY <1>1, <1>2, <1>4, <1>5, GoesOn

LEMMA GotSizeAligned ==
    ASSUME HostOK, LinkOK, Runs, NEW c \in 1 .. Cur, log[c].as \in Fn, Inside(c), GotSize
    PROVE  Aligned'
<1>1. need = 0 /\ field = "size" /\ log' = log /\ up' = up
  BY DEF GotSize, Ready, Quiet, usb, history
<1>2. Place(c) = 3 /\ Total(c) = 1
  BY <1>1 DEF Place, Total
<1>3. FieldIs(c)
  BY <1>1, <1>2, FieldRead
<1>4. Follows(c, 4) /\ got[1] = [call |-> c, at |-> 4]
  <2>1. 3 + 1 = 4 /\ 1 \in 1 .. 1
    OBVIOUS
  <2> QED BY <1>2, <1>3, <2>1 DEF FieldIs
<1>5. SizeOf(log, got, Junk) = {ParBytes[log[c].as]}
  <2>1. got[1].call = c /\ got[1].at = 4
    BY <1>4
  <2> QED BY <2>1 DEF SizeOf
<1>6. pc' = "read" /\ field' = "par" /\ need' = ParBytes[log[c].as] /\ got' = <<>>
  BY <1>5 DEF GotSize, Await
<1>7. Place(c)' = 4 /\ Total(c)' = ParBytes[log[c].as]
  BY <1>1, <1>6 DEF Place, Total
<1>8. ParBytes[log[c].as] \in Nat /\ 4 + ParBytes[log[c].as] <= AnswerBytes(log[c].as)
  <2>1. /\ ParBytes[log[c].as] \in Nat /\ DatBytes[log[c].as] \in Nat
        /\ CmdEnd(log[c].as) = 4 + ParBytes[log[c].as]
        /\ HasData(log[c].as) => AnswerBytes(log[c].as) = CmdEnd(log[c].as) + 4 + DatBytes[log[c].as]
        /\ ~HasData(log[c].as) => AnswerBytes(log[c].as) = CmdEnd(log[c].as)
    BY <1>3, AnswerSizes DEF FieldIs
  <2> QED BY <2>1
<1> QED BY <1>1, <1>4, <1>6, <1>7, <1>8, GoesOn

\* The command message is read, its parameters too.
LEMMA ParAligned ==
    ASSUME HostOK, LinkOK, Runs, NEW c \in 1 .. Cur, log[c].as \in Fn, Inside(c),
           CheckFails \/ GotValue \/ GotPar
    PROVE  Aligned'
<1>1. need = 0 /\ field = "par" /\ log' = log /\ up' = up
  BY DEF CheckFails, GotValue, GotPar, Ready, Quiet, usb, history
<1>2. Place(c) = 4 /\ Total(c) = ParBytes[log[c].as]
  BY <1>1 DEF Place, Total
<1>3. FieldIs(c)
  BY <1>1, <1>2, FieldRead
<1>4. CmdEnd(log[c].as) \in Nat /\ CmdEnd(log[c].as) = 4 + ParBytes[log[c].as]
  BY AnswerSizes
<1>5. AtStart
  BY <1>2, <1>3, <1>4, BoundaryAt DEF FieldIs
<1>6. pc' # "read" \/ (field' \in {"type", "dtype"} /\ need' = 1 /\ got' = <<>>)
  BY DEF CheckFails, GotValue, GotPar, Throw, Return, Await
<1> QED BY <1>1, <1>5, <1>6, AtBoundary

\* The header of a data message is read.
LEMMA DataSizeIs ==
    ASSUME NEW c, log[c].as \in Fn, FieldIs(c), Place(c) = CmdEnd(log[c].as) + 1, Total(c) = 3
    PROVE  /\ DataSizeOf(log, got, Junk) = {DatBytes[log[c].as]} /\ DatBytes[log[c].as] \in Nat
           /\ Follows(c, CmdEnd(log[c].as) + 4) /\ CmdEnd(log[c].as) + 4 \in Nat
           /\ CmdEnd(log[c].as) + 4 + DatBytes[log[c].as] <= AnswerBytes(log[c].as)
<1> DEFINE f == log[c].as
<1>1. /\ DatBytes[f] \in Nat /\ CmdEnd(f) \in Nat /\ AnswerBytes(f) \in Nat
      /\ HasData(f) => AnswerBytes(f) = CmdEnd(f) + 4 + DatBytes[f]
      /\ ~HasData(f) => AnswerBytes(f) <= CmdEnd(f)
  BY AnswerSizes
<1>2. /\ Len(got) = 3 /\ got[1] = [call |-> c, at |-> CmdEnd(f) + 2]
      /\ got[2] = [call |-> c, at |-> CmdEnd(f) + 3] /\ got[3] = [call |-> c, at |-> CmdEnd(f) + 4]
      /\ Follows(c, CmdEnd(f) + 4)
  <2>1. /\ 1 \in 1 .. 3 /\ 2 \in 1 .. 3 /\ 3 \in 1 .. 3 /\ CmdEnd(f) + 1 + 3 = CmdEnd(f) + 4
        /\ CmdEnd(f) + 1 + 1 = CmdEnd(f) + 2 /\ CmdEnd(f) + 1 + 2 = CmdEnd(f) + 3
    BY <1>1
  <2> QED BY <2>1 DEF FieldIs
<1>3. DataSizeOf(log, got, Junk) = {DatBytes[f]}
  <2>1. /\ got[1].call = c /\ got[1].at = CmdEnd(f) + 2
    BY <1>2
  <2>2. Consecutive(got)
    <3>1. \A i \in 2 .. 3 : i = 2 \/ i = 3
      OBVIOUS
    <3>2. CmdEnd(f) + 2 + 2 - 1 = CmdEnd(f) + 3 /\ CmdEnd(f) + 2 + 3 - 1 = CmdEnd(f) + 4
      BY <1>1
    <3> QED BY <1>2, <2>1, <3>1, <3>2 DEF Consecutive
  <2> QED BY <1>2, <2>1, <2>2 DEF DataSizeOf
<1>4. CmdEnd(f) + 4 \in Nat /\ CmdEnd(f) + 4 + DatBytes[f] <= AnswerBytes(f)
  BY <1>1 DEF FieldIs
<1> QED BY <1>1, <1>2, <1>3, <1>4

LEMMA GotDataSizeAligned ==
    ASSUME HostOK, LinkOK, Runs, NEW c \in 1 .. Cur, log[c].as \in Fn, Inside(c), GotDataSize
    PROVE  Aligned'
<1> DEFINE f == log[c].as
<1>1. need = 0 /\ field = "dsize" /\ log' = log /\ up' = up
  BY DEF GotDataSize, Ready, Quiet, usb, history
<1>2. Place(c) = CmdEnd(f) + 1 /\ Total(c) = 3
  BY <1>1 DEF Place, Total
<1>3. CmdEnd(f) \in Nat
  BY AnswerSizes
<1>4. FieldIs(c)
  BY <1>1, <1>2, <1>3, FieldRead
<1>5. /\ DataSizeOf(log, got, Junk) = {DatBytes[f]} /\ DatBytes[f] \in Nat
      /\ Follows(c, CmdEnd(f) + 4) /\ CmdEnd(f) + 4 \in Nat
      /\ CmdEnd(f) + 4 + DatBytes[f] <= AnswerBytes(f)
  BY <1>2, <1>4, DataSizeIs
<1>6. /\ pc' = "read" /\ field' \in {"sink", "data"} /\ need' = DatBytes[f] /\ got' = <<>>
      /\ field' = "sink" => hdr' = [hdr EXCEPT !.err = "WRONG_DATA_SIZE"]
  BY <1>5 DEF GotDataSize, Await
<1>7. field' = "sink" => hdr'.err # "NO_DATA_MSG"
  BY <1>6, HdrIs DEF Headers
<1>8. Place(c)' = CmdEnd(f) + 4 /\ Total(c)' = DatBytes[f]
  BY <1>1, <1>6, <1>7 DEF Place, Total
<1> QED BY <1>1, <1>5, <1>6, <1>8, GoesOn

LEMMA GotDrainAligned ==
    ASSUME HostOK, LinkOK, Runs, NEW c \in 1 .. Cur, log[c].as \in Fn, Inside(c), GotDrain,
           SmallData
    PROVE  Aligned'
<1> DEFINE f == log[c].as
<1>1. /\ need = 0 /\ field = "drain" /\ log' = log /\ up' = up
      /\ pc' = "read" /\ field' = "sink" /\ got' = <<>> /\ hdr' = hdr
  BY DEF GotDrain, Ready, Quiet, usb, history, Await
<1>2. need' \in DrainSizes
  BY DEF GotDrain, Await
<1>3. CmdEnd(f) \in Nat /\ Total(c) = 3
  BY <1>1, AnswerSizes DEF Total
<1>4. CASE hdr.err = "NO_DATA_MSG"
  <2>1. Place(c) = 1 /\ Place(c)' = 4 /\ Total(c)' = ParBytes[f]
    BY <1>1, <1>4 DEF Place, Total
  <2>2. FieldIs(c)
    BY <1>1, <2>1, FieldRead
  <2>3. Len(got) = 3 /\ Follows(c, 4) /\ got[3] = [call |-> c, at |-> 4]
    <3>1. 1 + 3 = 4 /\ 3 \in 1 .. 3
      OBVIOUS
    <3> QED BY <1>3, <2>1, <2>2, <3>1 DEF FieldIs
  <2>4. need' = ParBytes[f]
    <3>1. <<got[3]>>[1] = got[3] /\ got[3].call = c /\ got[3].at = 4
      BY <2>3
    <3>2. SizeOf(log, <<got[3]>>, Junk) = {ParBytes[f]}
      BY <3>1 DEF SizeOf
    <3> QED BY <1>2, <1>4, <2>3, <3>2 DEF DrainSizes
  <2>5. ParBytes[f] \in Nat /\ 4 + ParBytes[f] <= AnswerBytes(f)
    <3>1. /\ ParBytes[f] \in Nat /\ DatBytes[f] \in Nat /\ CmdEnd(f) = 4 + ParBytes[f]
          /\ HasData(f) => AnswerBytes(f) = CmdEnd(f) + 4 + DatBytes[f]
          /\ ~HasData(f) => AnswerBytes(f) = CmdEnd(f)
      BY <2>2, AnswerSizes DEF FieldIs
    <3> QED BY <3>1
  <2> QED BY <1>1, <2>1, <2>3, <2>4, <2>5, GoesOn
<1>5. CASE hdr.err # "NO_DATA_MSG"
  <2>1. Place(c) = CmdEnd(f) + 1 /\ Place(c)' = CmdEnd(f) + 4 /\ Total(c)' = DatBytes[f]
    BY <1>1, <1>5 DEF Place, Total
  <2>2. FieldIs(c)
    BY <1>1, <1>3, <2>1, FieldRead
  <2>3. /\ DataSizeOf(log, got, Junk) = {DatBytes[f]} /\ DatBytes[f] \in Nat
        /\ Follows(c, CmdEnd(f) + 4) /\ CmdEnd(f) + 4 \in Nat
        /\ CmdEnd(f) + 4 + DatBytes[f] <= AnswerBytes(f)
    BY <1>3, <2>1, <2>2, DataSizeIs
  <2>4. need' = DatBytes[f]
    <3>1. DatBytes[f] % Wide = DatBytes[f]
      BY <2>3, UsbAssumption DEF SmallData
    <3>2. need' = DatBytes[f] % Wide
      BY <1>2, <1>5, <2>3 DEF DrainSizes
    <3> QED BY <3>1, <3>2
  <2> QED BY <1>1, <2>1, <2>3, <2>4, GoesOn
<1> QED BY <1>4, <1>5

\* The message is read to its end.
LEMMA LastAligned ==
    ASSUME HostOK, LinkOK, Runs, NEW c \in 1 .. Cur, log[c].as \in Fn, Inside(c),
           GotData \/ GotSink
    PROVE  Aligned'
<1> DEFINE f == log[c].as
<1>1. need = 0 /\ field \in {"data", "sink"} /\ log' = log /\ up' = up /\ pc' # "read"
  BY DEF GotData, GotSink, Ready, Quiet, usb, history, Throw, Return
<1>2. /\ ParBytes[f] \in Nat /\ DatBytes[f] \in Nat
      /\ CmdEnd(f) = 4 + ParBytes[f] /\ CmdEnd(f) \in Nat
      /\ HasData(f) => AnswerBytes(f) = CmdEnd(f) + 4 + DatBytes[f]
      /\ ~HasData(f) => AnswerBytes(f) <= CmdEnd(f)
  BY AnswerSizes
<1>3. \/ Place(c) = 4 /\ Total(c) = ParBytes[f]
      \/ Place(c) = CmdEnd(f) + 4 /\ Total(c) = DatBytes[f]
  BY <1>1 DEF Place, Total
<1>4. FieldIs(c)
  <2>1. Place(c) > 0
    BY <1>2, <1>3
  <2> QED BY <1>1, <2>1, FieldRead
<1>5. PICK q \in Nat : q = Place(c) + Total(c) /\ (q = CmdEnd(f) \/ q = AnswerBytes(f))
  <2>1. Place(c) + Total(c) \in Nat
    BY <1>4 DEF FieldIs
  <2>2. Place(c) + Total(c) = CmdEnd(f) \/ Place(c) + Total(c) = AnswerBytes(f)
    <3>1. CASE Place(c) = 4 /\ Total(c) = ParBytes[f]
      BY <1>2, <3>1
    <3>2. CASE Place(c) = CmdEnd(f) + 4 /\ Total(c) = DatBytes[f]
      <4>1. CmdEnd(f) + 4 + DatBytes[f] <= AnswerBytes(f)
        BY <1>4, <3>2 DEF FieldIs
      <4>2. HasData(f)
        BY <1>2, <4>1, AnswerSizes
      <4> QED BY <1>2, <3>2, <4>2
    <3> QED BY <1>3, <3>1, <3>2
  <2> QED BY <2>1, <2>2
<1>6. Follows(c, q) /\ HasAnswer(f)
  BY <1>4, <1>5 DEF FieldIs
<1>7. AtStart
  BY <1>5, <1>6, BoundaryAt
<1> QED BY <1>1, <1>7, AtBoundary

LEMMA LookingAligned ==
    ASSUME HostOK, LinkOK, Aligned, Looking, SmallData
    PROVE  Aligned'
<1>1. /\ Runs /\ pc = "read" /\ need = 0 /\ log' = log /\ up' = up /\ whole' = whole
  BY DEF Aligned, Looking, GotType, GotCmd, GotSize, CheckFails, GotValue, GotPar, GotDataType,
         GotDataSize, GotData, GotDrain, GotSink, Ready, Quiet, usb, history
<1>2. CASE ~whole
  <2>1. Runs'
    BY <1>1 DEF Runs, RestOf
  <2> QED BY <1>1, <1>2, <2>1 DEF Aligned
<1>3. CASE whole /\ (GotType \/ GotDataType)
  <2>1. TypeRead
    BY <1>1, <1>3 DEF Aligned, GotType, GotDataType, Ready
  <2> QED BY <1>1, <1>3, <2>1, GotTypeAligned, GotDataTypeAligned
<1>4. CASE whole /\ ~(GotType \/ GotDataType)
  <2>1. PICK c \in 1 .. Cur : log[c].as \in Fn /\ Inside(c)
    <3>1. field \notin {"type", "dtype"}
      BY <1>4 DEF Looking, GotCmd, GotSize, CheckFails, GotValue, GotPar, GotDataSize, GotData,
                  GotDrain, GotSink, Ready
    <3> QED BY <1>1, <1>4, <3>1 DEF Aligned
  <2> QED BY <1>1, <1>4, <2>1, GotCmdAligned, GotSizeAligned, ParAligned, GotDataSizeAligned,
             GotDrainAligned, LastAligned DEF Looking
<1> QED BY <1>2, <1>3, <1>4

-----------------------------------------------------------------------------
(* All steps together. *)

\* Between two fields, and when nothing is read.
LEMMA AlignedStays ==
    ASSUME Aligned, UNCHANGED <<log, up, whole>>,
           \/ UNCHANGED <<pc, field, need, got, hdr>>
           \/ pc # "read" /\ pc' # "read"
    PROVE  Aligned'
<1>1. Runs' /\ (AtStart => AtStart') /\ Cur' = Cur
  BY SameLog DEF Aligned, Runs, RestOf, AtStart, StartsMessage
<1>2. CASE UNCHANGED <<pc, field, need, got, hdr>>
  <2>1. TypeRead' = TypeRead
    BY <1>2 DEF TypeRead, AtStart, StartsMessage, Follows
  <2>2. \A c : Inside(c) => Inside(c)'
    BY <1>2 DEF Inside, Place, Total, Continues, Follows
  <2> QED BY <1>1, <1>2, <2>1, <2>2 DEF Aligned
<1>3. CASE pc # "read" /\ pc' # "read"
  BY <1>1, <1>3 DEF Aligned
<1> QED BY <1>2, <1>3

\* A call is made: what is known of the bytes of the calls before stays true.
LEMMA CreateAligned ==
    ASSUME LinkOK, Aligned, CreateKnown \/ CreateLookup
    PROVE  Aligned'
<1>1. /\ up' = up /\ whole' = whole /\ pc # "read" /\ pc' # "read"
      /\ \E r : log' = Append(log, r)
  BY DEF CreateKnown, CreateLookup, Create, usb
<1>2. Cur \in Nat /\ Cur = Len(log) /\ log \in Seq(CallRecord)
  BY LenProperties DEF LinkOK, Cur
<1>3. \A n \in 1 .. Cur : log'[n] = log[n]
  BY <1>1, <1>2
<1>4. \A i \in DOMAIN up : up[i].call \in 1 .. Cur
  BY UpIs
<1>5. Runs'
  <2>1. \A i \in DOMAIN up : RestOf(up[i])' = RestOf(up[i])
    BY <1>1, <1>3, <1>4 DEF RestOf
  <2> QED BY <1>1, <2>1 DEF Aligned, Runs
<1>6. AtStart => AtStart'
  <2>1. up # <<>> => up[1].call \in 1 .. Cur
    BY <1>4, UpIs
  <2> QED BY <1>1, <1>3, <2>1 DEF AtStart, StartsMessage
<1> QED BY <1>1, <1>5, <1>6 DEF Aligned

LEMMA ReadAligned ==
    ASSUME HostOK, LinkOK, HostOK', LinkOK', Aligned, CopyBytes \/ FillBuffer \/ ShortRead \/ ReadFails
    PROVE  Aligned'
<1>1. log' = log /\ Cur' = Cur /\ pc = "read" /\ need > 0 /\ Runs
  BY SameLog DEF CopyBytes, FillBuffer, ShortRead, ReadFails, Reading, history, Aligned
<1>2. CASE CopyBytes
  <2>1. PICK m \in 1 .. Len(up) : up' = Drop(up, m)
    BY <1>2, Copied
  <2>2. m \in 0 .. Len(up)
    BY UpIs
  <2>3. Runs'
    BY <1>1, <2>1, <2>2, RunsCut
  <2>4. UNCHANGED <<pc, field, whole>>
    BY <1>2 DEF CopyBytes, history
  <2> QED BY <1>1, <1>2, <2>3, <2>4, CopyInside, CopyTypeRead DEF Aligned
<1>3. CASE FillBuffer
  BY <1>3, AlignedStays DEF FillBuffer, host, history
<1>4. CASE ShortRead
  <2>1. /\ nrx \in 0 .. Len(up) /\ up' = Drop(up, nrx) /\ whole' = FALSE
    <3>1. nrx \in Nat /\ nbuf \in Nat /\ nbuf + nrx <= Len(up) /\ Len(up) \in Nat
      BY UpIs DEF LinkOK
    <3> QED BY <1>4, <3>1 DEF ShortRead
  <2>2. Runs'
    BY <1>1, <2>1, RunsCut
  <2> QED BY <2>1, <2>2 DEF Aligned
<1>5. CASE ReadFails
  <2>1. up' = up /\ pc' # "read"
    BY <1>5 DEF ReadFails, Throw, usb
  <2>2. ASSUME whole' PROVE AtStart
    <3>1. whole /\ field \in {"type", "dtype"}
      BY <1>5, <2>2 DEF ReadFails
    <3>2. TypeRead
      BY <1>1, <3>1 DEF Aligned
    <3>3. need = 1
      <4>1. need \in Nat /\ Len(got) \in Nat /\ need + Len(got) = 1
        BY <3>2, LenProperties DEF TypeRead, HostOK
      <4> QED BY <1>1, <4>1
    <3> QED BY <3>2, <3>3 DEF TypeRead
  <2> QED BY <1>1, <2>1, <2>2, AtBoundary
<1> QED BY <1>2, <1>3, <1>4, <1>5

LEMMA UserAligned ==
    ASSUME HostOK, LinkOK, Aligned, Clear \/ Open
    PROVE  Aligned'
<1>1. /\ log' = log /\ pc' # "read" /\ whole' = (up' = <<>>)
      /\ \E m \in {nbuf, nbuf + nrx} : up' = Drop(up, m)
  BY DEF Clear, Open, host
<1>2. nbuf \in 0 .. Len(up) /\ nbuf + nrx \in 0 .. Len(up)
  <2>1. nrx \in Nat /\ nbuf \in Nat /\ nbuf + nrx <= Len(up) /\ Len(up) \in Nat
    BY UpIs DEF LinkOK
  <2> QED BY <2>1
<1>3. Runs'
  BY <1>1, <1>2, RunsCut DEF Aligned
<1> QED BY <1>1, <1>3 DEF Aligned, AtStart

LEMMA ExecuteAligned ==
    ASSUME HostOK, LinkOK, Aligned, Execute
    PROVE  Aligned'
<1>1. /\ UNCHANGED <<log, pc, field, need, got, hdr, whole>>
  BY DEF Execute, host
<1>2. /\ Runs' /\ (AtStart => AtStart') /\ Cur' = Cur
      /\ \A c, q : Follows(c, q) => Follows(c, q)'
  BY <1>1, RunsGrow, SameLog DEF Aligned
<1>3. TypeRead => TypeRead'
  <2> SUFFICES ASSUME TypeRead PROVE TypeRead'
    OBVIOUS
  <2>1. ASSUME need = 0 PROVE Follows(got[1].call, got[1].at)'
    <3>1. PICK c, q : c = got[1].call /\ q = got[1].at
      OBVIOUS
    <3>2. Follows(c, q)'
      BY <1>2, <2>1, <3>1 DEF TypeRead
    <3> QED BY <1>1, <3>1, <3>2 DEF Follows
  <2> QED BY <1>1, <1>2, <2>1 DEF TypeRead, StartsMessage
<1>4. ASSUME NEW c, Inside(c) PROVE Inside(c)'
  <2>1. Place(c)' = Place(c) /\ Total(c)' = Total(c)
    BY <1>1 DEF Place, Total
  <2>2. Follows(c, Place(c) + Len(got))'
    <3>1. PICK q : q = Place(c) + Len(got)
      OBVIOUS
    <3>2. Follows(c, q)'
      BY <1>2, <1>4, <3>1 DEF Inside
    <3> QED BY <1>1, <2>1, <3>1, <3>2 DEF Follows
  <2> QED BY <1>1, <1>4, <2>1, <2>2 DEF Inside, Continues
<1> QED BY <1>1, <1>2, <1>3, <1>4 DEF Aligned

LEMMA AlignedInit == Init => Aligned
<1> SUFFICES ASSUME Init PROVE Aligned
  OBVIOUS
<1>1. up = <<>> /\ pc # "read"
  BY DEF Init
<1>2. DOMAIN up = {}
  BY <1>1
<1> QED BY <1>1, <1>2 DEF Aligned, Runs, AtStart

LEMMA AlignedStep == HostOK /\ LinkOK /\ SmallData /\ Aligned /\ [Next]_vars => Aligned'
<1> SUFFICES ASSUME HostOK, LinkOK, SmallData, Aligned, [Next]_vars PROVE Aligned'
  OBVIOUS
<1>1. HostOK' /\ LinkOK'
  BY StepType
<1>2. CASE Looking
  BY <1>2, LookingAligned
<1>3. CASE CopyBytes \/ FillBuffer \/ ShortRead \/ ReadFails
  BY <1>1, <1>3, ReadAligned
<1>4. CASE CreateKnown \/ CreateLookup
  BY <1>4, CreateAligned
<1>5. CASE Clear \/ Open
  BY <1>5, UserAligned
<1>6. CASE Execute
  BY <1>6, ExecuteAligned
<1>7. CASE Flush
  <2>1. UNCHANGED <<log, up, whole>> /\ pc = "write"
    BY <1>7 DEF Flush, history
  <2>2. field' = "type" /\ need' = 1 /\ got' = <<>>
    BY <1>7 DEF Flush, Await
  <2>3. Runs /\ (whole' => AtStart)
    BY <2>1 DEF Aligned
  <2> QED BY <2>1, <2>2, <2>3, AtBoundary
<1>8. CASE (\E f \in Fn : Client(f)) \/ NoSuchCall \/ WriteClosed \/ ReturnVoid \/ FlushFails
  <2>1. UNCHANGED <<log, up, whole>> /\ pc # "read" /\ pc' # "read"
    BY <1>8 DEF Client, NoSuchCall, WriteClosed, ReturnVoid, FlushFails, Throw, Return, usb, history
  <2> QED BY <2>1, AlignedStays
<1>9. CASE WriteByte \/ WriteFull \/ UserFlush \/ Close \/ Discard \/ Arrive \/ UNCHANGED vars
  <2>1. UNCHANGED <<log, up, whole, pc, field, need, got, hdr>>
    BY <1>9 DEF WriteByte, WriteFull, UserFlush, Close, Discard, Arrive, vars, host, usb, history
  <2> QED BY <2>1, AlignedStays
<1> QED BY <1>2, <1>3, <1>4, <1>5, <1>6, <1>7, <1>8, <1>9 DEF Next, Stub, User, Board, Looking

\* After a stub that met a message it did not expect, or that gave up before the
\* first byte of one, the bytes to come begin with a whole message: rpc.cpp's
\* "remove unexpected data message from queue" holds for every data message whose
\* size the uint16_t of Receive can keep.
THEOREM MessagesRemovedWhole == SmallData /\ Spec => []MessageBoundary
<1>1. SmallData => SmallData'
  BY DEF SmallData
<1>2. Aligned => MessageBoundary
  BY DEF Aligned, AtStart, MessageBoundary
<1> QED BY InitType, StepType, AlignedInit, AlignedStep, <1>1, <1>2, PTL DEF Spec
=============================================================================
