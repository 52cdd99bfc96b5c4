------------------------------ MODULE UsbRpc ------------------------------
(***************************************************************************)
(* The remote procedure calls of the client over CUSB: the stubs of        *)
(* rpc_calls.cpp, the messages of rpc.cpp, the id cache of rpc.h, the      *)
(* buffers of usb.cpp and, as the environment, the FTDI driver and the     *)
(* test board.                                                             *)
(*                                                                         *)
(*   client --wbuf--> driver --tx--> board --up--> driver --> client       *)
(*                                                                         *)
(* The bytes the board has sent and the client has not copied out are one  *)
(* sequence, up: its first nbuf bytes are in m_bufferR, the next nrx in    *)
(* the driver's receive queue, the others still on their way.              *)
(***************************************************************************)
EXTENDS RpcMessages

CONSTANTS
    WCap,       \* USBWRITEBUFFERSIZE
    RCap,       \* USBREADBUFFERSIZE
    Wide,       \* 2^16: what the uint16_t size of Receive can hold
    Junk,       \* bound on the sizes read out of bytes that are no size
    MaxCalls,   \* bound on the calls of a behaviour
    Faults,     \* what may fail: FT_Read gives nothing ("read"), but only
                \* before a message begins ("late"), gives too little ("short"),
                \* FT_Write fails ("write")
    MaxFaults   \* bound on the failures of a behaviour, see Fail

ASSUME UsbAssumption ==
    /\ WCap \in Nat \ {0} /\ RCap \in Nat \ {0} /\ Wide \in Nat \ {0}
    /\ Junk \in Nat /\ MaxCalls \in Nat /\ MaxFaults \in Nat
    /\ Faults \subseteq {"read", "late", "short", "write"}

VARIABLES
    \* CUSB
    open,       \* isUSB_open
    wbuf,       \* m_bufferW[0 .. m_posW-1]
    up,         \* bytes from the board that no Read has copied
    nbuf,       \* m_sizeR - m_posR
    nrx,        \* bytes in the driver's receive queue
    \* the stub in progress
    cmdId,      \* rpc_cmdId
    pc,         \* where the stub is
    fn,         \* the function the client called
    wpos,       \* bytes of the request given to Write
    field,      \* what the Read in progress is to give
    need,       \* bytes it still lacks
    got,        \* bytes it has copied
    hdr,        \* m_cmd, m_size, where the bytes come from, the error to throw
    ret,        \* how the last stub ended
    \* the board
    tx,         \* bytes written to the driver and not yet executed
    \* history
    log,        \* the calls made, in order
    exec,       \* the calls the board has executed, in order
    lost,       \* the calls of which some byte will never reach the board
    clean,      \* the bytes to come can only be the answer to the call in
                \* progress, and no wrong id is cached
    whole,      \* up begins where a message begins, between two Reads of a stub
    failed      \* the failures so far

host == <<cmdId, pc, fn, wpos, field, need, got, hdr, ret>>
usb == <<open, wbuf, up, nbuf, nrx>>
history == <<log, exec, lost, clean, whole, failed>>
vars == <<host, usb, tx, history>>

Fields == {"none", "type", "cmd", "size", "par", "dtype", "dsize", "data", "drain", "sink"}
Errors == {"WRITE_ERROR", "READ_TIMEOUT", "READ_ERROR", "WRONG_MSG_TYPE", "WRONG_DATA_SIZE",
           "CMD_PAR_SIZE", "NO_DATA_MSG", "NO_CMD_MSG", "UNKNOWN_CMD"}
Outcomes == {"none", "ok"} \cup Errors

Cur == Len(log)                       \* the last call made
Call == log[Cur]
Least(a, b) == IF a < b THEN a ELSE b
Drop(s, n) == SubSeq(s, n + 1, Len(s))
Executed == {exec[i] : i \in DOMAIN exec}
Calls(s) == {s[i].call : i \in DOMAIN s}

NoHdr == [cmd |-> NoId, size |-> 0, src |-> 0, err |-> "none"]
IdsGood == \A f \in Fn : cmdId[f] \in {f, NoId}
Cleared == [f \in Fn |-> IF f \in Fixed THEN f ELSE NoId]     \* rpc_Clear

\* The variables have their types and the buffers of usb.h their bounds.
TypeOK ==
    /\ open \in BOOLEAN /\ wbuf \in Seq(Byte) /\ up \in Seq(Byte) /\ tx \in Seq(Byte)
    /\ nbuf \in Nat /\ nrx \in Nat /\ nbuf + nrx <= Len(up)
    /\ Len(wbuf) <= WCap /\ nbuf <= RCap
    /\ cmdId \in [Fn -> Ids]
    /\ pc \in {"idle", "getid", "noid", "write", "read"}
    /\ fn \in Fn /\ wpos \in Nat
    /\ field \in Fields /\ need \in Nat /\ got \in Seq(Byte)
    /\ hdr \in [cmd : Ids, size : Nat, src : Nat, err : Outcomes \ {"ok"}]
    /\ ret \in [call : Nat, out : Outcomes, src : Nat, sure : BOOLEAN]
    /\ log \in Seq(CallRecord) /\ exec \in Seq(Nat) /\ lost \subseteq Nat
    /\ clean \in BOOLEAN /\ whole \in BOOLEAN
    /\ failed \in Nat

Init ==
    /\ open = FALSE /\ wbuf = <<>> /\ up = <<>> /\ nbuf = 0 /\ nrx = 0 /\ tx = <<>>
    /\ cmdId = Cleared /\ pc = "idle" /\ fn = Lookup /\ wpos = 0
    /\ field = "none" /\ need = 0 /\ got = <<>> /\ hdr = NoHdr
    /\ ret = [call |-> 0, out |-> "none", src |-> 0, sure |-> TRUE]
    /\ log = <<>> /\ exec = <<>> /\ lost = {}
    /\ clean = TRUE /\ whole = TRUE /\ failed = 0


-----------------------------------------------------------------------------
(* What may fail, and what the board can do with tx (external). *)

\* n's request is at the head of tx, whole.
Whole(n) ==
    /\ ReqBytes[log[n].fn] <= Len(tx)
    /\ \A j \in 1 .. ReqBytes[log[n].fn] : tx[j] = [call |-> n, at |-> j]

\* ... or can not become whole any more.
Broken ==
    LET n == tx[1].call
    IN  \E j \in 1 .. Least(Len(tx), ReqBytes[log[n].fn]) : tx[j] # [call |-> n, at |-> j]

\* A string is read byte by byte, anything else in one Read.
FillMin ==
    IF field = "data" /\ Shape[Call.fn] = "string" THEN 1 ELSE Least(need, RCap)

\* The Read lacks bytes and the board has nothing more to send.  It must fail
\* then; a Read that fails earlier, or a Write that fails, counts as a failure.
Starved == nrx < FillMin /\ nbuf + nrx = Len(up) /\ (tx # <<>> => ~(Broken \/ Whole(tx[1].call)))

Fail(kind) ==
    /\ kind \in Faults
    /\ IF kind # "write" /\ Starved THEN UNCHANGED failed
       ELSE failed < MaxFaults /\ failed' = failed + 1

-----------------------------------------------------------------------------
(* How a stub ends, and how it goes on to its next Read. *)

Rest == field' = "none" /\ need' = 0 /\ got' = <<>> /\ hdr' = NoHdr

Throw(e) ==
    /\ pc' = "idle" /\ Rest
    /\ ret' = [call |-> Cur, out |-> e, src |-> 0, sure |-> clean]
    /\ UNCHANGED <<cmdId, fn, wpos>>

\* The stub returns the value that comes from call src; when it is the
\* GetRpcCallId inside rpc_GetCallId, id is what it returns and is cached.
Return(src, id) ==
    /\ Rest
    /\ ret' = [call |-> Cur, out |-> "ok", src |-> src, sure |-> clean]
    /\ IF Call.fn = Lookup /\ fn # Lookup
       THEN /\ cmdId' = [cmdId EXCEPT ![fn] = id]
            /\ pc' = IF id = NoId THEN "noid" ELSE "getid"
       ELSE UNCHANGED cmdId /\ pc' = "idle"
    /\ UNCHANGED <<fn, wpos>>

Await(f, n, h) ==
    /\ pc' = "read" /\ field' = f /\ need' = n /\ got' = <<>> /\ hdr' = h
    /\ UNCHANGED <<cmdId, fn, wpos, ret>>

-----------------------------------------------------------------------------
(* Calls: the id, the request, Flush. *)

Client(f) ==
    /\ pc = "idle" /\ Cur + (IF cmdId[f] = NoId THEN 2 ELSE 1) <= MaxCalls
    /\ pc' = "getid" /\ fn' = f
    /\ UNCHANGED <<cmdId, wpos, field, need, got, hdr, ret, usb, tx, history>>

Create(f) ==
    /\ log' = Append(log, [fn |-> f, as |-> cmdId[f], arg |-> fn])
    /\ pc' = "write" /\ wpos' = 0
    /\ UNCHANGED <<cmdId, fn, field, need, got, hdr, ret, usb, tx,
                   exec, lost, clean, whole, failed>>

\* rpc_GetCallId and Create: a cached id is used, else its name is looked up.
CreateKnown == pc = "getid" /\ cmdId[fn] # NoId /\ Create(fn)

CreateLookup == pc = "getid" /\ cmdId[fn] = NoId /\ Create(Lookup)

NoSuchCall ==
    /\ pc = "noid" /\ Throw("UNKNOWN_CMD")
    /\ UNCHANGED <<usb, tx, history>>

\* Mutant: the test for a full buffer is off by one.
WriteByteTooFar ==
    /\ pc = "write" /\ open /\ wpos < ReqBytes[Call.fn] /\ Len(wbuf) <= WCap
    /\ wbuf' = Append(wbuf, [call |-> Cur, at |-> wpos + 1])
    /\ wpos' = wpos + 1
    /\ UNCHANGED <<cmdId, pc, fn, field, need, got, hdr, ret,
                   open, up, nbuf, nrx, tx, history>>

\* One byte of CUSB::Write.
WriteByte ==
    /\ pc = "write" /\ open /\ wpos < ReqBytes[Call.fn] /\ Len(wbuf) < WCap
    /\ wbuf' = Append(wbuf, [call |-> Cur, at |-> wpos + 1])
    /\ wpos' = wpos + 1
    /\ UNCHANGED <<cmdId, pc, fn, field, need, got, hdr, ret,
                   open, up, nbuf, nrx, tx, history>>

\* Mutant: m_posW is reset before its value is taken.
WriteFullLoses ==
    /\ pc = "write" /\ open /\ wpos < ReqBytes[Call.fn] /\ Len(wbuf) = WCap
    /\ wbuf' = <<>>
    /\ UNCHANGED <<host, tx, open, up, nbuf, nrx, history>>

\* Write finds the buffer full.
WriteFull ==
    /\ pc = "write" /\ open /\ wpos < ReqBytes[Call.fn] /\ Len(wbuf) = WCap
    /\ tx' = tx \o wbuf /\ wbuf' = <<>>
    /\ UNCHANGED <<host, open, up, nbuf, nrx, history>>

WriteClosed ==
    /\ pc = "write" /\ ~open
    /\ Throw("WRITE_ERROR")
    /\ lost' = lost \cup {Cur}
    /\ UNCHANGED <<usb, tx, log, exec, clean, whole, failed>>

\* Mutant: a stub with an answer returns when its request is in the buffer.
ReturnEarly ==
    /\ pc = "write" /\ wpos = ReqBytes[Call.fn]
    /\ Return(Cur, NoId)
    /\ UNCHANGED <<usb, tx, history>>

\* A void stub is done when its request is in the buffer.
ReturnVoid ==
    /\ pc = "write" /\ wpos = ReqBytes[Call.fn] /\ ~HasAnswer(Call.fn)
    /\ Return(Cur, NoId)
    /\ UNCHANGED <<usb, tx, history>>

\* Mutant: the stub waits for an answer without a Flush.
FlushForgotten ==
    /\ pc = "write" /\ wpos = ReqBytes[Call.fn] /\ HasAnswer(Call.fn)
    /\ Await("type", 1, NoHdr)
    /\ UNCHANGED <<open, wbuf, tx, up, nbuf, nrx, history>>

\* Mutant: Flush does not reset m_posW.
FlushKeepsBuffer ==
    /\ pc = "write" /\ wpos = ReqBytes[Call.fn] /\ HasAnswer(Call.fn)
    /\ tx' = tx \o wbuf
    /\ Await("type", 1, NoHdr)
    /\ UNCHANGED <<open, wbuf, up, nbuf, nrx, history>>

\* Mutant: Flush sends the last request and drops what void stubs left before it.
FlushOnlyRequest ==
    /\ pc = "write" /\ wpos = ReqBytes[Call.fn] /\ HasAnswer(Call.fn)
    /\ tx' = tx \o SelectSeq(wbuf, LAMBDA b : b.call = Cur)
    /\ wbuf' = <<>>
    /\ Await("type", 1, NoHdr)
    /\ UNCHANGED <<open, up, nbuf, nrx, history>>

Flush ==
    /\ pc = "write" /\ wpos = ReqBytes[Call.fn] /\ HasAnswer(Call.fn)
    /\ tx' = tx \o wbuf /\ wbuf' = <<>>
    /\ Await("type", 1, NoHdr)
    /\ UNCHANGED <<open, up, nbuf, nrx, history>>

\* The Flush of a stub fails (the one inside Write, or its own) after k bytes:
\* the rest of the buffer is gone, m_posW was reset first.
FlushFails ==
    /\ pc = "write" /\ open /\ Fail("write")
    /\ \/ wpos < ReqBytes[Call.fn] /\ Len(wbuf) = WCap
       \/ wpos = ReqBytes[Call.fn] /\ HasAnswer(Call.fn)
    /\ \E k \in 0 .. Len(wbuf) :
          /\ tx' = tx \o SubSeq(wbuf, 1, k)
          /\ lost' = lost \cup Calls(Drop(wbuf, k))
                          \cup (IF wpos < ReqBytes[Call.fn] THEN {Cur} ELSE {})
    /\ wbuf' = <<>> /\ clean' = FALSE
    /\ Throw("WRITE_ERROR")
    /\ UNCHANGED <<open, up, nbuf, nrx, log, exec, whole>>

-----------------------------------------------------------------------------
(* CUSB::Read. *)

Reading == pc = "read" /\ need > 0

\* Mutant: m_posR is not moved on, the next field is read from the same place.
CopyBytesAgain ==
    /\ Reading /\ nbuf > 0
    /\ LET m == Least(need, nbuf)
       IN  got' = got \o SubSeq(up, 1, m) /\ need' = need - m
    /\ UNCHANGED <<cmdId, pc, fn, wpos, field, hdr, ret, usb, tx, history>>

\* Copy what m_bufferR holds.
CopyBytes ==
    /\ Reading /\ nbuf > 0
    /\ LET m == Least(need, nbuf)
       IN  /\ got' = got \o SubSeq(up, 1, m)
           /\ up' = Drop(up, m)
           /\ nbuf' = nbuf - m
           /\ need' = need - m
    /\ UNCHANGED <<cmdId, pc, fn, wpos, field, hdr, ret, open, wbuf, nrx, tx, history>>

\* FillBuffer: FT_Read waits for as many bytes as the queue held when it was
\* asked, and for FillMin at least.
FillBuffer ==
    /\ Reading /\ nbuf = 0
    /\ \E k \in FillMin .. Least(nrx, RCap) : nbuf' = k /\ nrx' = nrx - k
    /\ UNCHANGED <<host, open, wbuf, up, tx, history>>

\* FT_Read times out with too few bytes: "these bytes will never come...", the
\* Read returns with the rest of its buffer as it was.
ShortRead ==
    /\ Fail("short") /\ Reading /\ nbuf = 0 /\ 0 < nrx /\ nrx < FillMin
    /\ got' = got \o SubSeq(up, 1, nrx)
    /\ up' = Drop(up, nrx) /\ nrx' = 0 /\ need' = 0
    /\ clean' = FALSE /\ whole' = FALSE
    /\ UNCHANGED <<cmdId, pc, fn, wpos, field, hdr, ret, open, wbuf, nbuf, tx, log, exec, lost>>

\* FT_Read gives nothing, or fails.
ReadFails ==
    /\ Reading /\ nbuf = 0
    /\ \/ Fail("read")
       \/ Fail("late") /\ (Starved \/ field \in {"type", "dtype"})
    /\ \E e \in {"READ_TIMEOUT", "READ_ERROR"} :
          (e = "READ_TIMEOUT" => nrx = 0) /\ Throw(e)
    /\ clean' = FALSE
    /\ whole' = (whole /\ field \in {"type", "dtype"})
    /\ UNCHANGED <<usb, tx, log, exec, lost>>

-----------------------------------------------------------------------------
(* What a stub does with what a Read gave it. *)

Ready(f) == pc = "read" /\ need = 0 /\ field = f
Quiet == UNCHANGED <<usb, tx, history>>

\* Mutant: the unexpected data message is left where it is.
GotTypeNoDrain ==
    /\ Ready("type") /\ Quiet
    /\ \E t \in TypeOf(log, got) :
          IF t = "DTB"
          THEN Await("cmd", 2, [hdr EXCEPT !.src = IF got[1].at = 1 THEN got[1].call ELSE 0])
          ELSE Throw(IF t = "junk" THEN "WRONG_MSG_TYPE" ELSE "NO_CMD_MSG")

\* rpcMessage::Receive
GotType ==
    /\ Ready("type") /\ Quiet
    /\ \E t \in TypeOf(log, got) :
          CASE t = "DTB"  -> Await("cmd", 2, [hdr EXCEPT !.src = IF got[1].at = 1 THEN got[1].call ELSE 0])
            [] t \in {"DATA", "OLD"} -> Await("drain", 3, [hdr EXCEPT !.err = "NO_CMD_MSG"])
            [] OTHER -> Throw("WRONG_MSG_TYPE")

GotCmd ==
    /\ Ready("cmd") /\ Quiet
    /\ \E c \in CmdOf(log, got) :
          Await("size", 1, [hdr EXCEPT !.cmd = c, !.src = Source(hdr.src, got, 2, 2)])

GotSize ==
    /\ Ready("size") /\ Quiet
    /\ \E n \in SizeOf(log, got, Junk) :
          Await("par", n, [hdr EXCEPT !.size = n, !.src = Source(hdr.src, got, 4, 1)])

\* msg.Check and the Get_s: what GetRpcCallId returns is the id of the name it
\* was asked for when the bytes say so, anything when they do not.
Checked == hdr.cmd = Call.as /\ hdr.size = ParBytes[Call.fn]
ParSource == Source(hdr.src, got, 5, hdr.size)

CheckFails ==
    /\ Ready("par") /\ ~Checked /\ Quiet
    /\ Throw(IF hdr.cmd # Call.as THEN "UNKNOWN_CMD" ELSE "CMD_PAR_SIZE")

GotValue ==
    /\ Ready("par") /\ Checked /\ ~HasData(Call.fn)
    /\ \E id \in IF ParSource = 0 \/ log[ParSource].as # Lookup
                 THEN Ids ELSE {IdOf(log[ParSource].arg)} :
          Return(ParSource, id)
    /\ Quiet

GotPar ==
    /\ Ready("par") /\ Checked /\ HasData(Call.fn) /\ Quiet
    /\ Await("dtype", 1, [hdr EXCEPT !.src = ParSource])

\* CDataHeader::RecvHeader
GotDataType ==
    /\ Ready("dtype") /\ Quiet
    /\ \E t \in TypeOf(log, got) :
          CASE t = "DATA" ->
                 Await("dsize", 3, [hdr EXCEPT !.src = Source(@, got, CmdEnd(Call.fn) + 1, 1)])
            [] t = "DTB"  -> Await("drain", 3, [hdr EXCEPT !.err = "NO_DATA_MSG"])
            [] t = "OLD"  -> Await("drain", 3, [hdr EXCEPT !.err = "NO_CMD_MSG"])
            [] OTHER -> Throw("WRONG_MSG_TYPE")

\* rpc_Receive: of a vector, the size must be a whole number of elements.
GotDataSize ==
    /\ Ready("dsize") /\ Quiet
    /\ \E n \in DataSizeOf(log, got, Junk) :
          IF Shape[Call.fn] = "vector" /\ n % 2 # 0
          THEN Await("sink", n, [hdr EXCEPT !.err = "WRONG_DATA_SIZE"])
          ELSE Await("data", n, [hdr EXCEPT !.size = n,
                                    !.src = Source(@, got, CmdEnd(Call.fn) + 2, 3)])

GotData ==
    /\ Ready("data")
    /\ Return(Source(hdr.src, got, CmdEnd(Call.fn) + 5, hdr.size), NoId)
    /\ Quiet

\* The unexpected message is read away: after a command header its parameters,
\* after a data header as much of the data as its size, kept in 16 bits, says.
DrainSizes ==
    IF hdr.err = "NO_DATA_MSG"
    THEN IF Len(got) = 3 THEN SizeOf(log, <<got[3]>>, Junk) ELSE 0 .. Junk
    ELSE {n % Wide : n \in DataSizeOf(log, got, Junk)}

GotDrain ==
    /\ Ready("drain") /\ Quiet
    /\ \E n \in DrainSizes : Await("sink", n, hdr)

GotSink == Ready("sink") /\ Throw(hdr.err) /\ Quiet

-----------------------------------------------------------------------------
(* What the client does between calls: CTestboard::Flush (the command       *)
(* flush, mDelay), Clear (the command clear), Open, Close.                  *)

UserFlush ==
    /\ pc = "idle" /\ wbuf # <<>>
    /\ \/ open /\ tx' = tx \o wbuf /\ UNCHANGED <<lost, failed>>
       \/ /\ open /\ Fail("write")
          /\ \E k \in 0 .. Len(wbuf) :
                tx' = tx \o SubSeq(wbuf, 1, k) /\ lost' = lost \cup Calls(Drop(wbuf, k))
       \/ ~open /\ lost' = lost \cup Calls(wbuf) /\ UNCHANGED <<tx, failed>>
    /\ wbuf' = <<>>
    /\ UNCHANGED <<host, open, up, nbuf, nrx, log, exec, clean, whole>>

\* FT_Purge empties the driver's queues, some requests may be past it.
Clear ==
    /\ pc = "idle" /\ open
    /\ \E k \in 0 .. Len(tx) :
          /\ tx' = SubSeq(tx, 1, k)
          /\ lost' = lost \cup Calls(Drop(tx, k)) \cup Calls(wbuf)
    /\ wbuf' = <<>> /\ up' = Drop(up, nbuf + nrx) /\ nbuf' = 0 /\ nrx' = 0
    /\ whole' = (up' = <<>>)
    /\ clean' = (clean \/ (up' = <<>> /\ tx' = <<>> /\ IdsGood))
    /\ UNCHANGED <<host, open, log, exec, failed>>

Close ==
    /\ pc = "idle" /\ open
    /\ open' = FALSE /\ cmdId' = Cleared
    /\ UNCHANGED <<pc, fn, wpos, field, need, got, hdr, ret, wbuf, up, nbuf, nrx, tx,
                   log, exec, lost, clean, whole, failed>>

\* CTestboard::Open: the driver's queue may or may not survive; FT_OpenEx may fail.
Open ==
    /\ pc = "idle" /\ ~open
    /\ open' \in BOOLEAN
    /\ cmdId' = Cleared /\ wbuf' = <<>> /\ nbuf' = 0
    /\ lost' = lost \cup Calls(wbuf)
    /\ \E k \in {nbuf, nbuf + nrx} : up' = Drop(up, k) /\ nrx' = nrx + nbuf - k
    /\ whole' = (up' = <<>>)
    /\ clean' = (up' = <<>> /\ (clean \/ tx = <<>>))
    /\ UNCHANGED <<pc, fn, wpos, field, need, got, hdr, ret, tx, log, exec, failed>>

-----------------------------------------------------------------------------
(* The board and the driver (external). *)

Execute ==
    /\ tx # <<>> /\ Whole(tx[1].call)
    /\ LET n == tx[1].call
       IN  /\ exec' = Append(exec, n)
           /\ up' = up \o Answer(n, log[n].as)
           /\ tx' = Drop(tx, ReqBytes[log[n].fn])
    /\ UNCHANGED <<host, open, wbuf, nbuf, nrx, log, lost, clean, whole, failed>>

\* The board gives up a request that broke off.
Discard ==
    /\ tx # <<>> /\ Broken
    /\ tx' = Drop(tx, 1)
    /\ UNCHANGED <<host, usb, history>>

Arrive ==
    /\ nbuf + nrx < Len(up)
    /\ nrx' = nrx + 1
    /\ UNCHANGED <<host, open, wbuf, up, nbuf, tx, history>>

-----------------------------------------------------------------------------

Stub ==
    \/ CreateKnown \/ CreateLookup \/ NoSuchCall
    \/ WriteByte \/ WriteFull \/ WriteClosed \/ ReturnVoid \/ Flush \/ FlushFails
    \/ CopyBytes \/ FillBuffer \/ ShortRead \/ ReadFails
    \/ GotType \/ GotCmd \/ GotSize \/ CheckFails \/ GotValue \/ GotPar
    \/ GotDataType \/ GotDataSize \/ GotData \/ GotDrain \/ GotSink

User == (\E f \in Fn : Client(f)) \/ UserFlush \/ Clear \/ Close \/ Open

Board == Execute \/ Discard \/ Arrive

Next == Stub \/ User \/ Board

Spec == Init /\ [][Next]_vars

\* The stub runs on, and its FT_Read ends; the board works off what it gets.
FairSpec == Spec /\ WF_vars(Stub) /\ WF_vars(Execute \/ Discard) /\ WF_vars(Arrive)
-----------------------------------------------------------------------------
(* Properties. *)

\* The value a stub returns is the board's answer to that very call, as long as
\* every Read got what it asked for since the link was last quiet: an answer is
\* never taken for the answer to an earlier or a later call (no stub numbers its
\* messages; Check compares the function id and the size only).
Paired == ret.out = "ok" /\ ret.sure => ret.src = ret.call

\* A call that returns an answer is a barrier: every call made before it has
\* been executed by then (or was dropped by Clear, Open or a failed write),
\* although void stubs leave their requests in m_bufferW.
Barrier ==
    ret.out = "ok" /\ ret.sure /\ ret.call > 0 /\ HasAnswer(log[ret.call].fn)
        => 1 .. ret.call \subseteq Executed \cup lost

\* Every call made is executed, is dropped, or still has all its bytes in the
\* buffers: a Flush in the middle of a message loses nothing and repeats nothing.
InTransit(n) ==
    LET s == tx \o wbuf
        k == IF n = Cur /\ pc = "write" THEN wpos ELSE ReqBytes[log[n].fn]
    IN  \E i \in 0 .. Len(s) - k : \A j \in 1 .. k : s[i + j] = [call |-> n, at |-> j]

NothingForgotten ==
    /\ Executed \cap lost = {}
    /\ \A n \in 1 .. Cur : n \in Executed \cup lost \/ InTransit(n)

\* The ids in rpc_cmdId are the firmware's while the link is clean: a stale
\* answer to GetRpcCallId can be cached only after a Read that failed.  (Then the
\* wrong id stays: Clear does not remove it, rpc_Clear does.)
IdsRight == clean => IdsGood

\* After a stub that met a message it did not expect, and after a timeout that
\* struck before the first byte of a message, the bytes to come begin with a
\* whole message: "remove unexpected data message from queue" (rpc.cpp).
StartsMessage(b) == b.at = 1 \/ (HasData(log[b.call].as) /\ b.at = CmdEnd(log[b.call].as) + 1)

MessageBoundary == pc = "idle" /\ whole /\ up # <<>> => StartsMessage(up[1])

\* The board executes the calls in the order they were made, none twice.
InOrder == \A i, j \in DOMAIN exec : i < j => exec[i] < exec[j]

\* Every stub ends: with an answer, or with an exception.
StubsEnd == pc # "idle" ~> pc = "idle"

\* A request that was flushed as a whole is executed, unless it is dropped.
FlushedRuns ==
    \A n \in 1 .. MaxCalls :
        (n <= Cur /\ \E i \in DOMAIN tx : tx[i] = [call |-> n, at |-> ReqBytes[log[n].fn]])
            ~> n \in Executed \cup lost

\* What the client may rely on, whatever the buffers do: RpcService.
Service == INSTANCE RpcService WITH
    Answering <- {f \in Fn : HasAnswer(f)},
    calls <- [n \in DOMAIN log |-> log[n].fn],
    executed <- Executed, dropped <- lost, trusted <- clean,
    busy <- pc \in {"write", "read"},
    reply <- [call |-> ret.call, out |-> ret.out, src |-> ret.src]

\* The link implements the service: what it does to calls, executions, replies
\* and trust is a step the service allows, failures included.
ServiceSpec == Service!Spec
=============================================================================
