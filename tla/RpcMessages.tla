---------------------------- MODULE RpcMessages ----------------------------
(***************************************************************************)
(* The remote calls of the test board and the messages that carry them     *)
(* (rpc_calls.cpp, rpc.h, rpc.cpp).                                        *)
(*                                                                         *)
(* A request is a command message, with a data message behind it when the  *)
(* call sends a vector or a string; an answer is a command message         *)
(*     type(1) cmd(2) size(1) par(size)                                    *)
(* followed, for a call that fetches data, by a data message               *)
(*     type(1) size(3) data(size).                                         *)
(* A byte is known by the call it belongs to and by its place in that      *)
(* call's request or answer; what it says follows from the place.  The     *)
(* call id that rpc_cmdId caches is known by the firmware function that    *)
(* answers to it, so that rpc_cmdId[f] is right exactly when it is f.      *)
(***************************************************************************)
EXTENDS Integers, Sequences

CONSTANTS
    Fn,         \* the remote functions the client knows (rpc_cmdName)
    Lookup,     \* GetRpcCallId, function 1 of the table
    Fixed,      \* functions whose id rpc_Clear fixes: GetRpcVersion, GetRpcCallId
    Missing,    \* functions the firmware does not have
    Shape,      \* Shape[f]: how the stub of f ends, see Shapes
    ReqBytes,   \* ReqBytes[f]: bytes of a request
    ParBytes,   \* ParBytes[f]: parameter bytes of the answer, as in msg.Check
    DatBytes,   \* DatBytes[f]: data bytes of the answer
    NoId,       \* -1 in rpc_cmdId
    Alien       \* an id no firmware function has

\* void:   Create, Put, Send
\* value:  ..., Flush, Receive, Check, Get
\* vector: ..., Check, rpc_Receive( vector ); string: ..., rpc_Receive( string )
Shapes == {"void", "value", "vector", "string"}

ASSUME FnAssumption ==
    /\ Lookup \in Fn /\ Fixed \subseteq Fn /\ Missing \subseteq Fn
    /\ Lookup \in Fixed /\ Fixed \cap Missing = {}
    /\ NoId \notin Fn /\ Alien \notin Fn /\ NoId # Alien

ASSUME SizeAssumption ==
    /\ Shape \in [Fn -> Shapes] /\ Shape[Lookup] = "value"
    /\ ReqBytes \in [Fn -> Nat \ {0}]
    /\ ParBytes \in [Fn -> Nat] /\ DatBytes \in [Fn -> Nat]
    /\ ParBytes[Lookup] # 0
    /\ \A f \in Fn : Shape[f] = "vector" => DatBytes[f] % 2 = 0

Ids == Fn \cup {NoId, Alien}

\* One call as the client made it: its function, the id it was sent with and,
\* for GetRpcCallId, the function whose name it asks for.
CallRecord == [fn : Fn, as : Ids, arg : Fn]

Byte == [call : Nat, at : Nat \ {0}]

HasAnswer(f) == Shape[f] # "void"
HasData(f) == Shape[f] \in {"vector", "string"}

CmdEnd(f) == 4 + ParBytes[f]             \* length of the command message

AnswerBytes(f) ==
    IF ~HasAnswer(f) THEN 0
    ELSE IF HasData(f) THEN CmdEnd(f) + 4 + DatBytes[f] ELSE CmdEnd(f)

\* The bytes the board sends for call n, made with id `as`: the answer of the
\* function the id selects, nothing for an id it does not know.
Answer(n, as) ==
    [j \in 1 .. IF as \in Fn THEN AnswerBytes(as) ELSE 0 |-> [call |-> n, at |-> j]]

\* What GetRpcCallId answers for a name.
IdOf(f) == IF f \in Missing THEN NoId ELSE f

MsgTypes == {"DTB", "DATA", "OLD", "junk"}

(***************************************************************************)
(* What the client makes of the bytes a Read gave it: the sets of values a *)
(* field may have.  A byte in its own place says what the board meant; a   *)
(* byte out of place, or one a short Read never wrote, may say anything    *)
(* (Junk bounds the sizes).                                                *)
(***************************************************************************)
Consecutive(s) == \A i \in 2 .. Len(s) : s[i] = [call |-> s[1].call, at |-> s[1].at + i - 1]

TypeOf(log, s) ==
    LET f == log[s[1].call].as
    IN  IF s[1].at = 1 THEN {"DTB"}
        ELSE IF s[1].at = CmdEnd(f) + 1 THEN {"DATA"} ELSE MsgTypes

\* The high byte of m_cmd still holds the id given to Create when it is not
\* read, and no id needs it, so the low byte decides.
CmdOf(log, s) ==
    IF s[1].at = 2 /\ Consecutive(s) THEN {log[s[1].call].as} ELSE Ids \ {NoId}

SizeOf(log, s, Junk) ==
    IF s[1].at = 4 THEN {ParBytes[log[s[1].call].as]} ELSE 0 .. Junk

DataSizeOf(log, s, Junk) ==
    LET f == log[s[1].call].as
    IN  IF s[1].at = CmdEnd(f) + 2 /\ Len(s) = 3 /\ Consecutive(s)
        THEN {DatBytes[f]} ELSE 0 .. Junk

\* The call that all bytes read so far come from (0: from no one call): src
\* before, then the bytes s, which should be n bytes from place `at` on.
Source(src, s, at, n) ==
    IF \/ n = 0
       \/ /\ Len(s) = n /\ Consecutive(s)
          /\ s[1] = [call |-> src, at |-> at]
    THEN src ELSE 0
=============================================================================
