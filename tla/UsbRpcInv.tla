----------------------------- MODULE UsbRpcInv -----------------------------
(***************************************************************************)
(* The inductive invariants of UsbRpc: where every byte of a request and   *)
(* of an answer can be.  RpcInv, which TLC checks as an invariant, is      *)
(* proved by UsbRpc_proofs and UsbRpcPairing_proofs part by part; Fate     *)
(* rests on it and is proved by UsbRpcFate_proofs; Aligned needs only the  *)
(* types, and is proved by UsbRpc_proofs, too.                             *)
(***************************************************************************)
EXTENDS UsbRpc

InCall == pc \in {"write", "read"}

(* Every byte belongs to a call that was made; the board answers only to ids *)
(* it knows; a field that is looked at has at least one byte.                *)
Known(s) == \A i \in DOMAIN s : s[i].call \in 1 .. Cur
FromBoard(s) == \A i \in DOMAIN s : s[i].call \in 1 .. Cur /\ log[s[i].call].as \in Fn

Bytes ==
    /\ InCall => Cur > 0
    /\ Known(tx) /\ Known(wbuf) /\ FromBoard(up) /\ FromBoard(got)
    /\ hdr.src \in 0 .. Cur
    /\ field \in {"type", "cmd", "size", "dtype", "dsize", "drain"} => need > 0 \/ got # <<>>
    /\ pc = "write" => wpos <= ReqBytes[Call.fn]

(* The bytes on their way to the board, in the driver and in m_bufferW: in   *)
(* the order in which they were written, and behind what was executed.  The  *)
(* last byte of a request is not given to the driver while the stub writes.  *)
Pipe == tx \o wbuf

Before(b, c) == b.call < c.call \/ (b.call = c.call /\ b.at < c.at)
Sorted(s) == \A i, j \in DOMAIN s : i < j => Before(s[i], s[j])
InRequest(s) == \A i \in DOMAIN s : s[i].at <= ReqBytes[log[s[i].call].fn]
Ahead(s) == \A i \in DOMAIN exec : \A j \in DOMAIN s : exec[i] < s[j].call

Writing ==
    /\ \A i \in DOMAIN Pipe : Pipe[i].call = Cur => Pipe[i].at <= wpos
    /\ \A i \in DOMAIN tx : tx[i].call = Cur => tx[i].at < ReqBytes[Call.fn]
    /\ \A i \in DOMAIN exec : exec[i] < Cur
    /\ open \/ wpos = 0

Framing == Sorted(Pipe) /\ InRequest(Pipe) /\ (pc = "write" => Writing)

Executions ==
    /\ InOrder /\ Ahead(Pipe)
    /\ \A i \in DOMAIN exec : exec[i] \in 1 .. Cur

(* The function called, the call made for it, the ids.                       *)
Naming ==
    /\ \A f \in Fixed : cmdId[f] = f
    /\ InCall => Call.arg = fn /\ Call.fn \in {fn, Lookup}
    /\ InCall /\ Call.fn # fn => fn \notin Fixed

(* While the link is clean: no answer but the current one is under way, and  *)
(* the bytes to come continue what the stub has read of it.                  *)
Base == CASE field = "type"  -> 0
          [] field = "cmd"   -> 1
          [] field = "size"  -> 3
          [] field = "par"   -> 4
          [] field = "dtype" -> CmdEnd(Call.fn)
          [] field = "dsize" -> CmdEnd(Call.fn) + 1
          [] OTHER           -> CmdEnd(Call.fn) + 4
Size == CASE field = "cmd"   -> 2
          [] field = "par"   -> ParBytes[Call.fn]
          [] field = "dsize" -> 3
          [] field = "data"  -> DatBytes[Call.fn]
          [] OTHER           -> 1

Continues(s, n, p) == \A i \in DOMAIN s : s[i] = [call |-> n, at |-> p + i]

OnTrack ==
    /\ field \in {"type", "cmd", "size", "par", "dtype", "dsize", "data"}
    /\ field \in {"dtype", "dsize", "data"} => HasData(Call.fn)
    /\ need + Len(got) = Size
    /\ Base + Len(got) + Len(up) = AnswerBytes(Call.fn)
    /\ Continues(got, Cur, Base)
    /\ Continues(up, Cur, Base + Len(got))
    /\ field # "type" => hdr.src = Cur
    /\ field \in {"size", "par"} => hdr.cmd = Call.as
    /\ field = "par" => hdr.size = ParBytes[Call.fn]
    /\ field = "data" => hdr.size = DatBytes[Call.fn]

NotYet == up = <<>> /\ got = <<>> /\ field = "type" /\ need = 1

Sent(s) == \A i \in DOMAIN s :
    /\ log[s[i].call].as = log[s[i].call].fn
    /\ HasAnswer(log[s[i].call].fn) => s[i].call = Cur /\ InCall

Clean ==
    /\ IdsGood /\ Sent(Pipe)
    /\ InCall => Call.as = Call.fn
    /\ pc # "read" => up = <<>>
    /\ pc = "read" =>
          /\ HasAnswer(Call.fn) /\ wbuf = <<>>
          /\ NotYet \/ (OnTrack /\ \A i \in DOMAIN tx : tx[i].call # Cur)

\* All the parts together: an invariant that each step preserves by itself.
RpcInv == TypeOK /\ Bytes /\ Framing /\ Executions /\ Naming /\ Paired /\ (clean => Clean)

(* What became of the calls.  A call that was dropped lacks its last byte,   *)
(* so that the board does not execute what is left of it.                    *)
Fate ==
    /\ NothingForgotten
    /\ lost \subseteq 1 .. Cur
    /\ InCall => Cur \notin lost
    /\ \A i \in DOMAIN Pipe :
          Pipe[i].call \in lost => Pipe[i].at < ReqBytes[log[Pipe[i].call].fn]

(* Where the messages begin.  The bytes from the board are answers in one    *)
(* piece, one behind the other.                                              *)
RestOf(b) == AnswerBytes(log[b.call].as) - b.at

Runs ==
    \A i \in DOMAIN up :
        /\ RestOf(up[i]) \in Nat /\ i + RestOf(up[i]) \in DOMAIN up
        /\ \A j \in 0 .. RestOf(up[i]) : up[i + j] = [call |-> up[i].call, at |-> up[i].at + j]
        /\ i + RestOf(up[i]) + 1 \in DOMAIN up => up[i + RestOf(up[i]) + 1].at = 1

\* The bytes to come are what follows place q of the answer to call c.
Follows(c, q) ==
    IF q < AnswerBytes(log[c].as) THEN up # <<>> /\ up[1] = [call |-> c, at |-> q + 1]
    ELSE up # <<>> => up[1].at = 1

AtStart == up # <<>> => StartsMessage(up[1])

\* The field in progress is the one of the answer to call c behind Place(c), Total(c)
\* bytes long; when the answer is not the expected one it is drained by its own size.
Place(c) ==
    CASE field = "cmd"   -> 1
      [] field = "size"  -> 3
      [] field = "par"   -> 4
      [] field = "dsize" -> CmdEnd(log[c].as) + 1
      [] field = "drain" -> IF hdr.err = "NO_DATA_MSG" THEN 1 ELSE CmdEnd(log[c].as) + 1
      [] field = "sink"  -> IF hdr.err = "NO_DATA_MSG" THEN 4 ELSE CmdEnd(log[c].as) + 4
      [] OTHER           -> CmdEnd(log[c].as) + 4
Total(c) ==
    CASE field = "cmd"  -> 2
      [] field = "size" -> 1
      [] field = "par"  -> ParBytes[log[c].as]
      [] field \in {"dsize", "drain"} -> 3
      [] field = "sink" -> IF hdr.err = "NO_DATA_MSG" THEN ParBytes[log[c].as] ELSE DatBytes[log[c].as]
      [] OTHER          -> DatBytes[log[c].as]

Inside(c) ==
    /\ need + Len(got) = Total(c)
    /\ Place(c) + Total(c) <= AnswerBytes(log[c].as)
    /\ Continues(got, c, Place(c))
    /\ Follows(c, Place(c) + Len(got))

TypeRead ==
    /\ need + Len(got) = 1
    /\ need = 1 => AtStart
    /\ need = 0 => StartsMessage(got[1]) /\ HasAnswer(log[got[1].call].as)
                      /\ Follows(got[1].call, got[1].at)

Aligned ==
    /\ Runs
    /\ whole =>
         /\ pc # "read" => AtStart
         /\ pc = "read" /\ field \in {"type", "dtype"} => TypeRead
         /\ pc = "read" /\ field \notin {"type", "dtype"} => \E c \in 1 .. Cur : log[c].as \in Fn /\ Inside(c)
=============================================================================
