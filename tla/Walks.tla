------------------------------- MODULE Walks -------------------------------
(***************************************************************************)
(* What a procedure does between its beginning and its end, for one        *)
(* command at a time: from which views of the board and of the program it  *)
(* may be called, and with which of them it ends or returns.  A view moves *)
(* as the actions of Procedures move the variables; boards behind which    *)
(* requests wait are not in it, since exceptions are left out.             *)
(***************************************************************************)
EXTENDS Commands

\* The sensor is biased only while the chips have power.
Biased(b) == b.hv = "on" => b.lv = "on"

\* What the properties of Procedures look at: the board as the program takes
\* it to be, the state of the program, and what the command did so far.
View ==
    [now |-> Now, safe |-> \A k \in 1 .. Len(line) : Biased(line[k]),
     unsent |-> unsent, dacval |-> dacval, phase |-> phase, timeout |-> timeout,
     roclist |-> roclist, kept |-> kept, started |-> started, read |-> read, live |-> live]

Fields == {"now", "safe", "unsent", "dacval", "phase", "timeout", "roclist", "kept",
           "started", "read", "live"}

Views ==
    [now : Board, safe : BOOLEAN, unsent : BOOLEAN, dacval : [Rocs -> [Dacs -> Values]],
     phase : {"tuned", "new"}, timeout : {"long", "short"}, roclist : Selections,
     kept : [Locals -> Values], started : SUBSET Channels, read : SUBSET Channels,
     live : BOOLEAN]

\* Value, Effect: the value of an expression, what a request does to the board.
Given(v, e) ==
    IF e[1] = "copy" THEN v.dacval[e[2]][e[3]]
    ELSE IF e[1] = "kept" THEN v.kept[e[2]] ELSE e

Changed(v, i) ==
    LET b == v.now IN
    CASE i.do = "roc_I2cAddr" -> [b EXCEPT !.addr = i.roc]
      [] i.do = "first" ->
           [b EXCEPT !.addr = CHOOSE r \in v.roclist : \A s \in v.roclist : r <= s]
      [] i.do \in {"SetDAC", "pixels"} /\ b.lv = "off" -> b
      [] i.do = "SetDAC" /\ b.lv = "on" -> [b EXCEPT !.dac[b.addr][i.dac] = Given(v, i.val)]
      [] i.do = "pixels" /\ b.lv = "on" -> [b EXCEPT !.on[b.addr] = (@ \cup i.adds) \ i.drops]
      [] i.do = "Daq_Start" -> [b EXCEPT !.runs = @ \cup {i.ch}]
      [] i.do = "Daq_Stop" -> [b EXCEPT !.runs = @ \ {i.ch}]
      [] i.do = "Daq_Close" -> [b EXCEPT !.open = @ \ {i.ch}]
      [] i.do = "switch" -> Supply(b, i.part, IF i.to = "phase" THEN v.phase ELSE i.to)
      [] i.do = "send" -> b

\* Nothing but F is another one in w.
Same(v, w, F) == \A f \in Fields \ F : w[f] = v[f]

\* Behind a barrier the board is b, for certain.
Settles(v, w, b, F) ==
    /\ w.now = b /\ w.unsent = FALSE /\ w.safe = Biased(b)
    /\ Same(v, w, {"now", "unsent", "safe"} \cup F)

\* The call i, which is no control structure, makes w of v.
Moves(i, v, w) ==
    \/ /\ i.do \in Voids
       /\ w.now = Changed(v, i) /\ w.unsent = TRUE
       /\ w.safe = (v.safe /\ Biased(w.now))
       /\ w.started = IF i.do = "Daq_Start" THEN v.started \cup {i.ch} ELSE v.started
       /\ Same(v, w, {"now", "unsent", "safe", "started"})
    \/ i.do = "flush" /\ Settles(v, w, v.now, {})
    \/ i.do = "SetTrimValues" /\ Settles(v, w, [v.now EXCEPT !.trims[i.roc] = i.same], {})
    \/ i.do = "Daq_Open" /\ Settles(v, w, [v.now EXCEPT !.open = @ \cup {i.ch}], {})
    \/ /\ i.do = "Daq_Read" /\ Settles(v, w, v.now, {"read", "live"})
       /\ w.read = v.read \cup {i.ch} /\ w.live = (v.live \/ v.now.loop = "on")
    \/ /\ i.do = "LoopSingleRoc"
       /\ Settles(v, w, [Scanned(v.now, {i.roc}, i.dacs) EXCEPT !.addr = i.roc], {})
    \/ /\ i.do = "LoopMultiRoc"
       /\ \E a \in v.roclist :
             Settles(v, w, [Scanned(v.now, v.roclist, i.dacs) EXCEPT !.addr = a], {})
    \/ /\ i.do = "dacval" /\ Same(v, w, {"dacval"})
       /\ w.dacval = [v.dacval EXCEPT ![i.roc][i.dac] = Given(v, i.val)]
    \/ /\ i.do = "keep" /\ Same(v, w, {"kept"})
       /\ w.kept = [v.kept EXCEPT ![i.name] = v.dacval[i.roc][i.dac]]
    \/ /\ i.do = "modtrm" /\ Same(v, w, {"now"})
       /\ w.now = [v.now EXCEPT !.trims[i.roc] = FALSE]
    \/ i.do = "phase" /\ w.phase = i.val /\ Same(v, w, {"phase"})
    \/ i.do = "timeout" /\ w.timeout = i.val /\ Same(v, w, {"timeout"})
    \/ i.do = "select" /\ w.roclist = i.of /\ Same(v, w, {"roclist"})

-----------------------------------------------------------------------------
\* The program p with view v goes on as q with view w.
Goes(p, v, q, w) ==
    LET i == p[1]
        rest == Tail(p)
    IN
    \/ q = rest /\ Moves(i, v, w)
    \/ /\ w = v
       /\ \/ i.do = "either" /\ \E k \in DOMAIN i.of : q = i.of[k] \o rest
          \/ i.do = "again" /\ q \in {i.of[1] \o p, rest}
          \/ /\ i.do = "each"
             /\ LET body == IF i.all \/ i.roc \in v.roclist THEN i.of[i.roc] ELSE <<>>
                    more == IF i.roc = MaxRoc THEN <<>> ELSE <<[i EXCEPT !.roc = i.roc + 1]>>
                IN q = body \o more \o rest
          \/ i.do = "call" /\ q = i.of[1] \o <<EndOfCall>> \o rest
          \/ i.do = "try" /\ q = i.of[1] \o <<EndOfTry>> \o rest
          \/ i \in {EndOfCall, EndOfTry} /\ q = rest
          \/ i.do = "return" /\ q = Behind(rest)

IsSeq(p) == \E S : p \in Seq(S)
\* A control structure leads to programs.
Sound(i, s) == \A p \in Leads(i, s) : IsSeq(p)
\* No function ends in p.
Unmarked(p) == \A k \in 1 .. Len(p) : p[k] # EndOfCall
\* The next step of p returns from the function in which p is.
Out(p) == p[1].do = "return" /\ Unmarked(Tail(p))

\* G is a set of programs, each with a view from V, that goes on in G until it
\* ends with a view from B, or returns with a view from R.
Closed(G, V, B, R) ==
    \A g \in G :
        /\ IsSeq(g[1]) /\ g[2] \in V
        /\ g[1] = <<>> => g[2] \in B
        /\ g[1] # <<>> =>
             /\ Sound(g[1][1], g[2].roclist)
             /\ Out(g[1]) => g[2] \in R
             /\ ~Out(g[1]) => \A q : \A w \in Views : Goes(g[1], g[2], q, w) => <<q, w>> \in G

\* The program p goes on from the view v until it ends or returns so.
Runs(V, B, R, p, v) == \E G : Closed(G, V, B, R) /\ <<p, v>> \in G

\* From a view in A the procedure p ends with one in B, or returns with one in
\* R, with none but those of V in between.
Triple(V, A, p, B, R) ==
    /\ IsSeq(p) /\ Unmarked(p)
    /\ \A v \in A : v \in V => Runs(V, B, R, p, v)

-----------------------------------------------------------------------------
\* The view of a board that is set up, and any view at the prompt.
Beginning ==
    {v \in Views :
        /\ \E a \in v.roclist : v.now = [Healthy EXCEPT !.addr = a]
        /\ v.safe = TRUE /\ v.unsent = FALSE /\ v.dacval = Healthy.dac
        /\ v.phase = "tuned" /\ v.timeout = "long"
        /\ v.started = {} /\ v.read = {} /\ v.live = FALSE}
Anytime == {v \in Views : v.started = {} /\ v.read = {} /\ v.live = FALSE}

\* Each command of C runs, with views of V[c], to its end with one of B[c].
Certain(C, V, B) ==
    \A c \in C : \A v \in Beginning \cup (IF MaxCommands > 1 THEN Anytime ELSE {}) :
        Allowed(c, v.roclist) => Runs(V[c], B[c], B[c], Procedure[c], v)

\* The state of Procedures is one on such a way.
OnTheWay(C, V, B) ==
    /\ outcome = "done" => Prompt
    /\ command \notin Commands => typed = 0
    /\ typed = 0 => command = "none" /\ outcome = "done" /\ View \in Beginning
    /\ outcome = "running" /\ command \in C =>
          Runs(V[command], B[command], B[command], todo, View)
    /\ outcome = "done" /\ command \in C \ {"none"} => View \in V[command] \cap B[command]
    /\ outcome \in {"caught", "thrown"} => throws > 0
=============================================================================
