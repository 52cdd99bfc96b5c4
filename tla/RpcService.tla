---------------------------- MODULE RpcService ----------------------------
(***************************************************************************)
(* What the remote procedure calls of CTestboard promise, without buffers, *)
(* messages or ids: the client makes one call at a time, the board         *)
(* executes the calls in their order, each at most once, perhaps long      *)
(* after a call without answer has returned.  An answer that is trusted is *)
(* the answer to the call just made, and all calls before it are done.     *)
(* Trust is lost when a call fails and comes back between calls only, when *)
(* no answer is outstanding.                                               *)
(***************************************************************************)
EXTENDS Integers, Sequences

CONSTANTS Fn, Answering       \* the functions, those that answer

VARIABLES
    calls,      \* the functions called, in order
    executed,   \* the calls the board has executed
    dropped,    \* the calls it will never execute
    trusted,    \* answers belong to their calls
    busy,       \* a call is in progress: the last one
    reply       \* how the last call ended

vars == <<calls, executed, dropped, trusted, busy, reply>>

Last == Len(calls)
Done(n) == n \in executed \cup dropped

Init ==
    /\ calls = <<>> /\ executed = {} /\ dropped = {}
    /\ trusted = TRUE /\ busy = FALSE
    /\ reply = [call |-> 0, out |-> "none", src |-> 0]

Make ==
    /\ ~busy /\ busy' = TRUE
    /\ \E f \in Fn : calls' = Append(calls, f)
    /\ UNCHANGED <<executed, dropped, trusted, reply>>

Execute ==
    /\ \E n \in 1 .. Last :
          /\ ~Done(n) /\ \A m \in executed : m < n
          /\ executed' = executed \cup {n}
    /\ UNCHANGED <<calls, dropped, trusted, busy, reply>>

Answered ==
    /\ busy /\ busy' = FALSE
    /\ reply'.call = Last /\ reply'.out = "ok"
    /\ trusted => /\ reply'.src = Last
                  /\ calls[Last] \in Answering => \A n \in 1 .. Last : Done(n)
    /\ UNCHANGED <<calls, executed, dropped, trusted>>

\* A call fails; it and calls before it that wait in a buffer may be dropped.
Failed ==
    /\ busy /\ busy' = FALSE
    /\ reply'.call = Last /\ reply'.out # "ok"
    /\ dropped \subseteq dropped' /\ executed \cap dropped' = {}
    /\ trusted' => trusted
    /\ UNCHANGED <<calls, executed>>

\* The board has no such function; nothing is called.
Refused ==
    /\ ~busy /\ reply'.call = Last /\ reply'.out # "ok"
    /\ UNCHANGED <<calls, executed, dropped, trusted, busy>>

\* Bytes of the answer are given up.
Distrust ==
    /\ busy /\ trusted' = FALSE
    /\ UNCHANGED <<calls, executed, dropped, busy, reply>>

\* Between calls: buffers are emptied, the link closed and opened.
Reset ==
    /\ ~busy
    /\ dropped \subseteq dropped' /\ executed \cap dropped' = {}
    /\ trusted' =>
          \A n \in 1 .. Last : calls[n] \in Answering => n \in executed \cup dropped'
    /\ UNCHANGED <<calls, executed, busy, reply>>

Next == Make \/ Execute \/ Answered \/ Failed \/ Refused \/ Distrust \/ Reset

Spec == Init /\ [][Next]_vars
=============================================================================
