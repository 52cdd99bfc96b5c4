------------------------- MODULE Interpreter_proofs -------------------------
(***************************************************************************)
(* The interpreter: its types, that nothing typed at the prompt is left in *)
(* the buffer, and that the stack of activations computes what a line      *)
(* means, for all scripts, also those that run themselves, as long as each *)
(* of their lines is read in one piece.                                    *)
(***************************************************************************)
EXTENDS ScriptMeaning, SequenceTheorems, WellFoundedInduction, TLAPS

(* The place in a script is at its end or at a piece of it.                  *)
InText(f) ==
    f.file \in Scripts /\ f.line <= Len(Script[f.file])
        => f.piece <= Len(Script[f.file][f.line])

FramesOK ==
    /\ frames \in Seq(Frame) /\ frames # <<>>
    /\ Len(frames) <= MaxIter + 1
    /\ \A i \in 1 .. Len(frames) : (frames[i].file = "stdin") <=> i = 1
    /\ \A i \in 1 .. Len(frames) : InText(frames[i])

(* The flag says whether run reads stdin.                                    *)
FlagRight == interactive <=> AtStdin

(* The files of the active scripts and those that stay open.                *)
FilesOK == leaked \in Nat /\ leaked + Len(frames) <= MaxFiles + 1

OthersOK ==
    /\ interactive \in BOOLEAN /\ word \in Words /\ pc \in {"read", "exec"}
    /\ unsent \in 0 .. Room
    /\ status \in {"running", "left", "crashed"}
    /\ line \in Words /\ done \in Seq(Commands) /\ threw \in BOOLEAN

(* A command at the prompt is the line typed; scripts run for the name of a  *)
(* script.                                                                   *)
Typed ==
    /\ AtStdin /\ pc = "exec" => word = line
    /\ ~AtStdin => line \in Scripts

InterpInv == FramesOK /\ FilesOK /\ OthersOK /\ FlagRight /\ Typed /\ PromptSent

-----------------------------------------------------------------------------
(* Numbers.                                                                  *)

\* Steps and bounds of the natural numbers, to be cited for lengths.
LEMMA Numbers ==
    ASSUME NEW m \in Nat, NEW n \in Nat
    PROVE  /\ m # 0 /\ m # 1 => m > 1
           /\ m <= n => m + 1 <= n + 1 /\ m - 1 <= n
           /\ m < n => m + 1 <= n
           /\ m <= n <=> ~(m > n)
           /\ m > 1 => m - 1 # 0 /\ m - 1 \in Nat
           /\ m # 0 /\ ~(m > n) => m \in 1 .. n
           /\ m # 0 /\ m <= n => m \in 1 .. n
           /\ n # 0 => 1 <= n
           /\ m + 1 \in Nat \ {0}
OBVIOUS

LEMMA Zero == \A n \in Nat : 0 \in 0 .. n
OBVIOUS

LEMMA One == \A n \in Nat : 1 <= n + 1 /\ 0 + 1 <= n + 1 /\ 0 \in Nat
OBVIOUS

LEMMA Longer ==
    ASSUME NEW m \in Nat, NEW n \in Nat, NEW k, k = m + 1, m <= n
    PROVE  k <= n + 1
OBVIOUS

LEMMA Shorter ==
    ASSUME NEW m \in Nat, NEW n \in Nat, NEW k, k = m - 1, m <= n
    PROVE  k <= n
OBVIOUS

\* Files opened, closed and left open.
LEMMA FileNumbers ==
    ASSUME NEW l \in Nat, NEW n \in Nat \ {0}, NEW k \in Nat
    PROVE  /\ l + n - 1 < k => l + (n + 1) <= k + 1
           /\ l + n <= k + 1 => l + (n - 1) <= k + 1
           /\ l + n - 1 \in Nat /\ (l + n - 1) + 1 = l + n
OBVIOUS

(* The words and the files.                                                  *)

LEMMA ScriptFacts ==
    ASSUME NEW f \in Scripts, NEW i \in 1 .. Len(Script[f])
    PROVE  /\ Script[f] \in Seq(Seq(Words) \ {<<>>})
           /\ Script[f][i] \in Seq(Words) /\ Len(Script[f][i]) \in Nat \ {0}
<1>1. Script[f] \in Seq(Seq(Words) \ {<<>>})
  BY WordAssumption
<1>2. Script[f][i] \in Seq(Words) \ {<<>>}
  BY <1>1, ElementOfSeq
<1> QED BY <1>1, <1>2, EmptySeq, LenProperties

LEMMA StartFacts ==
    ASSUME NEW f \in Scripts \cup {"stdin"}
    PROVE  Start(f) \in Frame /\ Start(f).file = f /\ InText(Start(f))
<1>1. Start(f) \in Frame /\ Start(f).file = f /\ Start(f).line = 1 /\ Start(f).piece = 1
  BY DEF Start, Frame
<1>2. ASSUME f \in Scripts, 1 <= Len(Script[f])
      PROVE  1 <= Len(Script[f][1])
  <2>1. Script[f] \in Seq(Seq(Words) \ {<<>>})
    BY <1>2, WordAssumption
  <2>2. 1 \in 1 .. Len(Script[f])
    BY <2>1, <1>2, LenProperties
  <2> QED BY <2>2, <1>2, ScriptFacts
<1> QED BY <1>1, <1>2 DEF InText

\* The two kinds of frames: stdin's, which is the first, and the scripts'.
LEMMA TopFacts ==
    ASSUME FramesOK
    PROVE  /\ Len(frames) \in Nat \ {0}
           /\ Top \in Frame
           /\ ~AtStdin => Len(frames) > 1 /\ Top.file \in Scripts /\ InText(Top)
<1>1. Len(frames) \in Nat \ {0}
  BY EmptySeq, LenProperties DEF FramesOK
<1>2. Top \in Frame /\ InText(Top)
  BY <1>1, ElementOfSeq, LenProperties DEF FramesOK, Top
<1>3. ~AtStdin => Len(frames) > 1
  BY <1>1, Numbers DEF AtStdin
<1>4. ~AtStdin => Top.file # "stdin"
  BY <1>1, <1>3 DEF FramesOK, Top
<1> QED BY <1>1, <1>2, <1>3, <1>4 DEF Frame

-----------------------------------------------------------------------------
(* The stack.                                                                *)

LEMMA UnwoundFrames == <<Stdin>> \in Seq(Frame) /\ Len(<<Stdin>>) = 1
                       /\ (frames' = <<Stdin>> => FramesOK')
<1>1. Stdin \in Frame /\ Stdin.file = "stdin" /\ InText(Stdin)
  BY StartFacts DEF Stdin
<1>2. MaxIter \in Nat
  BY WordAssumption
<1>3. /\ <<Stdin>> \in Seq(Frame) /\ Len(<<Stdin>>) = 1 /\ <<Stdin>> # <<>>
      /\ \A i \in 1 .. 1 : i = 1 /\ <<Stdin>>[i] = Stdin
  BY <1>1
<1>4. ASSUME frames' = <<Stdin>> PROVE FramesOK'
  BY <1>1, <1>2, <1>3, <1>4 DEF FramesOK, InText
<1> QED BY <1>3, <1>4

LEMMA PushedFrames ==
    ASSUME FramesOK, NEW f \in Scripts, Len(frames) <= MaxIter,
           frames' = Append(frames, Start(f))
    PROVE  FramesOK' /\ Len(frames') = Len(frames) + 1
<1>1. Start(f) \in Frame /\ Start(f).file = f /\ InText(Start(f)) /\ f # "stdin"
  BY StartFacts, WordAssumption
<1>2. frames \in Seq(Frame) /\ Len(frames) \in Nat \ {0}
  BY TopFacts DEF FramesOK
<1>3. /\ frames' \in Seq(Frame) /\ Len(frames') = Len(frames) + 1
      /\ \A i \in 1 .. Len(frames) : frames'[i] = frames[i]
      /\ frames'[Len(frames) + 1] = Start(f)
  BY <1>1, <1>2, AppendProperties
<1>4. \A i \in 1 .. Len(frames') :
          i \in 1 .. Len(frames) \/ (i = Len(frames) + 1 /\ i # 1)
  BY <1>2, <1>3
<1>6. frames' # <<>>
  BY <1>2, <1>3
<1>7. Len(frames') <= MaxIter + 1
  <2>1. /\ Len(frames) \in Nat /\ MaxIter \in Nat
        /\ Len(frames') = Len(frames) + 1 /\ Len(frames) <= MaxIter
    BY <1>2, <1>3, WordAssumption
  <2> QED BY <2>1, Longer
<1>8. \A i \in 1 .. Len(frames') : (frames'[i].file = "stdin") <=> i = 1
  BY <1>1, <1>3, <1>4 DEF FramesOK
<1>9. \A i \in 1 .. Len(frames') : InText(frames'[i])
  BY <1>1, <1>3, <1>4 DEF FramesOK
<1> QED BY <1>3, <1>6, <1>7, <1>8, <1>9 DEF FramesOK, InText

LEMMA PoppedFrames ==
    ASSUME FramesOK, ~AtStdin, frames' = SubSeq(frames, 1, Len(frames) - 1)
    PROVE  FramesOK' /\ Len(frames') = Len(frames) - 1
<1>1. frames \in Seq(Frame) /\ Len(frames) \in Nat /\ Len(frames) > 1
  BY TopFacts DEF FramesOK
<1>2. /\ frames' \in Seq(Frame) /\ Len(frames') = Len(frames) - 1
      /\ \A i \in 1 .. Len(frames') : frames'[i] = frames[i]
  BY <1>1, SubSeqProperties
<1>3. 1 .. Len(frames') \subseteq 1 .. Len(frames)
  BY <1>1, <1>2
<1>4. frames' # <<>>
  <2>1. Len(frames') # 0
    BY <1>1, <1>2, Numbers
  <2> QED BY <2>1, EmptySeq
<1>5. Len(frames') <= MaxIter + 1
  <2>1. MaxIter + 1 \in Nat /\ Len(frames) <= MaxIter + 1
    BY WordAssumption, Numbers DEF FramesOK
  <2>2. /\ Len(frames) \in Nat /\ MaxIter + 1 \in Nat
        /\ Len(frames') = Len(frames) - 1 /\ Len(frames) <= MaxIter + 1
    BY <2>1, <1>1, <1>2
  <2> QED BY <2>2, Shorter
<1> QED BY <1>2, <1>3, <1>4, <1>5 DEF FramesOK, InText

LEMMA ReadFrames ==
    ASSUME FramesOK, ~AtStdin, ~AtEnd, frames' = [frames EXCEPT ![Len(frames)] = Onward]
    PROVE  /\ FramesOK' /\ Len(frames') = Len(frames)
           /\ Text[Top.line][Top.piece] \in Words
<1>1. /\ frames \in Seq(Frame) /\ Len(frames) \in Nat /\ Len(frames) > 1
      /\ Top \in Frame /\ Top.file \in Scripts /\ InText(Top)
  BY TopFacts DEF FramesOK
<1>2. PICK l \in Nat \ {0}, p \in Nat \ {0}, f \in Scripts :
         Top = [file |-> f, line |-> l, piece |-> p]
  BY <1>1 DEF Frame
<1>3. Top.file = f /\ Top.line = l /\ Top.piece = p /\ Text = Script[f]
  BY <1>2 DEF Text
<1>4. Text \in Seq(Seq(Words) \ {<<>>}) /\ Len(Text) \in Nat
  BY <1>2, <1>3, WordAssumption, LenProperties
<1>5. l \in 1 .. Len(Text) /\ l <= Len(Text)
  BY <1>3, <1>4, Numbers DEF AtEnd
<1>6. Text[l] \in Seq(Words) /\ Len(Text[l]) \in Nat \ {0} /\ p <= Len(Text[l])
  BY <1>1, <1>3, <1>5, ScriptFacts DEF InText
<1>7. Text[Top.line][Top.piece] \in Words
  <2>1. p \in 1 .. Len(Text[l])
    BY <1>6, Numbers
  <2> QED BY <2>1, <1>3, <1>6, ElementOfSeq
<1>8. Onward \in Frame /\ Onward.file = Top.file /\ InText(Onward)
  <2>1. CASE p < Len(Text[l])
    <3>1. Onward = [file |-> f, line |-> l, piece |-> p + 1]
      BY <2>1, <1>2, <1>3 DEF Onward
    <3>2. p + 1 \in Nat \ {0} /\ p + 1 <= Len(Text[l])
      BY <2>1, <1>6, Numbers
    <3>3. Onward \in Frame
      BY <3>1, <3>2, <1>2 DEF Frame
    <3> QED BY <3>1, <3>2, <3>3, <1>3 DEF InText
  <2>2. CASE ~(p < Len(Text[l]))
    <3>1. Onward = [file |-> f, line |-> l + 1, piece |-> 1]
      BY <2>2, <1>2, <1>3 DEF Onward
    <3>2. l + 1 \in Nat \ {0}
      BY <1>2, Numbers
    <3>3. Onward \in Frame
      BY <3>1, <3>2, <1>2 DEF Frame
    <3>4. ASSUME l + 1 <= Len(Text) PROVE 1 <= Len(Text[l + 1])
      <4>1. l + 1 \in 1 .. Len(Script[f])
        BY <3>4, <3>2, <1>3, <1>4, Numbers
      <4>2. Len(Text[l + 1]) \in Nat \ {0}
        BY <4>1, <1>2, <1>3, ScriptFacts
      <4> QED BY <4>2, Numbers
    <3> QED BY <3>1, <3>3, <3>4, <1>3 DEF InText
  <2> QED BY <2>1, <2>2
<1>9. /\ frames' \in Seq(Frame) /\ Len(frames') = Len(frames)
      /\ DOMAIN frames' = DOMAIN frames
      /\ \A i \in 1 .. Len(frames) :
            frames'[i] = IF i = Len(frames) THEN Onward ELSE frames[i]
  BY <1>1, <1>8, ExceptSeq
<1>10. frames' # <<>> /\ Len(frames') <= MaxIter + 1
  BY <1>1, <1>9 DEF FramesOK
<1>11. \A i \in 1 .. Len(frames') : frames'[i].file = frames[i].file /\ InText(frames'[i])
  BY <1>8, <1>9 DEF FramesOK, Top
<1> QED BY <1>7, <1>9, <1>10, <1>11 DEF FramesOK, InText

-----------------------------------------------------------------------------
(* One lemma per action.                                                     *)

\* Nothing of the stack changes.
LEMMA SameFrames == ASSUME FramesOK, UNCHANGED frames PROVE FramesOK'
  BY DEF FramesOK, InText

LEMMA SameStack ==
    ASSUME FramesOK, FilesOK, FlagRight, UNCHANGED <<frames, leaked, interactive>>
    PROVE  FramesOK' /\ FilesOK' /\ FlagRight'
  BY DEF FramesOK, InText, FilesOK, FlagRight, AtStdin

LEMMA ReturnStack ==
    ASSUME FramesOK, FilesOK, ~AtStdin, Return
    PROVE  FramesOK' /\ FilesOK' /\ FlagRight'
<1>1. FramesOK' /\ Len(frames') = Len(frames) - 1 /\ Len(frames) \in Nat \ {0}
  BY PoppedFrames, TopFacts DEF Return
<1>2. leaked + (Len(frames) - 1) <= MaxFiles + 1
  BY <1>1, FileNumbers, WordAssumption DEF FilesOK
<1>3. FilesOK'
  BY <1>1, <1>2 DEF FilesOK, Return
<1>4. FlagRight'
  BY DEF Return, FlagRight, AtStdin
<1> QED BY <1>1, <1>3, <1>4

LEMMA ThrowStack ==
    ASSUME FramesOK, FilesOK, Throw
    PROVE  FramesOK' /\ FilesOK' /\ FlagRight'
<1>1. FramesOK' /\ Len(frames') = 1 /\ Len(frames) \in Nat \ {0}
  BY UnwoundFrames, TopFacts DEF Throw
<1>2. leaked + Len(frames) - 1 \in Nat /\ (leaked + Len(frames) - 1) + 1 = leaked + Len(frames)
  BY <1>1, FileNumbers, WordAssumption DEF FilesOK
<1>3. FilesOK'
  BY <1>1, <1>2 DEF FilesOK, Throw
<1>4. FlagRight'
  BY <1>1 DEF Throw, FlagRight, AtStdin
<1> QED BY <1>1, <1>3, <1>4

LEMMA PushStack ==
    ASSUME FramesOK, FilesOK, RunScript, Len(frames) <= MaxIter
    PROVE  FramesOK' /\ FilesOK' /\ FlagRight'
<1>1. Len(frames) \in Nat \ {0} /\ ~(Len(frames) > MaxIter)
  BY TopFacts, WordAssumption, Numbers
<1>2. frames' = Append(frames, Start(word)) /\ interactive' = FALSE /\ leaked' = leaked
  BY <1>1 DEF RunScript
<1>3. FramesOK' /\ Len(frames') = Len(frames) + 1
  BY <1>2, PushedFrames DEF RunScript
<1>4. leaked + (Len(frames) + 1) <= MaxFiles + 1
  BY <1>1, FileNumbers, WordAssumption DEF FilesOK, RunScript, CanOpen
<1>5. FilesOK'
  BY <1>2, <1>3, <1>4 DEF FilesOK
<1>6. Len(frames') # 1
  BY <1>1, <1>3, Numbers
<1> QED BY <1>2, <1>3, <1>5, <1>6 DEF FlagRight, AtStdin

-----------------------------------------------------------------------------
(* The other variables: types, and what the prompt leaves in the buffer.     *)

LEMMA Vocabulary ==
    /\ "" \in Words /\ Commands \subseteq Words /\ Scripts \subseteq Words
    /\ Sending \subseteq Commands /\ Asking \cup {"flush"} \subseteq Commands
    /\ Scripts \cap (Flushing \cup Asking \cup {"flush"}) = {}
    /\ {"", "help", "typo"} \cap (Flushing \cup Asking \cup {"flush"}) = {}
  BY WordAssumption DEF Words, Commands

\* Types are kept.
LEMMA OthersKept ==
    ASSUME InterpInv, [Next]_vars
    PROVE  OthersOK'
<1>1. Room \in Nat \ {0} /\ 0 \in 0 .. Room
  <2>1. Room \in Nat \ {0}
    BY WordAssumption
  <2> QED BY <2>1, Zero
<1> USE DEF InterpInv, OthersOK
<1>2. CASE TypeLine
  <2>1. done' \in Seq(Commands)
    BY <1>2, EmptySeq DEF TypeLine
  <2> QED BY <1>2, <2>1 DEF TypeLine, Read
<1>3. CASE EndOfInput
  BY <1>3 DEF EndOfInput
<1>4. CASE ReadScript
  <2>1. word' \in Words
    BY <1>4, ReadFrames DEF ReadScript, Read
  <2> QED BY <1>4, <2>1 DEF ReadScript, Read
<1>5. CASE EndScript
  BY <1>5 DEF EndScript, Return
<1>6. CASE Exit
  BY <1>1, <1>6 DEF Exit, Return
<1>7. CASE Nothing
  BY <1>7 DEF Nothing
<1>8. CASE RunScript
  BY <1>8 DEF RunScript
<1>9. ASSUME word \in Commands PROVE Append(done, word) \in Seq(Commands)
  BY <1>9, AppendProperties
<1>10. CASE Send
  <2>1. unsent' \in 0 .. Room
    BY <1>1, <1>10 DEF Send, Put
  <2> QED BY <1>9, <1>10, <2>1, Vocabulary DEF Send, Finish
<1>11. CASE Ask
  BY <1>1, <1>9, <1>11, Vocabulary DEF Ask, Finish
<1>12. CASE Fail
  <2>1. word \in Commands
    BY <1>12, Vocabulary, WordAssumption DEF Fail
  <2> QED BY <1>1, <1>9, <1>12, <2>1 DEF Fail, Throw
<1>13. CASE UNCHANGED vars
  BY <1>13 DEF vars
<1> QED BY <1>2, <1>3, <1>4, <1>5, <1>6, <1>7, <1>8, <1>10, <1>11, <1>12, <1>13
       DEF Next, Step

LEMMA StackKept ==
    ASSUME InterpInv, [Next]_vars
    PROVE  FramesOK' /\ FilesOK' /\ FlagRight'
<1>1. FramesOK /\ FilesOK /\ FlagRight
  BY DEF InterpInv
<1>2. ASSUME UNCHANGED <<frames, leaked, interactive>>
      PROVE  FramesOK' /\ FilesOK' /\ FlagRight'
  BY <1>1, <1>2, SameStack
<1>3. CASE TypeLine \/ EndOfInput \/ Nothing \/ UNCHANGED vars
  BY <1>2, <1>3 DEF TypeLine, EndOfInput, Nothing, vars
<1>4. CASE ReadScript
  <2>1. FramesOK' /\ Len(frames') = Len(frames)
    BY <1>1, <1>4, ReadFrames DEF ReadScript
  <2> QED BY <1>1, <1>4, <2>1 DEF ReadScript, FilesOK, FlagRight, AtStdin
<1>5. CASE EndScript
  BY <1>1, <1>5, ReturnStack DEF EndScript
<1>6. CASE Exit
  <2>1. CASE AtStdin
    BY <1>2, <1>6, <2>1 DEF Exit
  <2>2. CASE ~AtStdin
    BY <1>1, <1>6, <2>2, ReturnStack DEF Exit
  <2> QED BY <2>1, <2>2
<1>7. CASE RunScript
  <2>1. CASE Len(frames) > MaxIter
    BY <1>2, <1>7, <2>1 DEF RunScript
  <2>2. CASE ~(Len(frames) > MaxIter)
    <3>1. Len(frames) <= MaxIter
      BY <1>1, <2>2, TopFacts, WordAssumption, Numbers
    <3> QED BY <1>1, <1>7, <3>1, PushStack
  <2> QED BY <2>1, <2>2
<1>8. CASE Send \/ Ask
  BY <1>2, <1>8 DEF Send, Ask, Finish
<1>9. CASE Fail
  BY <1>1, <1>9, ThrowStack DEF Fail
<1> QED BY <1>3, <1>4, <1>5, <1>6, <1>7, <1>8, <1>9 DEF Next, Step

LEMMA PromptKept ==
    ASSUME InterpInv, [Next]_vars
    PROVE  Typed' /\ PromptSent'
<1>1. /\ FramesOK /\ FlagRight /\ Typed /\ PromptSent
      /\ FramesOK' /\ FlagRight' /\ pc \in {"read", "exec"}
  BY StackKept DEF InterpInv, OthersOK
<1> USE DEF Typed, PromptSent, Prompt, Reads, Executes
<1>2. CASE TypeLine
  <2>1. AtStdin' = AtStdin /\ AtStdin /\ word' = line' /\ pc' = "exec"
    BY <1>1, <1>2 DEF TypeLine, Read, FlagRight, AtStdin
  <2> QED BY <2>1
<1>3. CASE EndOfInput
  BY <1>1, <1>3 DEF EndOfInput, AtStdin
<1>4. CASE ReadScript
  <2>1. ~AtStdin'
    BY <1>1, <1>4 DEF ReadScript, FlagRight
  <2> QED BY <1>1, <1>4, <2>1 DEF ReadScript, Read
<1>5. ASSUME Return, ~AtStdin PROVE Typed' /\ PromptSent'
  <2>1. line' \in Scripts /\ pc' = "read"
    BY <1>1, <1>5 DEF Return
  <2> QED BY <2>1, Vocabulary
<1>6. CASE EndScript
  BY <1>5, <1>6 DEF EndScript
<1>7. CASE Exit
  <2>1. CASE AtStdin
    BY <1>1, <1>7, <2>1 DEF Exit, AtStdin
  <2> QED BY <1>5, <1>7, <2>1 DEF Exit
<1>8. CASE Nothing
  <2>1. AtStdin => line \notin Flushing \cup Asking \cup {"flush"}
    BY <1>1, <1>8, Vocabulary DEF Nothing
  <2> QED BY <1>1, <1>8, <2>1 DEF Nothing, AtStdin
<1>9. CASE RunScript
  <2>1. line' \in Scripts /\ pc' = "read"
    BY <1>1, <1>9 DEF RunScript
  <2> QED BY <2>1, Vocabulary
<1>10. CASE Send
  <2>1. pc' = "read" /\ line' = line /\ status' = status /\ frames' = frames
    BY <1>10 DEF Send, Finish
  <2>2. ASSUME AtStdin, line \in Flushing \cup Asking \cup {"flush"} PROVE unsent' = 0
    <3>1. word = line /\ interactive
      BY <1>1, <1>10, <2>2 DEF Send, FlagRight
    <3>2. word \in Flushing
      BY <1>10, <2>2, <3>1, WordAssumption DEF Send
    <3> QED BY <1>10, <3>1, <3>2 DEF Send
  <2> QED BY <1>1, <2>1, <2>2 DEF AtStdin
<1>11. CASE Ask
  BY <1>1, <1>11 DEF Ask, Finish, AtStdin
<1>12. CASE Fail
  BY <1>1, <1>12 DEF Fail, Throw, FlagRight
<1>13. CASE UNCHANGED vars
  BY <1>1, <1>13 DEF vars, AtStdin
<1> QED BY <1>2, <1>3, <1>4, <1>6, <1>7, <1>8, <1>9, <1>10, <1>11, <1>12, <1>13
       DEF Next, Step

-----------------------------------------------------------------------------
(* The theorems.                                                             *)

LEMMA InitInv == Init => InterpInv
<1> SUFFICES ASSUME Init PROVE InterpInv
  OBVIOUS
<1>1. FramesOK /\ Len(frames) = 1
  <2>1. Stdin \in Frame /\ Stdin.file = "stdin" /\ InText(Stdin)
    BY StartFacts DEF Stdin
  <2>2. frames = <<Stdin>>
    BY DEF Init
  <2>3. /\ frames \in Seq(Frame) /\ Len(frames) = 1 /\ frames # <<>>
        /\ \A i \in 1 .. 1 : i = 1 /\ frames[i] = Stdin
    BY <2>1, <2>2
  <2>4. Len(frames) <= MaxIter + 1
    BY <2>3, WordAssumption, One
  <2> QED BY <2>1, <2>3, <2>4 DEF FramesOK
<1>2. FilesOK
  <2>1. leaked = 0 /\ MaxFiles \in Nat
    BY WordAssumption DEF Init
  <2> QED BY <1>1, <2>1, One DEF FilesOK
<1>3. OthersOK
  <2>1. 0 \in 0 .. Room
    BY WordAssumption, Zero
  <2>2. done \in Seq(Commands)
    BY EmptySeq DEF Init
  <2> QED BY <2>1, <2>2, Vocabulary DEF Init, OthersOK
<1> QED BY <1>1, <1>2, <1>3, WordAssumption, Vocabulary DEF Init, InterpInv, FlagRight,
       Typed, PromptSent, AtStdin, Prompt

LEMMA StepInv == InterpInv /\ [Next]_vars => InterpInv'
  BY OthersKept, StackKept, PromptKept DEF InterpInv

\* The invariant holds in every state of the interpreter.
THEOREM InterpreterInvariant == Spec => []InterpInv
  BY InitInv, StepInv, PTL DEF Spec

\* Every variable keeps its type, the stack never holds more than MaxIter
\* scripts (command.cpp: iter > 20), and the files stay within their number.
THEOREM StackBounded == Spec => []TypeOK
<1>1. InterpInv => TypeOK
  BY DEF InterpInv, FramesOK, FilesOK, OthersOK, TypeOK
<1> QED BY <1>1, InterpreterInvariant, PTL

\* Whatever scripts ran and whatever was thrown in between, a command that was
\* typed at the prompt and ends in DO_FLUSH has left the buffer when the prompt
\* is back: the flag that DO_FLUSH asks is true at the prompt.
THEOREM PromptIsSent == Spec => []PromptSent
<1>1. InterpInv => PromptSent
  BY DEF InterpInv
<1> QED BY <1>1, InterpreterInvariant, PTL

-----------------------------------------------------------------------------
(* What a line means.                                                        *)

Done == Seq(Commands)

\* Each line of a script fits the buffer of fgets.
OnePiece == \A w \in Scripts : \A i \in 1 .. Len(Script[w]) : Len(Script[w][i]) = 1

-----------------------------------------------------------------------------
(* Induction and recursion on the natural numbers, for sets and functions.   *)

Less == {p \in Nat \X Nat : p[1] < p[2]}

LEMMA LessWellFounded == IsWellFoundedOn(Less, Nat)
<1>1. OpToRel(<, Nat) = Less
  BY DEF OpToRel, Less
<1> QED BY <1>1, NatLessThanWellFounded

LEMMA Induction ==
    ASSUME NEW T, 0 \in T, \A n \in Nat : n \in T => n + 1 \in T
    PROVE  \A n \in Nat : n \in T
<1> DEFINE U == {n \in Nat : n \notin T}
<1> SUFFICES ASSUME U # {} PROVE FALSE
  OBVIOUS
<1>1. PICK m \in U : \A y \in U : ~(<<y, m>> \in Less)
  BY LessWellFounded, WFMin
<1>2. m # 0 /\ m \in Nat
  BY <1>1
<1>3. m - 1 \in Nat /\ m - 1 < m /\ (m - 1) + 1 = m
  BY <1>2
<1>4. m - 1 \notin U
  BY <1>1, <1>2, <1>3 DEF Less
<1> QED BY <1>3, <1>4

\* The beginnings, up to n, of the function that the step G makes of a.
Beginnings(T, a, G, n) ==
    {g \in [0 .. n -> T] : g[0] = a /\ \A i \in 0 .. n - 1 : g[i + 1] = G[<<i, g[i]>>]}

LEMMA BeginningsExist ==
    ASSUME NEW T, NEW a \in T, NEW G \in [Nat \X T -> T]
    PROVE  \A n \in Nat : Beginnings(T, a, G, n) # {}
<1> DEFINE P == {n \in Nat : Beginnings(T, a, G, n) # {}}
<1>1. 0 \in P
  <2> DEFINE g == [i \in 0 .. 0 |-> a]
  <2>1. g \in [0 .. 0 -> T] /\ g[0] = a /\ 0 .. 0 - 1 = {}
    OBVIOUS
  <2> QED BY <2>1 DEF Beginnings
<1>2. ASSUME NEW n \in Nat, n \in P PROVE n + 1 \in P
  <2>1. PICK g \in [0 .. n -> T] : g[0] = a /\ \A i \in 0 .. n - 1 : g[i + 1] = G[<<i, g[i]>>]
    BY <1>2 DEF Beginnings
  <2> DEFINE h == [i \in 0 .. n + 1 |-> IF i <= n THEN g[i] ELSE G[<<n, g[n]>>]]
  <2>2. G[<<n, g[n]>>] \in T
    BY <2>1
  <2>3. h \in [0 .. n + 1 -> T] /\ h[0] = a
    BY <2>1, <2>2
  <2>4. ASSUME NEW i \in 0 .. n PROVE h[i + 1] = G[<<i, h[i]>>]
    <3>1. CASE i = n
      <4>1. ~(n + 1 <= n) /\ n <= n /\ n + 1 \in 0 .. n + 1 /\ n \in 0 .. n + 1
        OBVIOUS
      <4>2. h[n + 1] = G[<<n, g[n]>>] /\ h[n] = g[n]
        BY <4>1
      <4> QED BY <3>1, <4>2
    <3>2. CASE i # n
      <4>1. i \in 0 .. n - 1 /\ i + 1 <= n /\ i <= n /\ i + 1 \in 0 .. n + 1 /\ i \in 0 .. n + 1
        BY <3>2
      <4> QED BY <2>1, <4>1
    <3> QED BY <3>1, <3>2
  <2>5. (n + 1) - 1 = n /\ n + 1 \in Nat
    OBVIOUS
  <2> QED BY <2>3, <2>4, <2>5 DEF Beginnings
<1>3. \A n \in Nat : n \in P => n + 1 \in P
  BY <1>2
<1> HIDE DEF P
<1>4. \A n \in Nat : n \in P
  BY <1>1, <1>3, Induction
<1> QED BY <1>4 DEF P

LEMMA BeginningsAgree ==
    ASSUME NEW T, NEW a \in T, NEW G \in [Nat \X T -> T], NEW n \in Nat,
           NEW g \in Beginnings(T, a, G, n), NEW h \in Beginnings(T, a, G, n + 1)
    PROVE  g[n] = h[n]
<1> DEFINE P == {i \in Nat : i <= n => g[i] = h[i]}
<1>1. 0 \in P
  BY DEF Beginnings
<1>2. ASSUME NEW i \in Nat, i \in P PROVE i + 1 \in P
  <2> SUFFICES ASSUME i + 1 <= n PROVE g[i + 1] = h[i + 1]
    OBVIOUS
  <2>1. i \in 0 .. n - 1 /\ i \in 0 .. (n + 1) - 1 /\ i <= n
    OBVIOUS
  <2>2. g[i] = h[i]
    BY <1>2, <2>1
  <2> QED BY <2>1, <2>2 DEF Beginnings
<1>3. \A i \in Nat : i \in P => i + 1 \in P
  BY <1>2
<1> HIDE DEF P
<1>4. n \in P
  BY <1>1, <1>3, Induction
<1> QED BY <1>4 DEF P

\* Some function begins with a and goes on by the step G.
Recursive(T, a, G) ==
    \E f \in [Nat -> T] : f[0] = a /\ \A n \in Nat : f[n + 1] = G[<<n, f[n]>>]

LEMMA Recursion == \A T, a, G : a \in T /\ G \in [Nat \X T -> T] => Recursive(T, a, G)
<1> SUFFICES ASSUME NEW T, NEW a \in T, NEW G \in [Nat \X T -> T] PROVE Recursive(T, a, G)
  OBVIOUS
<1> DEFINE B(n) == Beginnings(T, a, G, n)
           g(n) == CHOOSE x \in B(n) : TRUE
           f == [n \in Nat |-> g(n)[n]]
<1>1. \A n \in Nat : g(n) \in B(n)
  BY BeginningsExist
<1> HIDE DEF g
<1>2. f \in [Nat -> T] /\ f[0] = a
  BY <1>1 DEF Beginnings
<1>3. ASSUME NEW n \in Nat PROVE f[n + 1] = G[<<n, f[n]>>]
  <2>1. n + 1 \in Nat /\ n \in 0 .. (n + 1) - 1
    OBVIOUS
  <2>2. g(n)[n] = g(n + 1)[n]
    BY <1>1, <2>1, BeginningsAgree
  <2>3. g(n + 1)[n + 1] = G[<<n, g(n + 1)[n]>>]
    BY <1>1, <2>1 DEF Beginnings
  <2> QED BY <2>1, <2>2, <2>3
<1> QED BY <1>2, <1>3 DEF Recursive

-----------------------------------------------------------------------------
(* What lines and words mean.                                                *)

Head1(w, k) == Head(Script[w][Len(Script[w]) + 1 - k])

LEMMA Backwards ==
    ASSUME NEW k \in Nat, NEW n \in Nat, k + 1 <= n
    PROVE  /\ k \in 0 .. n /\ k + 1 \in 0 .. n /\ k + 1 # 0 /\ (k + 1) - 1 = k
           /\ n + 1 - (k + 1) \in 1 .. n
OBVIOUS

LEMMA HeadIsWord ==
    ASSUME NEW w \in Scripts, NEW i \in 1 .. Len(Script[w])
    PROVE  Head(Script[w][i]) \in Words /\ Head(Script[w][i]) = Script[w][i][1]
<1>1. Script[w][i] \in Seq(Words) /\ Script[w][i] # <<>>
  BY ScriptFacts, EmptySeq
<1> QED BY <1>1, HeadTailProperties

LEMMA LinesExist ==
    ASSUME NEW m \in [Words -> Done], NEW w \in Scripts
    PROVE  \E f \in [0 .. Len(Script[w]) -> Done] :
              f = [k \in 0 .. Len(Script[w]) |->
                     IF k = 0 THEN <<>>
                     ELSE IF Head1(w, k) \in {"exit", "quit"} THEN <<>>
                     ELSE m[Head1(w, k)] \o f[k - 1]]
<1> DEFINE L == Len(Script[w])
           G == [p \in Nat \X Done |->
                   IF p[1] >= L \/ Head1(w, p[1] + 1) \in {"exit", "quit"} THEN <<>>
                   ELSE m[Head1(w, p[1] + 1)] \o p[2]]
<1>1. L \in Nat
  BY WordAssumption, LenProperties
<1>2. <<>> \in Done
  BY EmptySeq DEF Done
<1>3. ASSUME NEW k \in 1 .. L PROVE Head1(w, k) \in Words
  <2>1. L + 1 - k \in 1 .. L
    BY <1>1
  <2> QED BY <2>1, HeadIsWord DEF Head1
<1>4. ASSUME NEW p \in Nat \X Done PROVE G[p] \in Done
  <2>1. CASE p[1] >= L \/ Head1(w, p[1] + 1) \in {"exit", "quit"}
    BY <1>2, <2>1
  <2>2. CASE ~(p[1] >= L \/ Head1(w, p[1] + 1) \in {"exit", "quit"})
    <3>1. p[1] + 1 \in 1 .. L /\ p[2] \in Done
      BY <1>1, <2>2
    <3>2. m[Head1(w, p[1] + 1)] \in Done
      BY <1>3, <3>1
    <3>3. m[Head1(w, p[1] + 1)] \o p[2] \in Done
      BY <3>1, <3>2, ConcatProperties DEF Done
    <3> QED BY <2>2, <3>3
  <2> QED BY <2>1, <2>2
<1>5. G \in [Nat \X Done -> Done]
  BY <1>4
<1> HIDE DEF G
<1>6. PICK f \in [Nat -> Done] : f[0] = <<>> /\ \A n \in Nat : f[n + 1] = G[<<n, f[n]>>]
  <2>1. \E f \in [Nat -> Done] : f[0] = <<>> /\ \A n \in Nat : f[n + 1] = G[<<n, f[n]>>]
    <3>1. Recursive(Done, <<>>, G)
      BY <1>2, <1>5, Recursion, Zenon
    <3> QED BY <3>1 DEF Recursive
  <2> QED BY <2>1
<1> USE DEF G
<1> DEFINE h == [k \in 0 .. L |-> f[k]]
<1>7. h \in [0 .. L -> Done]
  BY <1>1, <1>6
<1>8. ASSUME NEW k \in 0 .. L
      PROVE  h[k] = IF k = 0 THEN <<>>
                    ELSE IF Head1(w, k) \in {"exit", "quit"} THEN <<>>
                    ELSE m[Head1(w, k)] \o h[k - 1]
  <2>1. CASE k = 0
    BY <1>6, <2>1
  <2>2. CASE k # 0
    <3>1. k - 1 \in Nat /\ (k - 1) + 1 = k /\ ~(k - 1 >= L) /\ k - 1 \in 0 .. L
      BY <1>1, <2>2
    <3>2. f[k] = G[<<k - 1, f[k - 1]>>] /\ f[k - 1] \in Done
      BY <1>6, <3>1
    <3>3. G[<<k - 1, f[k - 1]>>] = IF Head1(w, k) \in {"exit", "quit"} THEN <<>>
                                   ELSE m[Head1(w, k)] \o f[k - 1]
      BY <3>1, <3>2
    <3> QED BY <2>2, <3>1, <3>2, <3>3
  <2> QED BY <2>1, <2>2
<1> QED BY <1>7, <1>8

LEMMA LinesAre ==
    ASSUME NEW m \in [Words -> Done], NEW w \in Scripts
    PROVE  /\ LastLines(m, w) \in [0 .. Len(Script[w]) -> Done]
           /\ \A k \in 0 .. Len(Script[w]) :
                 LastLines(m, w)[k] =
                    IF k = 0 THEN <<>>
                    ELSE IF Head1(w, k) \in {"exit", "quit"} THEN <<>>
                    ELSE m[Head1(w, k)] \o LastLines(m, w)[k - 1]
<1> DEFINE Body(f) == [k \in 0 .. Len(Script[w]) |->
                         IF k = 0 THEN <<>>
                         ELSE IF Head1(w, k) \in {"exit", "quit"} THEN <<>>
                         ELSE m[Head1(w, k)] \o f[k - 1]]
<1>1. LastLines(m, w) = CHOOSE f : f = Body(f)
  BY Zenon DEF LastLines, Head1
<1>2. PICK f : f = Body(f)
  <2>1. PICK f \in [0 .. Len(Script[w]) -> Done] :
              f = [k \in 0 .. Len(Script[w]) |->
                     IF k = 0 THEN <<>>
                     ELSE IF Head1(w, k) \in {"exit", "quit"} THEN <<>>
                     ELSE m[Head1(w, k)] \o f[k - 1]]
    BY LinesExist
  <2> QED BY <2>1, Zenon
<1> DEFINE g == LastLines(m, w)
           L == Len(Script[w])
<1>3. g = Body(g)
  <2> HIDE DEF Body
  <2> QED BY <1>1, <1>2, Zenon
<1> HIDE DEF g
<1>4. L \in Nat /\ <<>> \in Done
  BY WordAssumption, LenProperties, EmptySeq DEF Done
<1>5. DOMAIN g = 0 .. L
  BY <1>3
<1>6. \A k \in 0 .. L : g[k] = IF k = 0 THEN <<>>
                              ELSE IF Head1(w, k) \in {"exit", "quit"} THEN <<>>
                              ELSE m[Head1(w, k)] \o g[k - 1]
  BY <1>3
<1> DEFINE P == {k \in Nat : k <= L => g[k] \in Done}
<1>7. 0 \in P
  BY <1>4, <1>6
<1>8. ASSUME NEW k \in Nat, k \in P PROVE k + 1 \in P
  <2> SUFFICES ASSUME k + 1 <= L PROVE g[k + 1] \in Done
    OBVIOUS
  <2>1. k \in 0 .. L /\ k + 1 \in 0 .. L /\ k + 1 # 0 /\ (k + 1) - 1 = k /\ L + 1 - (k + 1) \in 1 .. L
    BY <1>4, Backwards
  <2>2. g[k] \in Done
    BY <1>8, <2>1
  <2>3. Head1(w, k + 1) \in Words
    BY <2>1, HeadIsWord DEF Head1
  <2>4. m[Head1(w, k + 1)] \o g[k] \in Done
    BY <2>2, <2>3, ConcatProperties DEF Done
  <2> QED BY <1>4, <1>6, <2>1, <2>4
<1>9. \A k \in Nat : k \in P => k + 1 \in P
  BY <1>8
<1> HIDE DEF P
<1>10. \A k \in Nat : k \in P
  BY <1>7, <1>9, Induction
<1>11. g \in [0 .. L -> Done]
  <2>1. \A k \in 0 .. L : g[k] \in Done
    BY <1>4, <1>10 DEF P
  <2>2. g = [k \in 0 .. L |-> g[k]]
    BY <1>3
  <2> QED BY <2>1, <2>2
<1> QED BY <1>6, <1>11 DEF g

\* The meanings of the words when one more script may run than for m.
OneMore(m) ==
    [w \in Words |->
        IF w \in Commands THEN <<w>>
        ELSE IF w \in Scripts THEN LastLines(m, w)[Len(Script[w])]
        ELSE <<>>]
None == [w \in Words |-> IF w \in Commands THEN <<w>> ELSE <<>>]

LEMMA OneMoreType ==
    ASSUME NEW m \in [Words -> Done] PROVE OneMore(m) \in [Words -> Done]
<1>1. <<>> \in Done /\ \A w \in Commands : <<w>> \in Done
  BY EmptySeq DEF Done
<1>2. \A w \in Scripts : LastLines(m, w)[Len(Script[w])] \in Done
  <2> TAKE w \in Scripts
  <2>1. Len(Script[w]) \in Nat
    BY WordAssumption, LenProperties
  <2>2. Len(Script[w]) \in 0 .. Len(Script[w])
    BY <2>1
  <2> QED BY <2>2, LinesAre
<1> QED BY <1>1, <1>2 DEF OneMore

LEMMA NoneType == None \in [Words -> Done]
BY EmptySeq DEF None, Done

LEMMA MeaningIs ==
    /\ Meaning \in [0 .. MaxIter -> [Words -> Done]]
    /\ Meaning[0] = None
    /\ \A n \in 1 .. MaxIter : Meaning[n] = OneMore(Meaning[n - 1])
<1> DEFINE Body(f) == [n \in 0 .. MaxIter |->
               [w \in Words |->
                   IF w \in Commands THEN <<w>>
                   ELSE IF w \in Scripts /\ n > 0 THEN LastLines(f[n - 1], w)[Len(Script[w])]
                   ELSE <<>>]]
           M == [Words -> Done]
           G == [p \in Nat \X M |-> OneMore(p[2])]
<1>1. Meaning = CHOOSE f : f = Body(f)
  BY Zenon DEF Meaning
<1>2. MaxIter \in Nat
  BY WordAssumption
<1>3. \A f : \A n \in 0 .. MaxIter : Body(f)[n] = IF n = 0 THEN None ELSE OneMore(f[n - 1])
  <2> SUFFICES ASSUME NEW f, NEW n \in 0 .. MaxIter
               PROVE  Body(f)[n] = IF n = 0 THEN None ELSE OneMore(f[n - 1])
    OBVIOUS
  <2>1. CASE n = 0
    BY <2>1 DEF None
  <2>2. CASE n # 0
    <3>1. n > 0
      BY <2>2
    <3> QED BY <2>2, <3>1 DEF OneMore
  <2> QED BY <2>1, <2>2
<1>4. \A f : Body(f) = [n \in 0 .. MaxIter |-> Body(f)[n]]
  OBVIOUS
<1> HIDE DEF Body
<1>5. PICK f \in [Nat -> M] : f[0] = None /\ \A n \in Nat : f[n + 1] = G[<<n, f[n]>>]
  <2>1. G \in [Nat \X M -> M]
    BY OneMoreType
  <2> HIDE DEF G
  <2>2. Recursive(M, None, G)
    BY <2>1, NoneType, Recursion, Zenon
  <2> QED BY <2>2 DEF Recursive
<1>6. \A n \in Nat : f[n + 1] = OneMore(f[n])
  BY <1>5
<1> DEFINE h == [n \in 0 .. MaxIter |-> f[n]]
<1>7. h = Body(h)
  <2>1. ASSUME NEW n \in 0 .. MaxIter PROVE h[n] = Body(h)[n]
    <3>1. CASE n = 0
      BY <1>3, <1>5, <3>1
    <3>2. CASE n # 0
      <4>1. n - 1 \in Nat /\ (n - 1) + 1 = n /\ n - 1 \in 0 .. MaxIter
        BY <1>2, <3>2
      <4>2. h[n] = OneMore(h[n - 1])
        BY <1>6, <4>1
      <4> QED BY <1>3, <3>2, <4>2
    <3> QED BY <3>1, <3>2
  <2>2. Body(h) = [n \in 0 .. MaxIter |-> Body(h)[n]]
    BY <1>4
  <2> QED BY <2>1, <2>2
<1> HIDE DEF h
<1>8. Meaning = Body(Meaning)
  BY <1>1, <1>7, Zenon
<1>9. \A n \in 0 .. MaxIter : Meaning[n] = IF n = 0 THEN None ELSE OneMore(Meaning[n - 1])
  BY <1>3, <1>8
<1>10. Meaning = [n \in 0 .. MaxIter |-> Meaning[n]]
  BY <1>4, <1>8
<1> DEFINE P == {n \in Nat : n <= MaxIter => Meaning[n] \in M}
<1>11. 0 \in P
  BY <1>2, <1>9, NoneType
<1>12. ASSUME NEW n \in Nat, n \in P PROVE n + 1 \in P
  <2> SUFFICES ASSUME n + 1 <= MaxIter PROVE Meaning[n + 1] \in M
    OBVIOUS
  <2>1. n \in 0 .. MaxIter /\ n + 1 \in 0 .. MaxIter /\ n + 1 # 0 /\ (n + 1) - 1 = n
    BY <1>2, Backwards
  <2>2. Meaning[n] \in M
    BY <1>12, <2>1
  <2>3. Meaning[n + 1] = OneMore(Meaning[n])
    BY <1>9, <2>1
  <2> QED BY <2>2, <2>3, OneMoreType
<1>13. \A n \in Nat : n \in P => n + 1 \in P
  BY <1>12
<1> HIDE DEF P
<1>14. \A n \in Nat : n \in P
  BY <1>11, <1>13, Induction
<1>15. \A n \in 0 .. MaxIter : Meaning[n] \in M
  BY <1>2, <1>14 DEF P
<1>16. Meaning \in [0 .. MaxIter -> M]
  BY <1>10, <1>15
<1>17. 0 \in 0 .. MaxIter /\ \A n \in 1 .. MaxIter : n \in 0 .. MaxIter /\ n # 0
  BY <1>2
<1> QED BY <1>9, <1>16, <1>17

-----------------------------------------------------------------------------
(* The invariant: what is done and what the activations have still to do is  *)
(* together what the line means.                                             *)

\* The scripts that may run below the words of activation i.
Level(i) == MaxIter + 1 - i

\* What is left to do of the script of the frame f.
Left(n, f) == LastLines(Meaning[n], f.file)[Len(Script[f.file]) + 1 - f.line]

\* c[i] is what the activations from the i-th down to the first have to do.
Owed(c, fs) ==
    /\ c \in [1 .. Len(fs) -> Done] /\ c[1] = <<>>
    /\ \A i \in 2 .. Len(fs) : c[i] = Left(Level(i), fs[i]) \o c[i - 1]

\* With the word that was read and is not executed yet.
ToDo(c) ==
    IF pc = "read" THEN c[Len(frames)]
    ELSE IF word \in {"exit", "quit"} THEN (IF AtStdin THEN <<>> ELSE c[Len(frames) - 1])
    ELSE Meaning[Level(Len(frames))][word] \o c[Len(frames)]

AllOf == Meaning[MaxIter][line]

Faithful ==
    IF threw THEN AtStdin /\ pc = "read" /\ \E rest \in Done : done \o rest = AllOf
    ELSE \E c : Owed(c, frames) /\ done \o ToDo(c) = AllOf

InFile ==
    \A i \in 2 .. Len(frames) :
        frames[i].line <= Len(Script[frames[i].file]) + 1 /\ frames[i].piece = 1

Effect == leaked + MaxIter < MaxFiles /\ status = "running" => Faithful

LEMMA LevelIs ==
    ASSUME FramesOK, NEW i \in 1 .. Len(frames)
    PROVE  /\ i \in Nat /\ Level(i) \in 0 .. MaxIter
           /\ i <= MaxIter => Level(i) \in 1 .. MaxIter /\ Level(i + 1) = Level(i) - 1
           /\ i = 1 => Level(i) = MaxIter
           /\ ~(i <= MaxIter) => Level(i) = 0
<1>1. MaxIter \in Nat /\ Len(frames) \in Nat /\ Len(frames) <= MaxIter + 1
  BY WordAssumption, TopFacts DEF FramesOK
<1> QED BY <1>1 DEF Level

LEMMA WordMeans ==
    ASSUME NEW n \in 0 .. MaxIter, NEW w \in Words
    PROVE  /\ Meaning[n] \in [Words -> Done] /\ Meaning[n][w] \in Done
           /\ w \in Commands => Meaning[n][w] = <<w>>
           /\ w \in {"", "help", "typo", "exit", "quit"} => Meaning[n][w] = <<>>
           /\ w \in Scripts => IF n = 0 THEN Meaning[n][w] = <<>>
                               ELSE Meaning[n][w] = LastLines(Meaning[n - 1], w)[Len(Script[w])]
<1>1. Meaning[n] \in [Words -> Done] /\ Meaning[n][w] \in Done
  BY MeaningIs
<1>2. Scripts \cap Commands = {} /\ {"", "help", "typo", "exit", "quit"} \cap (Scripts \cup Commands) = {}
  BY WordAssumption DEF Commands
<1>3. CASE n = 0
  <2>1. Meaning[n] = None
    BY <1>3, MeaningIs
  <2> QED BY <1>1, <1>2, <1>3, <2>1 DEF None
<1>4. CASE n # 0
  <2>1. n \in 1 .. MaxIter
    BY <1>4
  <2>2. Meaning[n] = OneMore(Meaning[n - 1])
    BY <2>1, MeaningIs
  <2> QED BY <1>1, <1>2, <1>4, <2>2 DEF OneMore
<1> QED BY <1>3, <1>4

\* From a line of a script to the number of lines left, and back.
LEMMA LineNumbers ==
    ASSUME NEW l \in Nat, NEW n \in Nat, l # 0
    PROVE  /\ l <= n + 1 => n + 1 - l \in 0 .. n
           /\ l > n /\ l <= n + 1 => n + 1 - l = 0
           /\ ~(l > n) => /\ l \in 1 .. n /\ n + 1 - l # 0 /\ n + 1 - (n + 1 - l) = l
                          /\ n + 1 - l \in 0 .. n
                          /\ n + 1 - (l + 1) = (n + 1 - l) - 1
OBVIOUS

LEMMA LeftIs ==
    ASSUME NEW n \in 0 .. MaxIter, NEW f, f.file \in Scripts, f.line \in Nat \ {0},
           f.line <= Len(Script[f.file]) + 1
    PROVE  /\ Left(n, f) \in Done
           /\ f.line > Len(Script[f.file]) => Left(n, f) = <<>>
<1> DEFINE w == f.file
           k == Len(Script[w]) + 1 - f.line
<1>1. Len(Script[w]) \in Nat /\ f.line \in Nat /\ f.line # 0
  BY WordAssumption, LenProperties
<1>2. k \in 0 .. Len(Script[w])
  BY <1>1, LineNumbers
<1>3. Meaning[n] \in [Words -> Done]
  BY MeaningIs
<1>4. /\ LastLines(Meaning[n], w)[k] \in Done
      /\ k = 0 => LastLines(Meaning[n], w)[k] = <<>>
  BY <1>2, <1>3, LinesAre
<1>5. Left(n, f) = LastLines(Meaning[n], w)[k]
  BY DEF Left
<1>6. f.line > Len(Script[w]) => k = 0
  BY <1>1, LineNumbers
<1> QED BY <1>4, <1>5, <1>6

\* The line that the frame f is at, and the frame g behind it.
LEMMA LineLeft ==
    ASSUME NEW n \in 0 .. MaxIter, NEW f, f.file \in Scripts, f.line \in Nat \ {0},
           ~(f.line > Len(Script[f.file])),
           NEW g, g.file = f.file, g.line = f.line + 1,
           NEW h, h = Script[f.file][f.line][1]
    PROVE  /\ h \in Words
           /\ h \in {"exit", "quit"} => Left(n, f) = <<>>
           /\ h \notin {"exit", "quit"} => Left(n, f) = Meaning[n][h] \o Left(n, g)
<1> DEFINE w == f.file
           L == Len(Script[w])
           k == L + 1 - f.line
<1>1. L \in Nat /\ f.line \in Nat /\ f.line # 0
  BY WordAssumption, LenProperties
<1>2. f.line \in 1 .. L /\ k # 0 /\ L + 1 - k = f.line /\ L + 1 - (f.line + 1) = k - 1
  BY <1>1, LineNumbers
<1>3. k \in 0 .. L
  BY <1>1, LineNumbers
<1>4. Meaning[n] \in [Words -> Done]
  BY MeaningIs
<1>5. LastLines(Meaning[n], w)[k] =
          IF k = 0 THEN <<>>
          ELSE IF Head1(w, k) \in {"exit", "quit"} THEN <<>>
          ELSE Meaning[n][Head1(w, k)] \o LastLines(Meaning[n], w)[k - 1]
  BY <1>3, <1>4, LinesAre
<1>6. h \in Words /\ Head1(w, k) = h
  BY <1>2, HeadIsWord DEF Head1
<1>7. Left(n, f) = LastLines(Meaning[n], w)[k] /\ Left(n, g) = LastLines(Meaning[n], w)[k - 1]
  BY <1>2 DEF Left
<1> QED BY <1>2, <1>5, <1>6, <1>7

\* Sequences of commands, put together either way.
Regroups(a, b, e) == a \o (b \o e) = (a \o b) \o e

LEMMA Joined ==
    ASSUME NEW a \in Done, NEW b \in Done
    PROVE  a \o b \in Done /\ a \o <<>> = a /\ <<>> \o a = a
BY ConcatProperties, ConcatEmptySeq DEF Done

LEMMA Regrouped == \A a, b, e \in Done : Regroups(a, b, e)
<1> TAKE a, b, e \in Done
<1>1. (a \o b) \o e = a \o (b \o e)
  BY ConcatAssociative DEF Done
<1> QED BY <1>1 DEF Regroups

-----------------------------------------------------------------------------
(* What is owed when the stack changes.                                      *)

\* Places in a stack of n activations.
LEMMA Places ==
    ASSUME NEW n \in Nat \ {0}
    PROVE  /\ n \in 1 .. n /\ 1 \in 1 .. n /\ n + 1 \in 1 .. n + 1 /\ (n + 1) - 1 = n
           /\ n > 1 => n - 1 \in 1 .. n /\ n - 1 \in Nat \ {0} /\ n \in 2 .. n /\ 1 # n
                       /\ n - 1 \in 1 .. n - 1
           /\ \A i \in 2 .. n : i \in 1 .. n /\ i - 1 \in 1 .. n /\ i - 1 # n
           /\ \A i \in 2 .. n - 1 : i \in 2 .. n /\ i - 1 \in 1 .. n - 1 /\ i \in 1 .. n - 1
           /\ \A i \in 2 .. n + 1 : i = n + 1 \/ i \in 2 .. n
           /\ \A i \in 1 .. n + 1 : i = n + 1 \/ i \in 1 .. n
           /\ \A i \in 1 .. n : i # n + 1 /\ i \in 1 .. n + 1
           /\ \A i \in 1 .. n - 1 : i \in 1 .. n
           /\ n + 1 # 1 /\ n + 1 \in 2 .. n + 1
OBVIOUS

\* The top of the stack and what it owes.
LEMMA TopOwes ==
    ASSUME FramesOK, InFile, NEW c, Owed(c, frames)
    PROVE  /\ c[Len(frames)] \in Done
           /\ ~AtStdin => /\ c[Len(frames) - 1] \in Done
                          /\ Left(Level(Len(frames)), Top) \in Done
                          /\ c[Len(frames)] = Left(Level(Len(frames)), Top) \o c[Len(frames) - 1]
           /\ AtStdin => c[Len(frames)] = <<>>
<1> DEFINE N == Len(frames)
<1>1. N \in Nat \ {0}
  BY TopFacts
<1>2. c[N] \in Done
  BY <1>1, Places DEF Owed
<1>3. ASSUME ~AtStdin
      PROVE  /\ c[N - 1] \in Done /\ Left(Level(N), Top) \in Done
             /\ c[N] = Left(Level(N), Top) \o c[N - 1]
  <2>1. N > 1 /\ Top.file \in Scripts /\ Top \in Frame
    BY <1>3, TopFacts
  <2>2. N \in 2 .. N /\ N - 1 \in 1 .. N /\ N \in 1 .. N
    BY <1>1, <2>1, Places
  <2>3. Top.line <= Len(Script[Top.file]) + 1 /\ Top.line \in Nat \ {0}
    BY <2>1, <2>2 DEF InFile, Top, Frame
  <2>4. Level(N) \in 0 .. MaxIter
    BY <2>2, LevelIs
  <2>5. Left(Level(N), Top) \in Done
    BY <2>1, <2>3, <2>4, LeftIs
  <2> QED BY <2>2, <2>5 DEF Owed, Top
<1> QED BY <1>2, <1>3 DEF Owed, AtStdin

\* The place in the last file changes.
LEMMA PlacedOwed ==
    ASSUME FramesOK, Len(frames) > 1, NEW c, Owed(c, frames), NEW g, g \in Frame,
           Left(Level(Len(frames)), g) \in Done
    PROVE  \E d : /\ Owed(d, [frames EXCEPT ![Len(frames)] = g])
                  /\ d[Len(frames)] = Left(Level(Len(frames)), g) \o c[Len(frames) - 1]
                  /\ d[Len(frames) - 1] = c[Len(frames) - 1]
<1> DEFINE N == Len(frames)
           fs == [frames EXCEPT ![N] = g]
           new == Left(Level(N), g) \o c[N - 1]
           d == [i \in 1 .. N |-> IF i = N THEN new ELSE c[i]]
<1>1. N \in Nat \ {0} /\ N > 1 /\ frames \in Seq(Frame)
  BY TopFacts DEF FramesOK
<1>2. Len(fs) = N /\ \A i \in 1 .. N : fs[i] = IF i = N THEN g ELSE frames[i]
  BY <1>1, ExceptSeq
<1>3. new \in Done
  <2>1. c[N - 1] \in Done
    BY <1>1, Places DEF Owed
  <2> QED BY <2>1, ConcatProperties DEF Done
<1> HIDE DEF fs, new
<1>4. d \in [1 .. N -> Done] /\ d[1] = <<>> /\ d[N] = new
  BY <1>1, <1>3, Places DEF Owed
<1>5. ASSUME NEW i \in 2 .. N PROVE d[i] = Left(Level(i), fs[i]) \o d[i - 1]
  <2>1. i \in 1 .. N /\ i - 1 \in 1 .. N /\ i - 1 # N
    BY <1>1, Places
  <2>2. d[i - 1] = c[i - 1]
    BY <2>1
  <2>3. CASE i = N
    BY <1>2, <1>4, <2>1, <2>2, <2>3 DEF new
  <2>4. CASE i # N
    BY <1>2, <2>1, <2>2, <2>4 DEF Owed
  <2> QED BY <2>3, <2>4
<1>6. Owed(d, fs)
  BY <1>2, <1>4, <1>5 DEF Owed
<1>7. d[N - 1] = c[N - 1]
  BY <1>1, Places
<1> QED BY <1>4, <1>6, <1>7 DEF new, fs

\* The last activation ends.
LEMMA PoppedOwed ==
    ASSUME FramesOK, Len(frames) > 1, NEW c, Owed(c, frames)
    PROVE  \E d : /\ Owed(d, SubSeq(frames, 1, Len(frames) - 1))
                  /\ d[Len(frames) - 1] = c[Len(frames) - 1]
<1> DEFINE N == Len(frames)
           fs == SubSeq(frames, 1, N - 1)
           d == [i \in 1 .. N - 1 |-> c[i]]
<1>1. N \in Nat \ {0} /\ N > 1 /\ frames \in Seq(Frame) /\ N - 1 \in Nat \ {0}
  BY TopFacts, Places DEF FramesOK
<1>2. Len(fs) = N - 1 /\ \A i \in 1 .. N - 1 : fs[i] = frames[i]
  BY <1>1, SubSeqProperties
<1> HIDE DEF fs
<1>3. d \in [1 .. N - 1 -> Done] /\ d[1] = <<>> /\ d[N - 1] = c[N - 1]
  BY <1>1, Places DEF Owed
<1>4. ASSUME NEW i \in 2 .. N - 1 PROVE d[i] = Left(Level(i), fs[i]) \o d[i - 1]
  <2>1. i \in 2 .. N /\ i \in 1 .. N - 1 /\ i - 1 \in 1 .. N - 1
    BY <1>1, Places
  <2> QED BY <1>2, <2>1 DEF Owed
<1>5. Owed(d, fs)
  BY <1>2, <1>3, <1>4 DEF Owed
<1> QED BY <1>3, <1>5 DEF fs

\* An activation starts.
LEMMA PushedOwed ==
    ASSUME FramesOK, NEW c, Owed(c, frames), NEW g, g \in Frame,
           Left(Level(Len(frames) + 1), g) \in Done
    PROVE  \E d : /\ Owed(d, Append(frames, g))
                  /\ d[Len(frames) + 1] = Left(Level(Len(frames) + 1), g) \o c[Len(frames)]
<1> DEFINE N == Len(frames)
           fs == Append(frames, g)
           new == Left(Level(N + 1), g) \o c[N]
           d == [i \in 1 .. N + 1 |-> IF i = N + 1 THEN new ELSE c[i]]
<1>1. N \in Nat \ {0} /\ frames \in Seq(Frame)
  BY TopFacts DEF FramesOK
<1>2. Len(fs) = N + 1 /\ fs[N + 1] = g /\ \A i \in 1 .. N : fs[i] = frames[i]
  BY <1>1, AppendProperties
<1>3. new \in Done
  <2>1. c[N] \in Done
    BY <1>1, Places DEF Owed
  <2> QED BY <2>1, ConcatProperties DEF Done
<1> HIDE DEF fs, new
<1>4. d \in [1 .. N + 1 -> Done] /\ d[1] = <<>> /\ d[N + 1] = new
  BY <1>1, <1>3, Places DEF Owed
<1>5. ASSUME NEW i \in 2 .. N + 1 PROVE d[i] = Left(Level(i), fs[i]) \o d[i - 1]
  <2>1. CASE i = N + 1
    <3>1. i - 1 = N /\ N \in 1 .. N /\ N # N + 1 /\ N \in 1 .. N + 1
      BY <1>1, <2>1, Places
    <3>2. d[i - 1] = c[N]
      BY <3>1
    <3> QED BY <1>2, <1>4, <2>1, <3>2 DEF new
  <2>2. CASE i # N + 1
    <3>1. i \in 2 .. N
      BY <1>1, <2>2, Places
    <3>2. i \in 1 .. N /\ i - 1 \in 1 .. N
      BY <1>1, <3>1, Places
    <3>3. i - 1 # N + 1 /\ i - 1 \in 1 .. N + 1
      BY <1>1, <3>2, Places
    <3>4. d[i] = c[i] /\ d[i - 1] = c[i - 1]
      BY <2>2, <3>3
    <3>5. fs[i] = frames[i] /\ c[i] = Left(Level(i), frames[i]) \o c[i - 1]
      BY <1>2, <3>1, <3>2 DEF Owed
    <3> QED BY <3>4, <3>5
  <2> QED BY <2>1, <2>2
<1>6. Owed(d, fs)
  BY <1>2, <1>4, <1>5 DEF Owed
<1> QED BY <1>4, <1>6 DEF new, fs

-----------------------------------------------------------------------------
(* Reading a file line by line.                                              *)

\* The line at the top of the stack is read whole.
LEMMA LineRead ==
    ASSUME OnePiece, FramesOK, InFile, ~AtStdin, ~AtEnd
    PROVE  /\ Top.file \in Scripts /\ Top.line \in Nat \ {0}
           /\ ~(Top.line > Len(Script[Top.file]))
           /\ Top.piece = 1 /\ Text[Top.line][Top.piece] = Script[Top.file][Top.line][1]
           /\ Onward \in Frame /\ Onward.file = Top.file /\ Onward.line = Top.line + 1
           /\ Onward.piece = 1 /\ Onward.line <= Len(Script[Top.file]) + 1
<1> DEFINE N == Len(frames)
<1>1. N \in Nat \ {0} /\ N > 1 /\ Top \in Frame /\ Top.file \in Scripts
  BY TopFacts
<1>2. PICK l \in Nat \ {0}, p \in Nat \ {0}, f \in Scripts :
         Top = [file |-> f, line |-> l, piece |-> p]
  BY <1>1 DEF Frame
<1>3. Top.file = f /\ Top.line = l /\ Top.piece = p /\ Text = Script[f]
  BY <1>2 DEF Text
<1>4. N \in 2 .. N
  BY <1>1, Places
<1>5. p = 1
  BY <1>3, <1>4 DEF InFile, Top
<1>6. ~(l > Len(Script[f])) /\ Len(Script[f]) \in Nat
  BY <1>3, WordAssumption, LenProperties DEF AtEnd
<1>7. l \in 1 .. Len(Script[f])
  BY <1>2, <1>6, LineNumbers
<1>8. Len(Text[l]) = 1
  BY <1>2, <1>3, <1>7 DEF OnePiece
<1>9. Onward = [file |-> f, line |-> l + 1, piece |-> 1]
  <2>1. ~(Top.piece < Len(Text[Top.line]))
    BY <1>3, <1>5, <1>8
  <2>2. Onward = [Top EXCEPT !.line = @ + 1, !.piece = 1]
    BY <2>1 DEF Onward
  <2> QED BY <1>2, <2>2
<1>10. l + 1 \in Nat \ {0} /\ l + 1 <= Len(Script[f]) + 1
  BY <1>2, <1>6, <1>7
<1>11. Onward \in Frame
  BY <1>2, <1>9, <1>10 DEF Frame
<1> QED BY <1>2, <1>3, <1>5, <1>6, <1>9, <1>10, <1>11

\* A script starts at its first line.
LEMMA ScriptStarts ==
    ASSUME NEW w \in Scripts
    PROVE  /\ Start(w) \in Frame /\ Start(w).file = w /\ Start(w).line = 1 /\ Start(w).piece = 1
           /\ Start(w).line <= Len(Script[w]) + 1
           /\ \A n : Left(n, Start(w)) = LastLines(Meaning[n], w)[Len(Script[w])]
<1>1. Start(w) \in Frame /\ Start(w).file = w /\ Start(w).line = 1 /\ Start(w).piece = 1
  BY DEF Start, Frame
<1>2. Len(Script[w]) \in Nat
  BY WordAssumption, LenProperties
<1>3. 1 <= Len(Script[w]) + 1 /\ Len(Script[w]) + 1 - 1 = Len(Script[w])
  BY <1>2
<1> QED BY <1>1, <1>3 DEF Left

\* No activation is beyond the end of its file or amid a line.
LEMMA InFileKept ==
    ASSUME InterpInv, InFile, OnePiece, [Next]_vars
    PROVE  InFile'
<1> DEFINE N == Len(frames)
<1>1. FramesOK /\ frames \in Seq(Frame) /\ N \in Nat \ {0}
  BY TopFacts DEF InterpInv, FramesOK
<1>2. CASE UNCHANGED frames
  BY <1>2 DEF InFile
<1>3. CASE frames' = <<Stdin>>
  <2>1. Len(frames') = 1 /\ 2 .. 1 = {}
    BY <1>3
  <2> QED BY <2>1 DEF InFile
<1>4. ASSUME ~AtStdin, Return PROVE InFile'
  <2>1. N > 1 /\ Len(frames') = N - 1 /\ \A i \in 1 .. N - 1 : frames'[i] = frames[i]
    BY <1>1, <1>4, TopFacts, SubSeqProperties DEF Return
  <2>2. \A i \in 2 .. N - 1 : i \in 2 .. N /\ i \in 1 .. N - 1
    BY <1>1, Places
  <2> QED BY <2>1, <2>2 DEF InFile
<1>5. CASE ReadScript
  <2>1. ~AtStdin /\ ~AtEnd /\ frames' = [frames EXCEPT ![N] = Onward]
    BY <1>5 DEF ReadScript
  <2>2. Len(frames') = N /\ \A i \in 1 .. N : frames'[i] = IF i = N THEN Onward ELSE frames[i]
    BY <1>1, <2>1, LineRead, ExceptSeq
  <2>3. Onward.line <= Len(Script[Onward.file]) + 1 /\ Onward.piece = 1
    BY <1>1, <2>1, LineRead
  <2>4. \A i \in 2 .. N : i \in 1 .. N
    BY <1>1, Places
  <2> QED BY <2>2, <2>3, <2>4 DEF InFile
<1>6. CASE RunScript /\ ~(N > MaxIter)
  <2>1. word \in Scripts /\ frames' = Append(frames, Start(word))
    BY <1>6 DEF RunScript
  <2>2. /\ Len(frames') = N + 1 /\ frames'[N + 1] = Start(word)
        /\ \A i \in 1 .. N : frames'[i] = frames[i]
    BY <1>1, <2>1, ScriptStarts, AppendProperties
  <2>3. \A i \in 2 .. N + 1 : i = N + 1 \/ (i \in 2 .. N /\ i \in 1 .. N)
    BY <1>1, Places
  <2> QED BY <2>1, <2>2, <2>3, ScriptStarts DEF InFile
<1>7. CASE RunScript /\ N > MaxIter
  BY <1>2, <1>7 DEF RunScript
<1>8. CASE Exit
  BY <1>2, <1>4, <1>8 DEF Exit
<1> QED BY <1>2, <1>3, <1>4, <1>5, <1>6, <1>7, <1>8
       DEF Next, Step, TypeLine, EndOfInput, EndScript, Nothing, Send, Ask, Fail, Finish, Throw, vars

-----------------------------------------------------------------------------
(* One lemma per kind of step: the effect is kept.                           *)

\* While the line is worked on nothing was thrown, and what is done and what
\* is owed make up what the line means.
Underway(c) == Owed(c, frames) /\ done \o ToDo(c) = AllOf

LEMMA Started ==
    ASSUME Faithful, ~(AtStdin /\ pc = "read")
    PROVE  ~threw /\ \E c : Underway(c)
BY DEF Faithful, Underway

LEMMA NotThrown ==
    ASSUME ~threw', NEW c, (Underway(c))'
    PROVE  Faithful'
BY DEF Faithful, Underway

\* A line is typed.
LEMMA TypeLineEffect ==
    ASSUME InterpInv, TypeLine PROVE Faithful'
<1> DEFINE c == [i \in 1 .. 1 |-> <<>>]
<1>1. FramesOK /\ AtStdin /\ MaxIter \in Nat
  BY WordAssumption DEF InterpInv, TypeLine, FlagRight
<1>2. frames' = frames /\ Len(frames) = 1 /\ word' \in Words /\ line' = word' /\ pc' = "exec"
      /\ done' = <<>> /\ ~threw'
  BY <1>1 DEF TypeLine, Read, AtStdin
<1>3. <<>> \in Done
  BY EmptySeq DEF Done
<1>4. c \in [1 .. 1 -> Done] /\ c[1] = <<>> /\ 2 .. 1 = {}
  BY <1>3
<1> HIDE DEF c
<1>5. Owed(c, frames')
  BY <1>2, <1>4 DEF Owed
<1>6. Level(1) = MaxIter /\ MaxIter \in 0 .. MaxIter
  BY <1>1 DEF Level
<1>7. /\ Meaning[MaxIter][word'] \in Done
      /\ word' \in {"exit", "quit"} => Meaning[MaxIter][word'] = <<>>
  BY <1>2, <1>6, WordMeans
<1>8. (ToDo(c))' = Meaning[MaxIter][word']
  <2>1. CASE word' \in {"exit", "quit"}
    <3>1. (ToDo(c))' = <<>>
      BY <1>2, <2>1 DEF ToDo, AtStdin
    <3> QED BY <1>7, <2>1, <3>1
  <2>2. CASE word' \notin {"exit", "quit"}
    <3>1. (ToDo(c))' = Meaning[MaxIter][word'] \o <<>>
      BY <1>2, <1>4, <1>6, <2>2 DEF ToDo
    <3> QED BY <1>7, <3>1, ConcatEmptySeq DEF Done
  <2> QED BY <2>1, <2>2
<1>9. done' \o (ToDo(c))' = Meaning[MaxIter][word']
  BY <1>2, <1>7, <1>8, ConcatEmptySeq DEF Done
<1>10. (Underway(c))'
  BY <1>2, <1>5, <1>9 DEF Underway, AllOf
<1> QED BY <1>2, <1>10, NotThrown

\* A line of a script is read.
LEMMA ReadScriptEffect ==
    ASSUME InterpInv, InFile, OnePiece, Faithful, ReadScript PROVE Faithful'
<1> DEFINE N == Len(frames)
           n == Level(N)
<1>1. FramesOK /\ ~AtStdin /\ ~AtEnd /\ N \in Nat \ {0} /\ N > 1 /\ n \in 0 .. MaxIter
  <2>1. FramesOK /\ ~AtStdin /\ ~AtEnd
    BY DEF InterpInv, ReadScript
  <2>2. N \in Nat \ {0} /\ N > 1
    BY <2>1, TopFacts
  <2> QED BY <2>1, <2>2, Places, LevelIs
<1>2. /\ frames' = [frames EXCEPT ![N] = Onward] /\ word' = Text[Top.line][Top.piece]
      /\ pc = "read" /\ pc' = "exec" /\ done' = done /\ line' = line /\ threw' = threw
  BY DEF ReadScript, Read, Reads
<1>3. PICK c : Underway(c)
  BY <1>1, Started
<1>4. ~threw'
  BY <1>1, <1>2, Started
<1>5. /\ c[N] = Left(n, Top) \o c[N - 1] /\ c[N - 1] \in Done /\ done \o c[N] = AllOf
  BY <1>1, <1>2, <1>3, TopOwes DEF Underway, ToDo
<1>6. /\ Top.file \in Scripts /\ Top.line \in Nat \ {0}
      /\ ~(Top.line > Len(Script[Top.file])) /\ Top.line <= Len(Script[Top.file]) + 1
      /\ word' = Script[Top.file][Top.line][1]
      /\ Onward \in Frame /\ Onward.file = Top.file /\ Onward.line = Top.line + 1
      /\ Onward.line <= Len(Script[Top.file]) + 1 /\ Onward.line \in Nat \ {0}
  <2>1. Top.line <= Len(Script[Top.file]) + 1
    BY <1>1, Places DEF InFile, Top
  <2>2. Onward.line \in Nat \ {0}
    BY <1>1, LineRead DEF Frame
  <2> QED BY <1>1, <1>2, <2>1, <2>2, LineRead
<1>7. /\ word' \in Words
      /\ word' \in {"exit", "quit"} => Left(n, Top) = <<>>
      /\ word' \notin {"exit", "quit"} => Left(n, Top) = Meaning[n][word'] \o Left(n, Onward)
  BY <1>1, <1>6, LineLeft
<1>8. Left(n, Onward) \in Done
  BY <1>1, <1>6, LeftIs
<1>9. PICK d : /\ Owed(d, frames') /\ d[N] = Left(n, Onward) \o c[N - 1]
               /\ d[N - 1] = c[N - 1]
  BY <1>1, <1>2, <1>3, <1>6, <1>8, PlacedOwed DEF Underway
<1>10. Len(frames') = N
  BY <1>1, <1>2, <1>6, ExceptSeq DEF FramesOK
<1>11. (ToDo(d))' = c[N]
  <2>1. CASE word' \in {"exit", "quit"}
    <3>1. (ToDo(d))' = d[N - 1]
      BY <1>1, <1>2, <1>10, <2>1 DEF ToDo, AtStdin
    <3> QED BY <1>5, <1>7, <1>9, <2>1, <3>1, ConcatEmptySeq DEF Done
  <2>2. CASE word' \notin {"exit", "quit"}
    <3>1. (ToDo(d))' = Meaning[n][word'] \o (Left(n, Onward) \o c[N - 1])
      BY <1>2, <1>9, <1>10, <2>2 DEF ToDo
    <3>2. Meaning[n][word'] \in Done
      BY <1>1, <1>7, WordMeans
    <3>3. Regroups(Meaning[n][word'], Left(n, Onward), c[N - 1])
      BY <1>5, <1>8, <3>2, Regrouped
    <3> QED BY <1>5, <1>7, <2>2, <3>1, <3>3 DEF Regroups
  <2> QED BY <2>1, <2>2
<1>12. (Underway(d))'
  BY <1>2, <1>5, <1>9, <1>11 DEF Underway, AllOf
<1> QED BY <1>4, <1>12, NotThrown

\* An activation ends that has nothing left to do, or that gives up the rest.
LEMMA ReturnEffect ==
    ASSUME FramesOK, ~AtStdin, Return, ~threw, NEW c, Owed(c, frames),
           done \o c[Len(frames) - 1] = AllOf
    PROVE  Faithful'
<1> DEFINE N == Len(frames)
<1>1. N \in Nat \ {0} /\ N > 1 /\ frames \in Seq(Frame)
  BY TopFacts DEF FramesOK
<1>2. /\ frames' = SubSeq(frames, 1, N - 1) /\ pc' = "read" /\ done' = done /\ line' = line
      /\ threw' = threw
  BY DEF Return
<1>3. Len(frames') = N - 1
  BY <1>1, <1>2, PoppedFrames
<1>4. PICK d : Owed(d, frames') /\ d[N - 1] = c[N - 1]
  BY <1>1, <1>2, PoppedOwed
<1>5. (Underway(d))'
  BY <1>2, <1>3, <1>4 DEF Underway, ToDo, AllOf
<1> QED BY <1>2, <1>5, NotThrown

\* A script is at its end.
LEMMA EndScriptEffect ==
    ASSUME InterpInv, InFile, Faithful, EndScript PROVE Faithful'
<1> DEFINE N == Len(frames)
<1>1. FramesOK /\ ~AtStdin /\ AtEnd /\ Return /\ pc = "read"
  BY DEF InterpInv, EndScript, Reads
<1>2. PICK c : ~threw /\ Underway(c)
  BY <1>1, Started
<1>3. N \in Nat \ {0} /\ N > 1 /\ Top \in Frame /\ Top.file \in Scripts
  BY <1>1, TopFacts
<1>4. Top.line > Len(Script[Top.file]) /\ Top.line \in Nat \ {0}
      /\ Top.line <= Len(Script[Top.file]) + 1
  BY <1>1, <1>3, Places DEF AtEnd, Text, InFile, Top, Frame
<1>5. Left(Level(N), Top) = <<>>
  BY <1>1, <1>3, <1>4, Places, LevelIs, LeftIs
<1>6. c[N] = c[N - 1]
  BY <1>1, <1>2, <1>5, TopOwes, Joined DEF Underway
<1>7. done \o c[N - 1] = AllOf
  BY <1>1, <1>2, <1>6 DEF Underway, ToDo
<1> QED BY <1>1, <1>2, <1>7, ReturnEffect DEF Underway

\* exit or quit, in a script.
LEMMA ExitEffect ==
    ASSUME InterpInv, Faithful, Exit, status' = "running" PROVE Faithful'
<1>1. FramesOK /\ pc = "exec" /\ word \in {"exit", "quit"}
  BY DEF InterpInv, Exit, Executes
<1>2. ~AtStdin /\ Return
  BY DEF Exit
<1>3. PICK c : ~threw /\ Underway(c)
  BY <1>1, Started
<1>4. done \o c[Len(frames) - 1] = AllOf
  BY <1>1, <1>2, <1>3 DEF Underway, ToDo
<1> QED BY <1>1, <1>2, <1>3, <1>4, ReturnEffect DEF Underway

\* A word is executed that the stack does not change for: now done is what was
\* done and what the word means.
LEMMA ExecutedEffect ==
    ASSUME InterpInv, InFile, Faithful, Executes, word \notin {"exit", "quit"},
           UNCHANGED <<frames, line, threw>>, pc' = "read",
           done' = done \o Meaning[Level(Len(frames))][word]
    PROVE  Faithful'
<1> DEFINE N == Len(frames)
           m == Meaning[Level(N)][word]
<1>1. FramesOK /\ done \in Done /\ pc = "exec" /\ word \in Words /\ N \in Nat \ {0}
  BY TopFacts DEF InterpInv, OthersOK, Done, Executes
<1>2. PICK c : ~threw /\ Underway(c)
  BY <1>1, Started
<1>3. c[N] \in Done /\ m \in Done
  <2>1. N \in 1 .. N
    BY <1>1, Places
  <2> QED BY <1>1, <1>2, <2>1, TopOwes, LevelIs, WordMeans DEF Underway
<1>4. done \o (m \o c[N]) = AllOf
  BY <1>1, <1>2 DEF Underway, ToDo
<1>5. (done \o m) \o c[N] = AllOf
  BY <1>1, <1>3, <1>4, Regrouped DEF Regroups
<1>6. (Underway(c))'
  BY <1>2, <1>5 DEF Underway, ToDo, AllOf
<1> QED BY <1>2, <1>6, NotThrown

LEMMA NothingEffect ==
    ASSUME InterpInv, InFile, Faithful, Nothing, leaked + MaxIter < MaxFiles
    PROVE  Faithful'
<1> DEFINE N == Len(frames)
<1>1. FramesOK /\ done \in Done /\ word \in Words /\ N \in Nat \ {0} /\ N <= MaxIter + 1
  BY TopFacts DEF InterpInv, FramesOK, OthersOK, Done
<1>2. CanOpen
  <2>1. leaked \in Nat /\ MaxIter \in Nat /\ MaxFiles \in Nat
    BY WordAssumption DEF InterpInv, FilesOK
  <2>2. leaked + N - 1 < MaxFiles
    BY <1>1, <2>1
  <2> QED BY <2>2 DEF CanOpen
<1>3. word \in {"", "help", "typo"}
  BY <1>2 DEF Nothing
<1>4. N \in 1 .. N
  BY <1>1, Places
<1>5. Meaning[Level(N)][word] = <<>>
  BY <1>1, <1>3, <1>4, LevelIs, WordMeans
<1>6. done' = done \o Meaning[Level(N)][word]
  BY <1>1, <1>5, Joined DEF Nothing
<1> QED BY <1>3, <1>6, ExecutedEffect DEF Nothing

\* A command.
LEMMA FinishEffect ==
    ASSUME InterpInv, InFile, Faithful, Executes, word \in Commands, Finish
    PROVE  Faithful'
<1> DEFINE N == Len(frames)
<1>1. FramesOK /\ done \in Seq(Commands) /\ word \in Words /\ N \in Nat \ {0}
  BY TopFacts DEF InterpInv, OthersOK
<1>2. N \in 1 .. N
  BY <1>1, Places
<1>3. Meaning[Level(N)][word] = <<word>>
  BY <1>1, <1>2, LevelIs, WordMeans
<1>4. Append(done, word) = done \o <<word>>
  BY <1>1, AppendIsConcat
<1>5. word \notin {"exit", "quit"}
  BY WordAssumption DEF Commands
<1> QED BY <1>3, <1>4, <1>5, ExecutedEffect DEF Finish

\* The name of a script.
LEMMA RunScriptEffect ==
    ASSUME InterpInv, InFile, Faithful, RunScript PROVE Faithful'
<1> DEFINE N == Len(frames)
           w == word
<1>1. /\ FramesOK /\ done \in Done /\ w \in Scripts /\ w \in Words /\ pc = "exec" /\ pc' = "read"
      /\ N \in Nat \ {0} /\ Executes /\ UNCHANGED <<line, done, threw>>
      /\ w \notin {"exit", "quit"}
  BY TopFacts, WordAssumption DEF InterpInv, OthersOK, Done, RunScript, Executes
<1>2. N \in 1 .. N
  BY <1>1, Places
<1>3. MaxIter \in Nat
  BY WordAssumption
<1>4. CASE N > MaxIter
  <2>1. frames' = frames
    BY <1>4 DEF RunScript
  <2>2. Level(N) = 0 /\ ~(N <= MaxIter)
    BY <1>1, <1>2, <1>3, <1>4, LevelIs
  <2>3. Meaning[Level(N)][w] = <<>>
    <3>1. 0 \in 0 .. MaxIter
      BY <1>3
    <3> QED BY <1>1, <2>2, <3>1, WordMeans
  <2>4. done' = done \o Meaning[Level(N)][w]
    BY <1>1, <2>3, Joined
  <2> QED BY <1>1, <2>1, <2>4, ExecutedEffect
<1>5. CASE ~(N > MaxIter)
  <2>1. frames' = Append(frames, Start(w)) /\ N <= MaxIter
    BY <1>1, <1>3, <1>5 DEF RunScript
  <2>2. Level(N) \in 1 .. MaxIter /\ Level(N + 1) = Level(N) - 1 /\ Level(N) \in 0 .. MaxIter
        /\ Level(N) # 0
    BY <1>1, <1>2, <2>1, LevelIs
  <2>3. Level(N + 1) \in 0 .. MaxIter
    BY <1>3, <2>2
  <2>4. Meaning[Level(N)][w] = Left(Level(N + 1), Start(w))
    <3>1. Meaning[Level(N)][w] = LastLines(Meaning[Level(N) - 1], w)[Len(Script[w])]
      BY <1>1, <2>2, WordMeans
    <3> QED BY <1>1, <2>2, <3>1, ScriptStarts
  <2>5. Left(Level(N + 1), Start(w)) \in Done /\ Start(w) \in Frame
    <3>1. Meaning[Level(N)][w] \in Done
      BY <1>1, <2>2, WordMeans
    <3>2. Start(w) \in Frame
      BY <1>1, ScriptStarts
    <3> QED BY <2>4, <3>1, <3>2
  <2>6. PICK c : ~threw /\ Underway(c)
    BY <1>1, Started
  <2>7. PICK d : Owed(d, frames') /\ d[N + 1] = Left(Level(N + 1), Start(w)) \o c[N]
    BY <1>1, <2>1, <2>5, <2>6, PushedOwed DEF Underway
  <2>8. Len(frames') = N + 1
    BY <1>1, <2>1, PushedFrames
  <2>9. done \o (Meaning[Level(N)][w] \o c[N]) = AllOf
    BY <1>1, <2>6 DEF Underway, ToDo
  <2>10. (Underway(d))'
    BY <1>1, <2>4, <2>7, <2>8, <2>9 DEF Underway, ToDo, AllOf
  <2> QED BY <1>1, <2>6, <2>10, NotThrown
<1> QED BY <1>4, <1>5

\* A command throws: the rest of the line is not done.
LEMMA FailEffect ==
    ASSUME InterpInv, InFile, Faithful, Fail PROVE Faithful'
<1> DEFINE N == Len(frames)
<1>1. FramesOK /\ done \in Done /\ word \in Words /\ pc = "exec" /\ N \in Nat \ {0}
  BY TopFacts DEF InterpInv, OthersOK, Done, Fail, Executes
<1>2. word \in Commands /\ word \notin {"exit", "quit"}
  BY WordAssumption, Vocabulary DEF Fail, Commands
<1>3. frames' = <<Stdin>> /\ pc' = "read" /\ threw' /\ done' = Append(done, word) /\ line' = line
  BY DEF Fail, Throw
<1>4. AtStdin'
  BY <1>3 DEF AtStdin
<1>5. PICK c : ~threw /\ Underway(c)
  BY <1>1, Started
<1>6. Meaning[Level(N)][word] = <<word>> /\ <<word>> \in Done
  <2>1. N \in 1 .. N
    BY <1>1, Places
  <2>2. Level(N) \in 0 .. MaxIter
    BY <1>1, <2>1, LevelIs
  <2> QED BY <1>1, <1>2, <2>2, WordMeans
<1>7. c[N] \in Done
  BY <1>1, <1>5, TopOwes DEF Underway
<1>8. done' = done \o <<word>>
  BY <1>1, <1>2, <1>3, AppendIsConcat DEF Done
<1>9. done \o (<<word>> \o c[N]) = AllOf
  BY <1>1, <1>2, <1>5, <1>6 DEF Underway, ToDo
<1>10. done' \o c[N] = AllOf
  BY <1>1, <1>6, <1>7, <1>8, <1>9, Regrouped DEF Regroups
<1>11. AllOf' = AllOf
  BY <1>3 DEF AllOf
<1> QED BY <1>3, <1>4, <1>7, <1>10, <1>11 DEF Faithful

-----------------------------------------------------------------------------
(* The theorem.                                                              *)

EffectInv == InterpInv /\ InFile /\ Effect

LEMMA FewerFiles ==
    ASSUME NEW l \in Nat, NEW k \in Nat, NEW m \in Nat, NEW n \in Nat, l <= k, k + m < n
    PROVE  l + m < n
OBVIOUS

\* Files are never given back that an exception left open.
LEMMA FilesLeak ==
    ASSUME InterpInv, Next, leaked' + MaxIter < MaxFiles, status' = "running"
    PROVE  leaked + MaxIter < MaxFiles /\ status = "running"
<1>1. status = "running"
  BY DEF Next, Step, TypeLine, EndOfInput, ReadScript, EndScript, Exit, Nothing, RunScript, Send, Ask,
         Fail, Reads, Executes
<1>2. leaked \in Nat /\ MaxIter \in Nat /\ MaxFiles \in Nat /\ Len(frames) \in Nat \ {0}
  BY WordAssumption, TopFacts DEF InterpInv, FilesOK
<1>3. leaked' = leaked \/ leaked' = leaked + Len(frames) - 1
  BY DEF Next, Step, TypeLine, EndOfInput, ReadScript, EndScript, Exit, Nothing, RunScript, Send, Ask,
         Fail, Return, Finish, Throw
<1>4. leaked' \in Nat /\ leaked <= leaked'
  BY <1>2, <1>3
<1>5. leaked + MaxIter < MaxFiles
  BY <1>2, <1>4, FewerFiles
<1> QED BY <1>1, <1>5

LEMMA EffectKept ==
    ASSUME OnePiece, EffectInv, [Next]_vars PROVE Effect'
<1>1. InterpInv /\ InFile
  BY DEF EffectInv
<1>2. CASE UNCHANGED vars
  <2>1. Effect
    BY DEF EffectInv
  <2> QED BY <1>2, <2>1 DEF vars, Effect, Faithful, ToDo, AllOf, AtStdin, Owed
<1>3. CASE Next
  <2> SUFFICES ASSUME leaked' + MaxIter < MaxFiles, status' = "running" PROVE Faithful'
    BY DEF Effect
  <2>1. leaked + MaxIter < MaxFiles /\ status = "running"
    BY <1>1, <1>3, FilesLeak
  <2>2. Faithful
    BY <2>1 DEF EffectInv, Effect
  <2>3. CASE TypeLine
    BY <1>1, <2>3, TypeLineEffect
  <2>4. CASE EndOfInput
    BY <2>4 DEF EndOfInput
  <2>5. CASE ReadScript
    BY <1>1, <2>2, <2>5, ReadScriptEffect
  <2>6. CASE EndScript
    BY <1>1, <2>2, <2>6, EndScriptEffect
  <2>7. CASE Exit
    BY <1>1, <2>2, <2>7, ExitEffect
  <2>8. CASE Nothing
    BY <1>1, <2>1, <2>2, <2>8, NothingEffect
  <2>9. CASE RunScript
    BY <1>1, <2>2, <2>9, RunScriptEffect
  <2>10. CASE Send
    BY <1>1, <2>2, <2>10, FinishEffect, Vocabulary DEF Send
  <2>11. CASE Ask
    BY <1>1, <2>2, <2>11, FinishEffect, Vocabulary DEF Ask
  <2>12. CASE Fail
    BY <1>1, <2>2, <2>12, FailEffect
  <2> QED BY <1>3, <2>3, <2>4, <2>5, <2>6, <2>7, <2>8, <2>9, <2>10, <2>11, <2>12 DEF Next, Step
<1> QED BY <1>2, <1>3

LEMMA EffectStarts == ASSUME Init PROVE EffectInv
<1> DEFINE c == [i \in 1 .. 1 |-> <<>>]
<1>1. InterpInv
  BY InitInv
<1>2. Len(frames) = 1 /\ pc = "read" /\ done = <<>> /\ line = "" /\ ~threw /\ 2 .. 1 = {}
  <2>1. Len(<<Stdin>>) = 1 /\ 2 .. 1 = {}
    OBVIOUS
  <2> QED BY <2>1 DEF Init
<1>3. InFile
  BY <1>2 DEF InFile
<1>4. <<>> \in Done
  BY EmptySeq DEF Done
<1>5. c \in [1 .. 1 -> Done] /\ c[1] = <<>>
  BY <1>4
<1>6. Owed(c, frames)
  BY <1>2, <1>5 DEF Owed
<1>7. MaxIter \in 0 .. MaxIter
  <2>1. MaxIter \in Nat
    BY WordAssumption
  <2> QED BY <2>1
<1>8. AllOf = <<>>
  BY <1>2, <1>7, WordMeans, Vocabulary DEF AllOf
<1>9. ToDo(c) = <<>>
  BY <1>2, <1>5 DEF ToDo
<1>10. <<>> \o <<>> = <<>>
  BY <1>4, Joined
<1>11. Faithful
  BY <1>2, <1>6, <1>8, <1>9, <1>10 DEF Faithful
<1> QED BY <1>1, <1>3, <1>11 DEF EffectInv, Effect

\* The first part of a sequence is its beginning.
LEMMA Beginning ==
    ASSUME NEW a \in Done, NEW b \in Done PROVE Begins(a, a \o b)
<1>1. /\ Len(a) \in Nat /\ Len(b) \in Nat /\ a \o b \in Done /\ Len(a \o b) = Len(a) + Len(b)
      /\ \A i \in 1 .. Len(a) + Len(b) : (a \o b)[i] = IF i <= Len(a) THEN a[i] ELSE b[i - Len(a)]
  BY ConcatProperties, LenProperties DEF Done
<1> DEFINE all == a \o b
<1> HIDE DEF all
<1>2. Len(a) <= Len(all)
  BY <1>1 DEF all
<1>3. ASSUME NEW i \in 1 .. Len(a) PROVE i \in 1 .. Len(all) /\ all[i] = a[i]
  BY <1>1 DEF all
<1>4. \A i \in 1 .. Len(a) : all[i] \in Commands
  BY <1>1, <1>3, ElementOfSeq DEF Done, all
<1>5. /\ SubSeq(all, 1, Len(a)) \in Done
      /\ Len(SubSeq(all, 1, Len(a))) = IF 1 <= Len(a) THEN Len(a) - 1 + 1 ELSE 0
      /\ \A i \in 1 .. Len(a) - 1 + 1 : SubSeq(all, 1, Len(a))[i] = all[1 + i - 1]
  BY <1>1, <1>4, SubSeqProperties DEF Done
<1>6. Len(SubSeq(all, 1, Len(a))) = Len(a)
  BY <1>1, <1>5
<1>7. \A i \in 1 .. Len(a) : SubSeq(all, 1, Len(a))[i] = a[i]
  <2> TAKE i \in 1 .. Len(a)
  <2>1. i \in 1 .. Len(a) - 1 + 1 /\ 1 + i - 1 = i
    BY <1>1
  <2> QED BY <1>3, <1>5, <2>1
<1>8. a = SubSeq(all, 1, Len(a))
  BY <1>5, <1>6, <1>7, SeqEqual DEF Done
<1> QED BY <1>2, <1>8 DEF Begins, all

\* For all scripts whose lines each fit the buffer of fgets, also scripts that
\* run each other and themselves: a line typed at the prompt has the effect of
\* its script, and where a command throws the beginning of that effect.
THEOREM ScriptsMean == OnePiece /\ Spec => []ScriptRuns
<1> SUFFICES ASSUME OnePiece PROVE Spec => []ScriptRuns
  OBVIOUS
<1>1. Init => EffectInv
  BY EffectStarts
<1>2. ASSUME EffectInv, [Next]_vars PROVE EffectInv'
  <2>1. InterpInv'
    BY <1>2, StepInv DEF EffectInv
  <2>2. InFile'
    BY <1>2, InFileKept DEF EffectInv
  <2> QED BY <1>2, <2>1, <2>2, EffectKept DEF EffectInv
<1>3. EffectInv => ScriptRuns
  <2> SUFFICES ASSUME EffectInv, Prompt, leaked + MaxIter < MaxFiles
               PROVE  IF threw THEN Begins(done, AllOf) ELSE done = AllOf
    BY DEF ScriptRuns, AllOf
  <2>1. Faithful /\ AtStdin /\ pc = "read" /\ done \in Done /\ FramesOK /\ InFile
    BY DEF EffectInv, Effect, Prompt, Reads, InterpInv, OthersOK, Done
  <2>2. CASE threw
    <3>1. PICK rest \in Done : done \o rest = AllOf
      BY <2>1, <2>2 DEF Faithful
    <3>2. Begins(done, AllOf)
      BY <2>1, <3>1, Beginning
    <3> QED BY <2>2, <3>2
  <2>3. CASE ~threw
    <3>1. PICK c : Owed(c, frames) /\ done \o ToDo(c) = AllOf
      BY <2>1, <2>3 DEF Faithful
    <3>2. ToDo(c) = <<>>
      BY <2>1, <3>1, TopOwes DEF ToDo
    <3>3. done \o <<>> = done
      BY <2>1, Joined
    <3> QED BY <2>3, <3>1, <3>2, <3>3
  <2> QED BY <2>2, <2>3
<1> QED BY <1>1, <1>2, <1>3, PTL DEF Spec
=============================================================================
