--------------------------- MODULE Outcomes_proofs ---------------------------
(***************************************************************************)
(* What the commands of cmd.cpp leave behind, from the first call of each  *)
(* procedure to the last: Hoare logic for the programs of Calls.           *)
(***************************************************************************)
EXTENDS Walks, Procedures_proofs

\* Sequences of whatever elements.

LEMMA SeqLaws ==
    /\ IsSeq(<<>>)
    /\ \A i : IsSeq(<<i>>)
    /\ \A p : IsSeq(p) => Len(p) \in Nat /\ p \o <<>> = p /\ <<>> \o p = p
    /\ \A p, q : IsSeq(p) /\ IsSeq(q) => IsSeq(p \o q)
    /\ \A p, q, r : IsSeq(p) /\ IsSeq(q) /\ IsSeq(r) => (p \o q) \o r = p \o (q \o r)
<1>1. IsSeq(<<>>)
  BY EmptySeq DEF IsSeq
<1>2. \A i : IsSeq(<<i>>)
  BY Alone DEF IsSeq
<1>3. \A p : IsSeq(p) => Len(p) \in Nat /\ p \o <<>> = p /\ <<>> \o p = p
  BY LenProperties, ConcatEmptySeq DEF IsSeq
<1>4. ASSUME NEW p, NEW q, IsSeq(p), IsSeq(q) PROVE \E S : p \in Seq(S) /\ q \in Seq(S)
  <2>1. PICK S : p \in Seq(S)
    BY <1>4 DEF IsSeq
  <2>2. PICK U : q \in Seq(U)
    BY <1>4 DEF IsSeq
  <2>3. p \in Seq(S \cup U) /\ q \in Seq(S \cup U)
    BY <2>1, <2>2, SeqOfMore
  <2> QED BY <2>3
<1>5. \A p, q : IsSeq(p) /\ IsSeq(q) => IsSeq(p \o q)
  BY <1>4, ConcatProperties DEF IsSeq
<1>6. \A p, q, r : IsSeq(p) /\ IsSeq(q) /\ IsSeq(r) => (p \o q) \o r = p \o (q \o r)
  <2> SUFFICES ASSUME NEW p, NEW q, NEW r, IsSeq(p), IsSeq(q), IsSeq(r)
               PROVE  (p \o q) \o r = p \o (q \o r)
    OBVIOUS
  <2>1. PICK S : p \in Seq(S) /\ q \in Seq(S)
    BY <1>4
  <2>2. PICK U : r \in Seq(U)
    BY DEF IsSeq
  <2>3. p \in Seq(S \cup U) /\ q \in Seq(S \cup U) /\ r \in Seq(S \cup U)
    BY <2>1, <2>2, SeqOfMore
  <2> QED BY <2>3, ConcatAssociative
<1> QED BY <1>1, <1>2, <1>3, <1>5, <1>6, Zenon

LEMMA Regrouped ==
    \A p, q, r : IsSeq(p) /\ IsSeq(q) /\ IsSeq(r) => (p \o q) \o r = p \o (q \o r)
  BY SeqLaws

LEMMA Together ==
    \A p, q : IsSeq(p) /\ IsSeq(q) => \E S : p \in Seq(S) /\ q \in Seq(S)
<1> SUFFICES ASSUME NEW p, NEW q, IsSeq(p), IsSeq(q) PROVE \E S : p \in Seq(S) /\ q \in Seq(S)
  OBVIOUS
<1>1. PICK S : p \in Seq(S)
  BY DEF IsSeq
<1>2. PICK U : q \in Seq(U)
  BY DEF IsSeq
<1>3. p \in Seq(S \cup U) /\ q \in Seq(S \cup U)
  BY <1>1, <1>2, SeqOfMore
<1> QED BY <1>3

\* The next call of p \o q is that of p.
LEMMA NextOfBoth ==
    \A p, q : IsSeq(p) /\ IsSeq(q) /\ p # <<>> =>
        /\ p \o q # <<>> /\ (p \o q)[1] = p[1] /\ IsSeq(Tail(p))
        /\ Tail(p \o q) = Tail(p) \o q
<1> SUFFICES ASSUME NEW p, NEW q, IsSeq(p), IsSeq(q), p # <<>>
             PROVE  /\ p \o q # <<>> /\ (p \o q)[1] = p[1] /\ IsSeq(Tail(p))
                    /\ Tail(p \o q) = Tail(p) \o q
  OBVIOUS
<1>1. PICK S : p \in Seq(S) /\ q \in Seq(S)
  BY Together
<1>2. Len(p) \in Nat /\ Len(p) > 0 /\ Len(q) \in Nat
  BY <1>1, EmptySeq, LenProperties
<1>3. p \o q \in Seq(S) /\ Len(p \o q) = Len(p) + Len(q)
  BY <1>1, ConcatProperties
<1>4. p \o q # <<>>
  BY <1>2, <1>3
<1>5. Tail(p) \in Seq(S)
  BY <1>1
<1>6. (p \o q)[1] = p[1]
  BY <1>1, <1>2
<1>7. Tail(p \o q) = Tail(p) \o q
  BY <1>1, <1>2, <1>3, <1>4, <1>5
<1> QED BY <1>4, <1>5, <1>6, <1>7 DEF IsSeq

LEMMA UnmarkedLaws ==
    /\ Unmarked(<<>>) /\ \A i : Unmarked(<<i>>) <=> i # EndOfCall
    /\ \A p, q : IsSeq(p) /\ IsSeq(q) => (Unmarked(p \o q) <=> Unmarked(p) /\ Unmarked(q))
<1>1. Unmarked(<<>>) /\ \A i : Unmarked(<<i>>) <=> i # EndOfCall
  BY DEF Unmarked
<1>2. ASSUME NEW p, NEW q, IsSeq(p), IsSeq(q)
      PROVE  Unmarked(p \o q) <=> Unmarked(p) /\ Unmarked(q)
  <2>1. PICK S : p \in Seq(S) /\ q \in Seq(S)
    BY <1>2, Together
  <2>2. /\ Len(p) \in Nat /\ Len(q) \in Nat /\ Len(p \o q) = Len(p) + Len(q)
        /\ \A k \in 1 .. Len(p) + Len(q) :
              (p \o q)[k] = IF k <= Len(p) THEN p[k] ELSE q[k - Len(p)]
    BY <2>1, ConcatProperties, LenProperties
  <2>3. ASSUME Unmarked(p \o q) PROVE Unmarked(p) /\ Unmarked(q)
    <3>1. \A k \in 1 .. Len(p) : p[k] # EndOfCall
      BY <2>2, <2>3 DEF Unmarked
    <3>2. ASSUME NEW k \in 1 .. Len(q) PROVE q[k] # EndOfCall
      <4>1. k + Len(p) \in 1 .. Len(p) + Len(q) /\ ~(k + Len(p) <= Len(p))
            /\ (k + Len(p)) - Len(p) = k
        BY <2>2
      <4> QED BY <2>2, <2>3, <4>1 DEF Unmarked
    <3> QED BY <3>1, <3>2 DEF Unmarked
  <2>4. ASSUME Unmarked(p), Unmarked(q), NEW k \in 1 .. Len(p) + Len(q)
        PROVE  (p \o q)[k] # EndOfCall
    <3>1. CASE k <= Len(p)
      BY <2>2, <2>4, <3>1 DEF Unmarked
    <3>2. CASE ~(k <= Len(p))
      <4>1. k - Len(p) \in 1 .. Len(q)
        BY <2>2, <3>2
      <4> QED BY <2>2, <2>4, <3>2, <4>1 DEF Unmarked
    <3> QED BY <3>1, <3>2
  <2> QED BY <2>2, <2>3, <2>4 DEF Unmarked
<1> QED BY <1>1, <1>2

\* The first end of a function in p.
LEMMA BehindFirst ==
    \A S : \A p \in Seq(S) : \A m \in 1 .. Len(p) :
        p[m] = EndOfCall /\ (\A j \in 1 .. m - 1 : p[j] # EndOfCall)
            => Behind(p) = SubSeq(p, m + 1, Len(p))
<1> SUFFICES ASSUME NEW S, NEW p \in Seq(S), NEW m \in 1 .. Len(p), p[m] = EndOfCall,
                    \A j \in 1 .. m - 1 : p[j] # EndOfCall
             PROVE  Behind(p) = SubSeq(p, m + 1, Len(p))
  OBVIOUS
<1> DEFINE ends == {k \in 1 .. Len(p) : p[k] = EndOfCall}
           least == CHOOSE k \in ends : \A j \in ends : k <= j
<1>1. Len(p) \in Nat /\ m \in ends
  BY LenProperties
<1>2. ASSUME NEW j \in ends PROVE m <= j
  <2>1. j \in 1 .. Len(p) /\ p[j] = EndOfCall
    OBVIOUS
  <2>2. ~(j \in 1 .. m - 1)
    BY <2>1
  <2> QED BY <1>1, <2>1, <2>2
<1>3. \E k \in ends : \A j \in ends : k <= j
  BY <1>1, <1>2
<1>4. least \in ends /\ \A j \in ends : least <= j
  BY <1>3
<1>5. least <= m /\ m <= least
  BY <1>1, <1>2, <1>4
<1>6. least \in Nat /\ m \in Nat
  BY <1>1, <1>4
<1>7. least = m
  BY <1>5, <1>6
<1>8. Behind(p) = SubSeq(p, least + 1, Len(p))
  BY <1>1 DEF Behind
<1> QED BY <1>7, <1>8

LEMMA BehindLaws ==
    /\ Behind(<<EndOfCall>>) = <<>>
    /\ \A p : Unmarked(p) => Behind(p) = <<>>
    /\ \A p, q : IsSeq(p) /\ IsSeq(q) =>
          /\ IsSeq(Behind(p))
          /\ Unmarked(p) => Behind(p \o q) = Behind(q)
          /\ ~Unmarked(p) => Behind(p \o q) = Behind(p) \o q
<1>1. Behind(<<EndOfCall>>) = <<>>
  <2> DEFINE p == <<EndOfCall>>
  <2>1. p \in Seq({EndOfCall}) /\ Len(p) = 1 /\ p[1] = EndOfCall
    OBVIOUS
  <2> HIDE DEF p
  <2>4. 1 \in 1 .. Len(p) /\ \A j \in 1 .. 1 - 1 : p[j] # EndOfCall
    BY <2>1
  <2>2. Behind(p) = SubSeq(p, 1 + 1, Len(p))
    BY <2>1, <2>4, BehindFirst
  <2>3. SubSeq(p, 1 + 1, Len(p)) = <<>>
    BY <2>1, SubSeqEmpty
  <2> QED BY <2>2, <2>3 DEF p
<1>2. \A p : Unmarked(p) => Behind(p) = <<>>
  BY DEF Unmarked, Behind
<1>3. ASSUME NEW p, NEW q, IsSeq(p), IsSeq(q)
      PROVE  /\ IsSeq(Behind(p))
             /\ Unmarked(p) => Behind(p \o q) = Behind(q)
             /\ ~Unmarked(p) => Behind(p \o q) = Behind(p) \o q
  <2>1. PICK S : p \in Seq(S) /\ q \in Seq(S)
    BY <1>3, Together
  <2>2. /\ Len(p) \in Nat /\ Len(q) \in Nat /\ Len(p \o q) = Len(p) + Len(q)
        /\ p \o q \in Seq(S)
        /\ \A k \in 1 .. Len(p) + Len(q) :
              (p \o q)[k] = IF k <= Len(p) THEN p[k] ELSE q[k - Len(p)]
    BY <2>1, ConcatProperties, LenProperties
  <2>3. IsSeq(Behind(p))
    BY <2>1, BehindType DEF IsSeq
  <2>4. ASSUME NEW x, x \in Seq(S), ~Unmarked(x)
        PROVE  \E m \in 1 .. Len(x) : x[m] = EndOfCall /\ \A j \in 1 .. m - 1 : x[j] # EndOfCall
    <3> DEFINE ends == {k \in 1 .. Len(x) : x[k] = EndOfCall}
               least == CHOOSE k \in ends : \A j \in ends : k <= j
    <3>1. Len(x) \in Nat /\ ends \in SUBSET Nat
      BY <2>4, LenProperties
    <3>2. ends # {}
      BY <2>4 DEF Unmarked
    <3>3. least \in ends
      BY <3>1, <3>2, LeastIn
    <3>4. \E k \in ends : \A j \in ends : k <= j
      <4>1. PICK k \in ends : \A j \in ends : ~(<<j, k>> \in Less)
        <5>1. IsWellFoundedOn(OpToRel(<, Nat), Nat)
          BY NatLessThanWellFounded
        <5>2. OpToRel(<, Nat) = Less
          BY DEF OpToRel, Less
        <5> QED BY <5>1, <5>2, <3>1, <3>2, WFMin
      <4>2. \A j \in ends : j \in Nat /\ k \in Nat /\ ~(j < k)
        BY <4>1, <3>1 DEF Less
      <4> QED BY <4>2
    <3>5. least \in ends /\ \A j \in ends : least <= j
      BY <3>4
    <3>6. ASSUME NEW j \in 1 .. least - 1 PROVE x[j] # EndOfCall
      <4>1. least \in 1 .. Len(x)
        BY <3>5
      <4>2. j \in 1 .. Len(x) /\ ~(least <= j)
        BY <3>1, <4>1
      <4> QED BY <3>5, <4>2
    <3> HIDE DEF least
    <3> QED BY <3>5, <3>6
  <2>5. ASSUME Unmarked(p) PROVE Behind(p \o q) = Behind(q)
    <3>1. CASE Unmarked(q)
      <4>1. Unmarked(p \o q)
        BY <1>3, <2>5, <3>1, UnmarkedLaws
      <4> QED BY <1>2, <3>1, <4>1
    <3>2. CASE ~Unmarked(q)
      <4>1. PICK m \in 1 .. Len(q) : q[m] = EndOfCall /\ \A j \in 1 .. m - 1 : q[j] # EndOfCall
        BY <2>1, <2>4, <3>2
      <4>2. Behind(q) = SubSeq(q, m + 1, Len(q))
        BY <2>1, <4>1, BehindFirst
      <4> DEFINE n == Len(p) + m
      <4>3. n \in 1 .. Len(p \o q) /\ (p \o q)[n] = EndOfCall
        BY <2>2, <4>1
      <4>4. ASSUME NEW j \in 1 .. n - 1 PROVE (p \o q)[j] # EndOfCall
        <5>1. j \in 1 .. Len(p) + Len(q) /\ n \in Nat /\ m \in Nat
          BY <2>2
        <5>2. CASE j <= Len(p)
          BY <2>2, <2>5, <5>1, <5>2 DEF Unmarked
        <5>3. CASE ~(j <= Len(p))
          <6>1. j - Len(p) \in 1 .. m - 1
            BY <2>2, <5>1, <5>3
          <6> QED BY <2>2, <4>1, <5>1, <5>3, <6>1
        <5> QED BY <5>2, <5>3
      <4>5. Behind(p \o q) = SubSeq(p \o q, n + 1, Len(p \o q))
        BY <2>2, <4>3, <4>4, BehindFirst
      <4>6. SubSeq(p \o q, n + 1, Len(p \o q)) = SubSeq(q, m + 1, Len(q))
        BY <2>1, <2>2
      <4> QED BY <4>2, <4>5, <4>6
    <3> QED BY <3>1, <3>2
  <2>6. ASSUME ~Unmarked(p) PROVE Behind(p \o q) = Behind(p) \o q
    <3>1. PICK m \in 1 .. Len(p) : p[m] = EndOfCall /\ \A j \in 1 .. m - 1 : p[j] # EndOfCall
      BY <2>1, <2>4, <2>6
    <3>2. Behind(p) = SubSeq(p, m + 1, Len(p))
      BY <2>1, <3>1, BehindFirst
    <3>3. m \in 1 .. Len(p \o q) /\ (p \o q)[m] = EndOfCall
      BY <2>2, <3>1
    <3>4. \A j \in 1 .. m - 1 : (p \o q)[j] # EndOfCall
      BY <2>2, <3>1
    <3>5. Behind(p \o q) = SubSeq(p \o q, m + 1, Len(p \o q))
      BY <2>2, <3>3, <3>4, BehindFirst
    <3>6. SubSeq(p \o q, m + 1, Len(p \o q)) = SubSeq(p, m + 1, Len(p)) \o q
      <4> DEFINE x == SubSeq(p \o q, m + 1, Len(p \o q))
                 y == SubSeq(p, m + 1, Len(p))
      <4>1. m \in Nat /\ m <= Len(p)
        BY <2>2
      <4>2. y \in Seq(S) /\ Len(y) = Len(p) - m
        BY <2>1, <2>2, <4>1
      <4>3. x \in Seq(S) /\ Len(x) = Len(p) + Len(q) - m
        BY <2>1, <2>2, <4>1
      <4>6. ASSUME NEW k \in Nat, k > 0 PROVE
                /\ k <= Len(p) + Len(q) - m => x[k] = (p \o q)[m + k]
                /\ k <= Len(p) - m => y[k] = p[m + k]
        BY <2>1, <2>2, <4>1, <4>6
      <4> HIDE DEF x, y
      <4>4. y \o q \in Seq(S) /\ Len(y \o q) = Len(p) + Len(q) - m
        <5>1. Len(y) + Len(q) = Len(p) + Len(q) - m
          BY <2>2, <4>1, <4>2
        <5>2. y \o q \in Seq(S) /\ Len(y \o q) = Len(y) + Len(q)
          BY <2>1, <4>2, ConcatProperties
        <5> QED BY <5>1, <5>2
      <4>5. ASSUME NEW k \in 1 .. Len(x) PROVE x[k] = (y \o q)[k]
        <5>1. k \in Nat /\ k > 0 /\ k <= Len(p) + Len(q) - m
          BY <2>2, <4>1, <4>3
        <5>2. x[k] = (p \o q)[m + k]
          BY <4>6, <5>1
        <5>3. (y \o q)[k] = IF k <= Len(y) THEN y[k] ELSE q[k - Len(y)]
          BY <2>1, <4>2, <4>4, <5>1, ConcatProperties
        <5>4. k <= Len(y) => y[k] = p[m + k]
          BY <4>2, <4>6, <5>1
        <5>5. (p \o q)[m + k] = IF m + k <= Len(p) THEN p[m + k] ELSE q[(m + k) - Len(p)]
          BY <2>2, <4>1, <5>1
        <5>6. (m + k) - Len(p) = k - Len(y) /\ (m + k <= Len(p) <=> k <= Len(y))
          BY <2>2, <4>1, <4>2, <5>1
        <5> QED BY <5>2, <5>3, <5>4, <5>5, <5>6
      <4> QED BY <4>3, <4>4, <4>5, SeqEqual DEF x, y
    <3> QED BY <3>2, <3>5, <3>6
  <2> QED BY <2>3, <2>5, <2>6
<1> QED BY <1>1, <1>2, <1>3

-----------------------------------------------------------------------------
\* Programs that go on one behind the other.

\* Calls that are no control structures.
Controlling == {"either", "again", "each", "call", "try", "end of try", "end of call", "return"}

LEMMA Leaves == \A i, v, w : Moves(i, v, w) => i.do \notin Controlling
<1> SUFFICES ASSUME NEW i, NEW v, NEW w, Moves(i, v, w) PROVE i.do \notin Controlling
  OBVIOUS
<1>1. i.do \in Voids \cup {"flush", "SetTrimValues", "Daq_Open", "Daq_Read", "LoopSingleRoc",
                           "LoopMultiRoc", "dacval", "keep", "modtrm", "phase", "timeout", "select"}
  BY DEF Moves
<1> QED BY <1>1 DEF Voids, Controlling

\* A step of p \o q is a step of p, as long as p does not return.
LEMMA GoesOn ==
    \A p, q, v, x, w :
        /\ IsSeq(p) /\ IsSeq(q) /\ p # <<>> /\ Sound(p[1], v.roclist) /\ ~Out(p)
        /\ Goes(p \o q, v, x, w)
        => \E y : x = y \o q /\ Goes(p, v, y, w)
<1> SUFFICES ASSUME NEW p, NEW q, NEW v, NEW x, NEW w,
                    IsSeq(p), IsSeq(q), p # <<>>, Sound(p[1], v.roclist), ~Out(p),
                    Goes(p \o q, v, x, w)
             PROVE  \E y : x = y \o q /\ Goes(p, v, y, w)
  OBVIOUS
<1> DEFINE i == p[1]
           rest == Tail(p)
           more == IF i.roc = MaxRoc THEN <<>> ELSE <<[i EXCEPT !.roc = i.roc + 1]>>
<1>1. (p \o q)[1] = i /\ Tail(p \o q) = rest \o q /\ IsSeq(rest)
  BY NextOfBoth
<1>2. \A a, b : IsSeq(a) /\ IsSeq(b) => a \o b \o q = a \o (b \o q) /\ IsSeq(a \o b)
  <2> SUFFICES ASSUME NEW a, NEW b, IsSeq(a), IsSeq(b)
               PROVE  a \o b \o q = a \o (b \o q) /\ IsSeq(a \o b)
    OBVIOUS
  <2>1. IsSeq(a \o b)
    BY SeqLaws
  <2>2. (a \o b) \o q = a \o (b \o q)
    BY Regrouped
  <2> QED BY <2>1, <2>2
<1>3. IsSeq(more)
  <2> DEFINE next == [i EXCEPT !.roc = i.roc + 1]
  <2>1. more = <<>> \/ more = <<next>>
    OBVIOUS
  <2> HIDE DEF next, more
  <2>2. IsSeq(<<>>) /\ IsSeq(<<next>>)
    BY SeqLaws
  <2> QED BY <2>1, <2>2
<1> HIDE DEF more
<1>4. CASE x = rest \o q /\ Moves(i, v, w)
  BY <1>4 DEF Goes
<1>5. ASSUME NEW k \in DOMAIN i.of, w = v, i.do = "either", x = i.of[k] \o (rest \o q)
      PROVE  \E y : x = y \o q /\ Goes(p, v, y, w)
  <2>1. IsSeq(i.of[k])
    BY <1>5 DEF Sound, Leads
  <2>2. x = (i.of[k] \o rest) \o q
    BY <1>1, <1>2, <1>5, <2>1
  <2>3. Goes(p, v, i.of[k] \o rest, w)
    BY <1>5 DEF Goes
  <2> QED BY <2>2, <2>3
<1>6. CASE w = v /\ i.do = "again" /\ x \in {i.of[1] \o (p \o q), rest \o q}
  <2>1. IsSeq(i.of[1])
    BY <1>6 DEF Sound, Leads
  <2>2. x \in {(i.of[1] \o p) \o q, rest \o q}
    BY <1>2, <1>6, <2>1
  <2>3. Goes(p, v, i.of[1] \o p, w) /\ Goes(p, v, rest, w)
    BY <1>6 DEF Goes
  <2> QED BY <2>2, <2>3
<1>7. CASE /\ w = v /\ i.do = "each"
           /\ x = (IF i.all \/ i.roc \in v.roclist THEN i.of[i.roc] ELSE <<>>) \o more \o (rest \o q)
  <2> DEFINE body == IF i.all \/ i.roc \in v.roclist THEN i.of[i.roc] ELSE <<>>
  <2>1. IsSeq(body)
    BY <1>7, SeqLaws DEF Sound, Leads
  <2>2. x = body \o more \o (rest \o q)
    BY <1>7
  <2>4. Goes(p, v, body \o more \o rest, w)
    BY <1>7 DEF Goes, more
  <2> HIDE DEF body
  <2>3. x = (body \o more \o rest) \o q
    BY <1>1, <1>2, <1>3, <2>1, <2>2
  <2> QED BY <2>3, <2>4
<1>8. CASE w = v /\ i.do = "call" /\ x = i.of[1] \o <<EndOfCall>> \o (rest \o q)
  <2>1. IsSeq(i.of[1]) /\ IsSeq(<<EndOfCall>>)
    BY <1>8, SeqLaws DEF Sound, Leads
  <2>2. x = (i.of[1] \o <<EndOfCall>> \o rest) \o q
    BY <1>1, <1>2, <1>8, <2>1
  <2>3. Goes(p, v, i.of[1] \o <<EndOfCall>> \o rest, w)
    BY <1>8 DEF Goes
  <2> QED BY <2>2, <2>3
<1>9. CASE w = v /\ i.do = "try" /\ x = i.of[1] \o <<EndOfTry>> \o (rest \o q)
  <2>1. IsSeq(i.of[1]) /\ IsSeq(<<EndOfTry>>)
    BY <1>9, SeqLaws DEF Sound, Leads
  <2>2. x = (i.of[1] \o <<EndOfTry>> \o rest) \o q
    BY <1>1, <1>2, <1>9, <2>1
  <2>3. Goes(p, v, i.of[1] \o <<EndOfTry>> \o rest, w)
    BY <1>9 DEF Goes
  <2> QED BY <2>2, <2>3
<1>10. CASE w = v /\ i \in {EndOfCall, EndOfTry} /\ x = rest \o q
  BY <1>10 DEF Goes
<1>11. CASE w = v /\ i.do = "return" /\ x = Behind(rest \o q)
  <2>1. ~Unmarked(rest)
    BY <1>11 DEF Out
  <2>2. x = Behind(rest) \o q
    BY <1>1, <1>11, <2>1, BehindLaws
  <2> QED BY <1>11, <2>2 DEF Goes
<1> QED BY <1>1, <1>4, <1>5, <1>6, <1>7, <1>8, <1>9, <1>10, <1>11 DEF Goes, more

\* The programs of G, each with q behind it.
Behinds(G, q) == {<<g[1] \o q, g[2]>> : g \in G}

LEMMA Extended ==
    \A G, V, M, R, q : Closed(G, V, M, R) /\ IsSeq(q) =>
        \A h \in Behinds(G, q) :
            /\ IsSeq(h[1]) /\ h[2] \in V
            /\ \/ h[1] = q /\ h[2] \in M
               \/ /\ h[1] # <<>> /\ Sound(h[1][1], h[2].roclist)
                  /\ Out(h[1]) => h[2] \in R /\ Unmarked(q)
                  /\ \A x : \A w \in Views : Goes(h[1], h[2], x, w) =>
                        \/ <<x, w>> \in Behinds(G, q)
                        \/ /\ h[2] \in R /\ x = Behind(q) /\ w = h[2]
                           /\ Unmarked(q) => Out(h[1])
<1> SUFFICES ASSUME NEW G, NEW V, NEW M, NEW R, NEW q, Closed(G, V, M, R), IsSeq(q)
             PROVE  \A h \in Behinds(G, q) :
                        /\ IsSeq(h[1]) /\ h[2] \in V
                        /\ \/ h[1] = q /\ h[2] \in M
                           \/ /\ h[1] # <<>> /\ Sound(h[1][1], h[2].roclist)
                              /\ Out(h[1]) => h[2] \in R /\ Unmarked(q)
                              /\ \A x : \A w \in Views : Goes(h[1], h[2], x, w) =>
                                    \/ <<x, w>> \in Behinds(G, q)
                                    \/ /\ h[2] \in R /\ x = Behind(q) /\ w = h[2]
                                       /\ Unmarked(q) => Out(h[1])
  OBVIOUS
<1>a. \A h \in Behinds(G, q) : \E e \in G : h[1] = e[1] \o q /\ h[2] = e[2]
  BY DEF Behinds
<1> SUFFICES ASSUME NEW g \in G, NEW p, p = g[1] \o q, NEW v, v = g[2]
             PROVE  /\ IsSeq(p) /\ v \in V
                    /\ \/ p = q /\ v \in M
                       \/ /\ p # <<>> /\ Sound(p[1], v.roclist)
                          /\ Out(p) => v \in R /\ Unmarked(q)
                          /\ \A x : \A w \in Views : Goes(p, v, x, w) =>
                                \/ <<x, w>> \in Behinds(G, q)
                                \/ /\ v \in R /\ x = Behind(q) /\ w = v
                                   /\ Unmarked(q) => Out(p)
  BY <1>a
<1> DEFINE o == g[1]
<1>1. IsSeq(o) /\ v \in V
  BY DEF Closed
<1>2. IsSeq(p)
  BY <1>1, SeqLaws
<1>3. CASE o = <<>>
  BY <1>1, <1>2, <1>3, SeqLaws DEF Closed
<1>4. CASE o # <<>>
  <2>1. Sound(o[1], v.roclist) /\ (Out(o) => v \in R)
    BY <1>4 DEF Closed
  <2>2. p # <<>> /\ p[1] = o[1] /\ IsSeq(Tail(o)) /\ Tail(p) = Tail(o) \o q
    BY <1>1, <1>4, NextOfBoth
  <2>3. Out(p) <=> Out(o) /\ Unmarked(q)
    <3> DEFINE t == Tail(o)
    <3>1. IsSeq(t) /\ Tail(p) = t \o q
      BY <2>2
    <3> HIDE DEF t
    <3>2. Unmarked(t \o q) <=> Unmarked(t) /\ Unmarked(q)
      BY <3>1, UnmarkedLaws
    <3> QED BY <2>2, <3>1, <3>2 DEF Out, t
  <2>4. ASSUME NEW x, NEW w \in Views, Goes(p, v, x, w)
        PROVE  \/ <<x, w>> \in Behinds(G, q)
               \/ v \in R /\ x = Behind(q) /\ w = v /\ (Unmarked(q) => Out(p))
    <3>1. CASE Out(o)
      <4>1. p[1].do = "return" /\ Unmarked(Tail(o)) /\ v \in R
        BY <2>1, <2>2, <3>1 DEF Out
      <4>2. Behind(Tail(p)) = Behind(q)
        BY ZenonT(40), <2>2, <4>1, BehindLaws
      <4>3. x = Behind(Tail(p)) /\ w = v
        <5>1. ~Moves(p[1], v, w)
          BY <4>1, Leaves DEF Controlling
        <5>3. EndOfCall.do = "end of call" /\ EndOfTry.do = "end of try"
          BY DEF EndOfCall, EndOfTry
        <5>2. p[1] \notin {EndOfCall, EndOfTry}
          BY <4>1, <5>3
        <5> QED BY <2>4, <4>1, <5>1, <5>2 DEF Goes
      <4> QED BY <2>3, <3>1, <4>1, <4>2, <4>3
    <3>2. CASE ~Out(o)
      <4>1. PICK y : x = y \o q /\ Goes(o, v, y, w)
        BY <1>1, <1>4, <2>1, <2>4, <3>2, GoesOn
      <4>2. <<y, w>> \in G
        BY <1>4, <3>2, <4>1 DEF Closed
      <4>3. <<y, w>>[1] = y /\ <<y, w>>[2] = w
        OBVIOUS
      <4>4. <<y \o q, w>> \in Behinds(G, q)
        BY <4>2, <4>3 DEF Behinds
      <4> QED BY <4>1, <4>4
    <3> QED BY <3>1, <3>2
  <2> QED BY <1>1, <1>2, <2>1, <2>2, <2>3, <2>4
<1> QED BY <1>3, <1>4

\* The end of a program is reached with a view in B.
LEMMA RunsFacts ==
    \A V, B, R, p, v : Runs(V, B, R, p, v) => IsSeq(p) /\ v \in V /\ (p = <<>> => v \in B)
<1> SUFFICES ASSUME NEW V, NEW B, NEW R, NEW p, NEW v, NEW G, Closed(G, V, B, R), <<p, v>> \in G
             PROVE  IsSeq(p) /\ v \in V /\ (p = <<>> => v \in B)
  BY DEF Runs
<1>1. <<p, v>>[1] = p /\ <<p, v>>[2] = v
  OBVIOUS
<1> QED BY <1>1 DEF Closed

LEMMA ClosedUnion ==
    \A F, V, B, R : (\A G \in F : Closed(G, V, B, R)) => Closed(UNION F, V, B, R)
<1> SUFFICES ASSUME NEW F, NEW V, NEW B, NEW R, \A G \in F : Closed(G, V, B, R),
                    NEW G \in F, NEW g \in G
             PROVE  /\ IsSeq(g[1]) /\ g[2] \in V
                    /\ g[1] = <<>> => g[2] \in B
                    /\ g[1] # <<>> =>
                         /\ Sound(g[1][1], g[2].roclist)
                         /\ Out(g[1]) => g[2] \in R
                         /\ ~Out(g[1]) => \A q : \A w \in Views :
                                Goes(g[1], g[2], q, w) => <<q, w>> \in UNION F
  BY DEF Closed
<1>1. Closed(G, V, B, R)
  OBVIOUS
<1> QED BY <1>1 DEF Closed

\* One program behind the other.
LEMMA RunsOn ==
    \A V, M, B, R, p, q, v :
        /\ Runs(V, M, R, p, v) /\ IsSeq(q) /\ Unmarked(q)
        /\ \A m \in M : m \in V => Runs(V, B, R, q, m)
        => Runs(V, B, R, p \o q, v)
<1> SUFFICES ASSUME NEW V, NEW M, NEW B, NEW R, NEW p, NEW q, NEW v,
                    Runs(V, M, R, p, v), IsSeq(q), Unmarked(q),
                    \A m \in M : m \in V => Runs(V, B, R, q, m)
             PROVE  Runs(V, B, R, p \o q, v)
  OBVIOUS
<1>1. PICK G : Closed(G, V, M, R) /\ <<p, v>> \in G
  BY DEF Runs
<1> DEFINE of(m) == CHOOSE H : Closed(H, V, B, R) /\ <<q, m>> \in H
           L == UNION {of(m) : m \in M \cap V}
           K == Behinds(G, q) \cup L
<1>2. \A m \in M \cap V : Closed(of(m), V, B, R) /\ <<q, m>> \in of(m)
  BY DEF Runs
<1> HIDE DEF of
<1>3. Closed(L, V, B, R)
  BY <1>2, ClosedUnion
<1>4. \A m \in M \cap V : <<q, m>> \in L
  BY <1>2
<1> HIDE DEF L
<1>5. ASSUME NEW g \in K
      PROVE  /\ IsSeq(g[1]) /\ g[2] \in V
             /\ g[1] = <<>> => g[2] \in B
             /\ g[1] # <<>> =>
                  /\ Sound(g[1][1], g[2].roclist)
                  /\ Out(g[1]) => g[2] \in R
                  /\ ~Out(g[1]) => \A x : \A w \in Views :
                         Goes(g[1], g[2], x, w) => <<x, w>> \in K
  <2>1. CASE g \in L
    BY <1>3, <2>1 DEF Closed
  <2>2. CASE g \in Behinds(G, q) /\ g[1] = q /\ g[2] \in M
    <3>1. g[2] \in V
      BY <1>1, <2>2, Extended
    <3>2. <<q, g[2]>> \in L
      BY <1>4, <2>2, <3>1
    <3>3. <<q, g[2]>>[1] = g[1] /\ <<q, g[2]>>[2] = g[2]
      BY <2>2
    <3> QED BY <1>3, <3>2, <3>3 DEF Closed
  <2>3. CASE g \in Behinds(G, q) /\ ~(g[1] = q /\ g[2] \in M)
    <3>1. /\ IsSeq(g[1]) /\ g[2] \in V
          /\ g[1] # <<>> /\ Sound(g[1][1], g[2].roclist)
          /\ Out(g[1]) => g[2] \in R
          /\ \A x : \A w \in Views : Goes(g[1], g[2], x, w) =>
                <<x, w>> \in Behinds(G, q) \/ Out(g[1])
      BY <1>1, <2>3, Extended
    <3> QED BY <3>1
  <2> QED BY <2>1, <2>2, <2>3
<1>6. Closed(K, V, B, R)
  BY <1>5 DEF Closed
<1>7. <<p \o q, v>> \in K
  <2>1. <<p, v>>[1] = p /\ <<p, v>>[2] = v
    OBVIOUS
  <2> QED BY <1>1, <2>1 DEF Behinds
<1> QED BY <1>6, <1>7 DEF Runs

\* The programs to which p may go on.
Bodies(i) == {i.of[i.roc], <<>>}
Mores(i) == {<<>>, <<[i EXCEPT !.roc = i.roc + 1]>>}
Straight(p) ==
    {Tail(p), Behind(Tail(p)), p[1].of[1] \o p, p[1].of[1] \o <<EndOfCall>> \o Tail(p),
     p[1].of[1] \o <<EndOfTry>> \o Tail(p)}
Nexts(p) ==
    Straight(p) \cup {p[1].of[k] \o Tail(p) : k \in DOMAIN p[1].of}
            \cup {e[1] \o e[2] \o Tail(p) : e \in Bodies(p[1]) \X Mores(p[1])}

LEMMA NextsAll == \A p, v, q, w : Goes(p, v, q, w) => q \in Nexts(p)
<1> SUFFICES ASSUME NEW p, NEW v, NEW q, NEW w, Goes(p, v, q, w) PROVE q \in Nexts(p)
  OBVIOUS
<1> DEFINE i == p[1]
           rest == Tail(p)
           body == IF i.all \/ i.roc \in v.roclist THEN i.of[i.roc] ELSE <<>>
           more == IF i.roc = MaxRoc THEN <<>> ELSE <<[i EXCEPT !.roc = i.roc + 1]>>
<1>1. \/ q \in Straight(p)
      \/ \E k \in DOMAIN i.of : q = i.of[k] \o rest
      \/ q = body \o more \o rest
  BY DEF Goes, Straight
<1>2. body \in Bodies(i) /\ more \in Mores(i)
  BY DEF Bodies, Mores
<1> HIDE DEF body, more
<1>3. CASE q \in Straight(p)
  BY <1>3, Zenon DEF Nexts
<1>4. CASE \E k \in DOMAIN i.of : q = i.of[k] \o rest
  <2>1. q \in {i.of[k] \o rest : k \in DOMAIN i.of}
    BY <1>4, Zenon
  <2> QED BY <2>1, Zenon DEF Nexts
<1>5. CASE q = body \o more \o rest
  <2> DEFINE e == <<body, more>>
  <2>1. e \in Bodies(i) \X Mores(i) /\ e[1] = body /\ e[2] = more
    BY <1>2
  <2> HIDE DEF e
  <2>2. q = e[1] \o e[2] \o rest
    BY <1>5, <2>1
  <2> QED BY <2>1, <2>2, Zenon DEF Nexts
<1> QED BY <1>1, <1>3, <1>4, <1>5

\* The next step of g, in the program and the view g, leads to the set K.
Goodly(V, B, R, g, K) ==
    /\ IsSeq(g[1]) /\ g[2] \in V
    /\ g[1] = <<>> => g[2] \in B
    /\ g[1] # <<>> =>
         /\ Sound(g[1][1], g[2].roclist)
         /\ Out(g[1]) => g[2] \in R
         /\ ~Out(g[1]) => \A q : \A w \in Views : Goes(g[1], g[2], q, w) => <<q, w>> \in K

\* From q and w some program and view of X is reached, or the end.
Follows(X, V, B, R, q, w) ==
    \/ Runs(V, B, R, q, w)
    \/ <<q, w>> \in X
    \/ \E a, b : /\ q = a \o b /\ IsSeq(b) /\ Unmarked(b)
                 /\ \E M : Runs(V, M, R, a, w) /\ \A m \in M \cap V : <<b, m>> \in X

Steady(X, V, B, R, x) ==
    /\ IsSeq(x[1]) /\ x[2] \in V
    /\ x[1] = <<>> => x[2] \in B
    /\ x[1] # <<>> =>
         /\ Sound(x[1][1], x[2].roclist)
         /\ Out(x[1]) => x[2] \in R
         /\ ~Out(x[1]) => \A q : \A w \in Views :
                Goes(x[1], x[2], q, w) => Follows(X, V, B, R, q, w)

LEMMA Piece ==
    \A X, V, B, R, q, w : Follows(X, V, B, R, q, w) =>
        \E K : <<q, w>> \in K /\ \A h \in K : h \in X \/ Goodly(V, B, R, h, K)
<1> SUFFICES ASSUME NEW X, NEW V, NEW B, NEW R, NEW q, NEW w, Follows(X, V, B, R, q, w)
             PROVE  \E K : <<q, w>> \in K /\ \A h \in K : h \in X \/ Goodly(V, B, R, h, K)
  OBVIOUS
<1>1. CASE Runs(V, B, R, q, w)
  BY <1>1 DEF Runs, Closed, Goodly
<1>2. CASE <<q, w>> \in X
  <2>1. <<q, w>> \in {<<q, w>>} /\ \A h \in {<<q, w>>} : h \in X
    BY <1>2
  <2> QED BY <2>1
<1>3. ASSUME NEW a, NEW b, q = a \o b, IsSeq(b), Unmarked(b),
             NEW M, Runs(V, M, R, a, w), \A m \in M \cap V : <<b, m>> \in X
      PROVE  \E K : <<q, w>> \in K /\ \A h \in K : h \in X \/ Goodly(V, B, R, h, K)
  <2>1. PICK G : Closed(G, V, M, R) /\ <<a, w>> \in G
    BY <1>3 DEF Runs
  <2>2. <<q, w>> \in Behinds(G, b)
    <3>1. <<a, w>>[1] = a /\ <<a, w>>[2] = w
      OBVIOUS
    <3> QED BY <1>3, <2>1, <3>1 DEF Behinds
  <2>3. ASSUME NEW h \in Behinds(G, b) PROVE h \in X \/ Goodly(V, B, R, h, Behinds(G, b))
    <3>1. CASE h[1] = b /\ h[2] \in M
      <4>1. h[2] \in V
        BY <1>3, <2>1, <2>3, Extended
      <4>2. h = <<h[1], h[2]>>
        BY DEF Behinds
      <4> QED BY <1>3, <3>1, <4>1, <4>2
    <3>2. CASE ~(h[1] = b /\ h[2] \in M)
      <4>1. /\ IsSeq(h[1]) /\ h[2] \in V
            /\ h[1] # <<>> /\ Sound(h[1][1], h[2].roclist)
            /\ Out(h[1]) => h[2] \in R
            /\ \A x : \A y \in Views : Goes(h[1], h[2], x, y) =>
                  <<x, y>> \in Behinds(G, b) \/ Out(h[1])
        BY <1>3, <2>1, <3>2, Extended
      <4> QED BY <4>1 DEF Goodly
    <3> QED BY <3>1, <3>2
  <2> QED BY <2>2, <2>3
<1> QED BY <1>1, <1>2, <1>3 DEF Follows

\* A set of programs and views that lead to each other, with what runs to its
\* end in between.
LEMMA UpTo ==
    \A X, V, B, R : (\A x \in X : Steady(X, V, B, R, x))
        => \A p, v : <<p, v>> \in X => Runs(V, B, R, p, v)
<1> SUFFICES ASSUME NEW X, NEW V, NEW B, NEW R, \A x \in X : Steady(X, V, B, R, x),
                    NEW p, NEW v, <<p, v>> \in X
             PROVE  Runs(V, B, R, p, v)
  OBVIOUS
<1> DEFINE E == {e \in (UNION {Nexts(x[1]) : x \in X}) \X Views :
                     Follows(X, V, B, R, e[1], e[2])}
           of(e) == CHOOSE K : e \in K /\ \A h \in K : h \in X \/ Goodly(V, B, R, h, K)
           L == UNION {of(e) : e \in E}
           G == X \cup L
<1>1. \A e \in E : e \in of(e) /\ \A h \in of(e) : h \in X \/ Goodly(V, B, R, h, of(e))
  <2> SUFFICES ASSUME NEW e \in E
               PROVE  \E K : e \in K /\ \A h \in K : h \in X \/ Goodly(V, B, R, h, K)
    OBVIOUS
  <2>1. e = <<e[1], e[2]>> /\ Follows(X, V, B, R, e[1], e[2])
    OBVIOUS
  <2> QED BY <2>1, Piece
<1> HIDE DEF of
<1>2. \A h \in L : h \in X \/ Goodly(V, B, R, h, G)
  BY <1>1 DEF Goodly
<1>3. ASSUME NEW x \in X PROVE Goodly(V, B, R, x, G)
  <2>1. Steady(X, V, B, R, x)
    OBVIOUS
  <2>2. ASSUME NEW q, NEW w \in Views, Goes(x[1], x[2], q, w), Follows(X, V, B, R, q, w)
        PROVE  <<q, w>> \in G
    <3>1. q \in Nexts(x[1])
      BY <2>2, NextsAll
    <3>2. <<q, w>> \in E
      BY <2>2, <3>1
    <3> HIDE DEF E
    <3> QED BY <1>1, <3>2
  <2> HIDE DEF G
  <2> QED BY <2>1, <2>2 DEF Steady, Goodly
<1>4. Closed(G, V, B, R)
  BY <1>2, <1>3 DEF Closed, Goodly
<1> QED BY <1>4 DEF Runs

-----------------------------------------------------------------------------
\* The rules: from a view in A the program p ends with one in B.

\* One step.
LEMMA Ahead ==
    \A V, B, R, p, v :
        /\ IsSeq(p) /\ v \in V /\ p # <<>> /\ Sound(p[1], v.roclist) /\ ~Out(p)
        /\ \A q : \A w \in Views : Goes(p, v, q, w) => Runs(V, B, R, q, w)
        => Runs(V, B, R, p, v)
<1> SUFFICES ASSUME NEW V, NEW B, NEW R, NEW p, NEW v,
                    IsSeq(p), v \in V, p # <<>>, Sound(p[1], v.roclist), ~Out(p),
                    \A q : \A w \in Views : Goes(p, v, q, w) => Runs(V, B, R, q, w)
             PROVE  Runs(V, B, R, p, v)
  OBVIOUS
<1> DEFINE x == <<p, v>>
<1>1. x[1] = p /\ x[2] = v
  OBVIOUS
<1>2. \A q : \A w \in Views : Goes(p, v, q, w) => Follows({x}, V, B, R, q, w)
  BY DEF Follows
<1> HIDE DEF x
<1>3. Steady({x}, V, B, R, x)
  BY <1>1, <1>2 DEF Steady
<1>4. Runs(V, B, R, p, v)
  <2>1. \A y \in {x} : Steady({x}, V, B, R, y)
    BY <1>3
  <2>2. <<p, v>> \in {x}
    BY DEF x
  <2> QED BY <2>1, <2>2, UpTo
<1> QED BY <1>4

LEMMA AtEnd == \A V, B, R, v : v \in V /\ v \in B => Runs(V, B, R, <<>>, v)
<1> SUFFICES ASSUME NEW V, NEW B, NEW R, NEW v, v \in V, v \in B PROVE Runs(V, B, R, <<>>, v)
  OBVIOUS
<1> DEFINE x == <<<<>>, v>>
<1>1. x[1] = <<>> /\ x[2] = v /\ IsSeq(<<>>)
  BY SeqLaws
<1> HIDE DEF x
<1>2. Steady({x}, V, B, R, x)
  BY <1>1 DEF Steady
<1>3. \A y \in {x} : Steady({x}, V, B, R, y)
  BY <1>2
<1>4. <<<<>>, v>> \in {x}
  BY DEF x
<1> QED BY <1>3, <1>4, UpTo

LEMMA Single ==
    \A i : /\ <<i>> # <<>> /\ <<i>>[1] = i /\ Tail(<<i>>) = <<>> /\ IsSeq(<<i>>)
           /\ IsSeq(<<>>) /\ Unmarked(<<>>) /\ Behind(<<>>) = <<>>
           /\ i # EndOfCall => Unmarked(<<i>>)
           /\ Out(<<i>>) <=> i.do = "return"
<1>1. Unmarked(<<>>) /\ Behind(<<>>) = <<>> /\ \A i : i # EndOfCall => Unmarked(<<i>>)
  BY UnmarkedLaws, BehindLaws
<1>2. \A i : IsSeq(<<i>>) /\ IsSeq(<<>>)
  BY SeqLaws
<1>3. \A i : <<i>> # <<>> /\ <<i>>[1] = i /\ Tail(<<i>>) = <<>>
  OBVIOUS
<1>4. \A i : Out(<<i>>) <=> i.do = "return"
  BY <1>1, <1>3 DEF Out
<1> QED BY <1>1, <1>2, <1>3, <1>4

\* A call that is no control structure.
LEMMA Acts ==
    \A V, A, i, B, R :
        /\ i.do \notin Controlling
        /\ \A v \in A \cap V : \A w \in Views : Moves(i, v, w) => w \in B /\ w \in V
        => Triple(V, A, <<i>>, B, R)
<1> SUFFICES ASSUME NEW V, NEW A, NEW i, NEW B, NEW R, i.do \notin Controlling,
                    \A v \in A \cap V : \A w \in Views : Moves(i, v, w) => w \in B /\ w \in V
             PROVE  Triple(V, A, <<i>>, B, R)
  OBVIOUS
<1> DEFINE p == <<i>>
<1>1. EndOfCall.do = "end of call" /\ EndOfTry.do = "end of try"
  BY DEF EndOfCall, EndOfTry
<1>2. i \notin {EndOfCall, EndOfTry}
  BY <1>1 DEF Controlling
<1>3. /\ p # <<>> /\ p[1] = i /\ Tail(p) = <<>> /\ IsSeq(p) /\ Unmarked(p) /\ ~Out(p)
  BY <1>2, Single DEF Controlling
<1>4. \A s : Sound(i, s)
  BY DEF Sound, Leads, Controlling
<1> HIDE DEF p
<1>5. ASSUME NEW v \in A \cap V PROVE Runs(V, B, R, p, v)
  <2>1. ASSUME NEW q, NEW w \in Views, Goes(p, v, q, w) PROVE Runs(V, B, R, q, w)
    <3>1. q = <<>> /\ Moves(i, v, w)
      BY <1>2, <1>3, <2>1 DEF Goes, Controlling
    <3> QED BY <3>1, AtEnd
  <2> QED BY <1>3, <1>4, <2>1, Ahead
<1> QED BY <1>3, <1>5 DEF Triple, p

LEMMA Skips == \A V, A, R : Triple(V, A, <<>>, A, R)
  BY AtEnd, SeqLaws, UnmarkedLaws DEF Triple

LEMMA Returns ==
    \A V, A, B, R : (\A v \in A \cap V : v \in R) => Triple(V, A, <<Return>>, B, R)
<1> SUFFICES ASSUME NEW V, NEW A, NEW B, NEW R, \A v \in A \cap V : v \in R
             PROVE  Triple(V, A, <<Return>>, B, R)
  OBVIOUS
<1> DEFINE p == <<Return>>
<1>1. Return.do = "return" /\ EndOfCall.do = "end of call"
  BY DEF Return, EndOfCall
<1>2. /\ p # <<>> /\ p[1] = Return /\ IsSeq(p) /\ Unmarked(p) /\ Out(p)
  BY <1>1, Single
<1>3. \A s : Sound(Return, s)
  BY <1>1 DEF Sound, Leads
<1> HIDE DEF p
<1>4. ASSUME NEW v \in A \cap V PROVE Runs(V, B, R, p, v)
  <2> DEFINE x == <<p, v>>
  <2>1. x[1] = p /\ x[2] = v
    OBVIOUS
  <2> HIDE DEF x
  <2>2. Steady({x}, V, B, R, x)
    BY <1>2, <1>3, <2>1 DEF Steady
  <2>3. \A y \in {x} : Steady({x}, V, B, R, y)
    BY <2>2
  <2>4. <<p, v>> \in {x}
    BY DEF x
  <2> QED BY <2>3, <2>4, UpTo
<1> QED BY <1>2, <1>4 DEF Triple, p

LEMMA Sequel ==
    \A V, A, M, B, R, p, q :
        Triple(V, A, p, M, R) /\ Triple(V, M, q, B, R) => Triple(V, A, p \o q, B, R)
<1> SUFFICES ASSUME NEW V, NEW A, NEW M, NEW B, NEW R, NEW p, NEW q,
                    Triple(V, A, p, M, R), Triple(V, M, q, B, R)
             PROVE  Triple(V, A, p \o q, B, R)
  OBVIOUS
<1>1. IsSeq(p) /\ Unmarked(p) /\ IsSeq(q) /\ Unmarked(q)
  BY DEF Triple
<1>2. IsSeq(p \o q) /\ Unmarked(p \o q)
  BY <1>1, SeqLaws, UnmarkedLaws
<1>3. ASSUME NEW v \in A, v \in V PROVE Runs(V, B, R, p \o q, v)
  <2>1. Runs(V, M, R, p, v) /\ \A m \in M : m \in V => Runs(V, B, R, q, m)
    BY <1>3 DEF Triple
  <2> QED BY <1>1, <2>1, RunsOn
<1> QED BY <1>2, <1>3 DEF Triple

LEMMA Weaker ==
    \A V, A, p, B, R, A1, B1, R1 :
        /\ Triple(V, A, p, B, R)
        /\ \A v \in V : (v \in A1 => v \in A) /\ (v \in B => v \in B1) /\ (v \in R => v \in R1)
        => Triple(V, A1, p, B1, R1)
<1> SUFFICES ASSUME NEW V, NEW A, NEW p, NEW B, NEW R, NEW A1, NEW B1, NEW R1,
                    Triple(V, A, p, B, R),
                    \A v \in V : /\ v \in A1 => v \in A
                                 /\ v \in B => v \in B1
                                 /\ v \in R => v \in R1
             PROVE  Triple(V, A1, p, B1, R1)
  OBVIOUS
<1>1. ASSUME NEW G, Closed(G, V, B, R) PROVE Closed(G, V, B1, R1)
  BY <1>1 DEF Closed
<1>2. \A v : Runs(V, B, R, p, v) => Runs(V, B1, R1, p, v)
  BY <1>1 DEF Runs
<1> QED BY <1>2 DEF Triple

\* A function ends, or it returns.
LEMMA Called == \A V, A, p, B, R : Triple(V, A, p, B, B) => Triple(V, A, <<Call(p)>>, B, R)
<1> SUFFICES ASSUME NEW V, NEW A, NEW p, NEW B, NEW R, Triple(V, A, p, B, B)
             PROVE  Triple(V, A, <<Call(p)>>, B, R)
  OBVIOUS
<1> DEFINE i == Call(p)
           q == <<EndOfCall>>
<1>1. i.do = "call" /\ i.of[1] = p /\ EndOfCall.do = "end of call" /\ EndOfTry.do = "end of try"
  BY DEF Call, EndOfCall, EndOfTry
<1>2. i \notin {EndOfCall, EndOfTry}
  BY <1>1
<1>3. /\ <<i>> # <<>> /\ <<i>>[1] = i /\ Tail(<<i>>) = <<>> /\ IsSeq(<<i>>)
      /\ Unmarked(<<i>>) /\ ~Out(<<i>>) /\ IsSeq(<<>>)
  BY <1>1, <1>2, Single
<1>4. /\ q # <<>> /\ q[1] = EndOfCall /\ Tail(q) = <<>> /\ IsSeq(q)
      /\ ~Unmarked(q) /\ ~Out(q) /\ Behind(q) = <<>>
  BY <1>1, Single, UnmarkedLaws, BehindLaws
<1>5. IsSeq(p)
  BY DEF Triple
<1>6. \A s : Sound(i, s)
  BY <1>1, <1>5 DEF Sound, Leads
<1>7. \A s : Sound(EndOfCall, s)
  BY <1>1 DEF Sound, Leads
<1>a. p \o q \o <<>> = p \o q
  BY <1>4, <1>5, SeqLaws
<1> HIDE DEF i, q
<1>8. ASSUME NEW v \in A, v \in V PROVE Runs(V, B, R, p \o q, v)
  <2>1. PICK G : Closed(G, V, B, B) /\ <<p, v>> \in G
    BY <1>8 DEF Triple, Runs
  <2> DEFINE T == {<<<<>>, m>> : m \in B \cap V}
             X == Behinds(G, q) \cup T
  <2>2. \A h \in T : h[1] = <<>> /\ h[2] \in B /\ h[2] \in V
    OBVIOUS
  <2>3. \A m \in B : m \in V => <<<<>>, m>> \in T
    OBVIOUS
  <2> HIDE DEF T
  <2>4. ASSUME NEW h \in Behinds(G, q), h[1] = q, h[2] \in B PROVE Steady(X, V, B, R, h)
    <3>1. h[2] \in V
      BY <1>4, <2>1, <2>4, Extended
    <3>2. ASSUME NEW x, NEW w, Goes(q, h[2], x, w) PROVE <<x, w>> \in X
      <4>1. x = <<>> /\ w = h[2]
        BY <1>1, <1>4, <3>2, Leaves DEF Goes, Controlling
      <4> QED BY <2>3, <2>4, <3>1, <4>1
    <3> HIDE DEF X
    <3> QED BY <1>4, <1>7, <2>4, <3>1, <3>2 DEF Steady, Follows
  <2>5. ASSUME NEW h \in Behinds(G, q), ~(h[1] = q /\ h[2] \in B) PROVE Steady(X, V, B, R, h)
    <3>1. /\ IsSeq(h[1]) /\ h[2] \in V
          /\ h[1] # <<>> /\ Sound(h[1][1], h[2].roclist)
          /\ Out(h[1]) => Unmarked(q)
          /\ \A x : \A w \in Views : Goes(h[1], h[2], x, w) =>
                <<x, w>> \in Behinds(G, q) \/ (h[2] \in B /\ x = Behind(q) /\ w = h[2])
      BY <1>4, <2>1, <2>5, Extended
    <3>2. ASSUME NEW x, NEW w \in Views, Goes(h[1], h[2], x, w) PROVE <<x, w>> \in X
      <4>1. CASE <<x, w>> \in Behinds(G, q)
        BY <4>1
      <4>2. CASE h[2] \in B /\ x = Behind(q) /\ w = h[2]
        BY <1>4, <2>3, <3>1, <4>2
      <4> QED BY <3>1, <3>2, <4>1, <4>2
    <3> HIDE DEF X
    <3> QED BY <1>4, <3>1, <3>2 DEF Steady, Follows
  <2>6. \A h \in T : Steady(X, V, B, R, h)
    BY <1>3, <2>2 DEF Steady
  <2>7. \A h \in X : Steady(X, V, B, R, h)
    BY <2>4, <2>5, <2>6
  <2>8. <<p \o q, v>> \in X
    <3>1. <<p, v>>[1] = p /\ <<p, v>>[2] = v
      OBVIOUS
    <3> QED BY <2>1, <3>1 DEF Behinds
  <2> HIDE DEF X
  <2> QED BY <2>7, <2>8, UpTo
<1>9. ASSUME NEW v \in A, v \in V PROVE Runs(V, B, R, <<i>>, v)
  <2>1. ASSUME NEW x, NEW w, Goes(<<i>>, v, x, w) PROVE x = p \o q /\ w = v
    <3>1. ~Moves(i, v, w)
      BY <1>1, Leaves DEF Controlling
    <3>2. x = i.of[1] \o <<EndOfCall>> \o <<>> /\ w = v
      BY <1>1, <1>2, <1>3, <2>1, <3>1 DEF Goes
    <3> QED BY <1>1, <1>a, <3>2 DEF q
  <2>2. Runs(V, B, R, p \o q, v)
    BY <1>8, <1>9
  <2> QED BY <1>3, <1>6, <1>9, <2>1, <2>2, Ahead
<1> QED BY <1>3, <1>9 DEF Triple, i

LEMMA Trying == \A V, A, p, B, R : Triple(V, A, p, B, R) => Triple(V, A, <<Try(p)>>, B, R)
<1> SUFFICES ASSUME NEW V, NEW A, NEW p, NEW B, NEW R, Triple(V, A, p, B, R)
             PROVE  Triple(V, A, <<Try(p)>>, B, R)
  OBVIOUS
<1> DEFINE i == Try(p)
           q == <<EndOfTry>>
<1>1. i.do = "try" /\ i.of[1] = p /\ EndOfCall.do = "end of call" /\ EndOfTry.do = "end of try"
  BY DEF Try, EndOfCall, EndOfTry
<1>2. i \notin {EndOfCall, EndOfTry} /\ EndOfTry # EndOfCall
  BY <1>1
<1>3. /\ <<i>> # <<>> /\ <<i>>[1] = i /\ Tail(<<i>>) = <<>> /\ IsSeq(<<i>>)
      /\ Unmarked(<<i>>) /\ ~Out(<<i>>) /\ IsSeq(<<>>)
  BY <1>1, <1>2, Single
<1>4. /\ q # <<>> /\ q[1] = EndOfTry /\ Tail(q) = <<>> /\ IsSeq(q) /\ Unmarked(q) /\ ~Out(q)
  BY <1>1, <1>2, Single
<1>5. IsSeq(p)
  BY DEF Triple
<1>6. \A s : Sound(i, s) /\ Sound(EndOfTry, s)
  BY <1>1, <1>5 DEF Sound, Leads
<1>a. p \o q \o <<>> = p \o q
  BY <1>4, <1>5, SeqLaws
<1> HIDE DEF i, q
<1>7. ASSUME NEW v \in B, v \in V PROVE Runs(V, B, R, q, v)
  <2>1. ASSUME NEW x, NEW w, Goes(q, v, x, w) PROVE x = <<>> /\ w = v
    BY <1>1, <1>2, <1>4, <2>1, Leaves DEF Goes, Controlling
  <2>2. Runs(V, B, R, <<>>, v)
    BY <1>7, AtEnd
  <2> QED BY <1>4, <1>6, <1>7, <2>1, <2>2, Ahead
<1>8. ASSUME NEW v \in A, v \in V PROVE Runs(V, B, R, p \o q, v)
  <2>1. Runs(V, B, R, p, v)
    BY <1>8 DEF Triple
  <2> QED BY <1>4, <1>7, <2>1, RunsOn
<1>9. ASSUME NEW v \in A, v \in V PROVE Runs(V, B, R, <<i>>, v)
  <2>1. ASSUME NEW x, NEW w, Goes(<<i>>, v, x, w) PROVE x = p \o q /\ w = v
    <3>1. ~Moves(i, v, w)
      BY <1>1, Leaves DEF Controlling
    <3>2. x = i.of[1] \o <<EndOfTry>> \o <<>> /\ w = v
      BY <1>1, <1>2, <1>3, <2>1, <3>1 DEF Goes
    <3> QED BY <1>1, <1>a, <3>2 DEF q
  <2>2. Runs(V, B, R, p \o q, v)
    BY <1>8, <1>9
  <2> QED BY <1>3, <1>6, <1>9, <2>1, <2>2, Ahead
<1> QED BY <1>3, <1>9 DEF Triple, i

LEMMA Chooses ==
    \A V, A, f, B, R :
        (\A k \in DOMAIN f : Triple(V, A, f[k], B, R)) => Triple(V, A, <<Either(f)>>, B, R)
<1> SUFFICES ASSUME NEW V, NEW A, NEW f, NEW B, NEW R,
                    \A k \in DOMAIN f : Triple(V, A, f[k], B, R)
             PROVE  Triple(V, A, <<Either(f)>>, B, R)
  OBVIOUS
<1> DEFINE i == Either(f)
<1>1. i.do = "either" /\ i.of = f /\ EndOfCall.do = "end of call" /\ EndOfTry.do = "end of try"
  BY DEF Either, EndOfCall, EndOfTry
<1>2. i \notin {EndOfCall, EndOfTry}
  BY <1>1
<1>3. /\ <<i>> # <<>> /\ <<i>>[1] = i /\ Tail(<<i>>) = <<>> /\ IsSeq(<<i>>)
      /\ Unmarked(<<i>>) /\ ~Out(<<i>>)
  BY <1>1, <1>2, Single
<1>4. \A k \in DOMAIN f : IsSeq(f[k]) /\ f[k] \o <<>> = f[k]
  BY SeqLaws DEF Triple
<1>5. \A s : Sound(i, s)
  BY <1>1, <1>4 DEF Sound, Leads
<1> HIDE DEF i
<1>6. ASSUME NEW v \in A, v \in V PROVE Runs(V, B, R, <<i>>, v)
  <2>1. ASSUME NEW x, NEW w, Goes(<<i>>, v, x, w) PROVE Runs(V, B, R, x, w)
    <3>1. ~Moves(i, v, w)
      BY <1>1, Leaves DEF Controlling
    <3>2. PICK k \in DOMAIN f : x = f[k] \o <<>> /\ w = v
      BY <1>1, <1>2, <1>3, <2>1, <3>1 DEF Goes
    <3> QED BY <1>4, <1>6, <3>2 DEF Triple
  <2> QED BY <1>3, <1>5, <1>6, <2>1, Ahead
<1> QED BY <1>3, <1>6 DEF Triple, i

LEMMA Repeats == \A V, A, p, R : Triple(V, A, p, A, R) => Triple(V, A, <<Again(p)>>, A, R)
<1> SUFFICES ASSUME NEW V, NEW A, NEW p, NEW R, Triple(V, A, p, A, R)
             PROVE  Triple(V, A, <<Again(p)>>, A, R)
  OBVIOUS
<1> DEFINE i == Again(p)
           q == <<i>>
           S == {<<q, v>> : v \in A \cap V}
           T == {<<<<>>, v>> : v \in A \cap V}
           X == S \cup T
<1>1. i.do = "again" /\ i.of[1] = p /\ EndOfCall.do = "end of call" /\ EndOfTry.do = "end of try"
  BY DEF Again, EndOfCall, EndOfTry
<1>2. i \notin {EndOfCall, EndOfTry}
  BY <1>1
<1>3. /\ q # <<>> /\ q[1] = i /\ Tail(q) = <<>> /\ IsSeq(q)
      /\ Unmarked(q) /\ ~Out(q) /\ IsSeq(<<>>)
  BY <1>1, <1>2, Single
<1>4. IsSeq(p)
  BY DEF Triple
<1>5. \A s : Sound(i, s)
  BY <1>1, <1>4 DEF Sound, Leads
<1> HIDE DEF i, q
<1>6. \A x \in S : x[1] = q /\ x[2] \in A /\ x[2] \in V
  OBVIOUS
<1>7. \A x \in T : x[1] = <<>> /\ x[2] \in A /\ x[2] \in V
  OBVIOUS
<1>8. \A v \in A \cap V : <<q, v>> \in X /\ <<<<>>, v>> \in X
  OBVIOUS
<1> HIDE DEF S, T
<1>9. ASSUME NEW x \in S PROVE Steady(X, V, A, R, x)
  <2>1. ASSUME NEW y, NEW w, Goes(q, x[2], y, w) PROVE Follows(X, V, A, R, y, w)
    <3>1. ~Moves(i, x[2], w)
      BY <1>1, Leaves DEF Controlling
    <3>2. y \in {p \o q, <<>>} /\ w = x[2]
      BY <1>1, <1>2, <1>3, <2>1, <3>1 DEF Goes
    <3>3. Runs(V, A, R, p, w)
      BY <1>6, <3>2 DEF Triple
    <3>4. CASE y = p \o q
      <4>1. \A m \in A \cap V : <<q, m>> \in X
        BY <1>8
      <4> HIDE DEF X
      <4> QED BY <1>3, <3>3, <3>4, <4>1 DEF Follows
    <3>5. CASE y = <<>>
      BY <1>6, <1>8, <3>2, <3>5 DEF Follows
    <3> QED BY <3>2, <3>4, <3>5
  <2> QED BY <1>3, <1>5, <1>6, <2>1 DEF Steady
<1>10. \A x \in T : Steady(X, V, A, R, x)
  BY <1>3, <1>7 DEF Steady
<1>11. \A x \in X : Steady(X, V, A, R, x)
  BY <1>9, <1>10
<1> HIDE DEF X
<1>12. \A v \in A \cap V : Runs(V, A, R, q, v)
  BY <1>8, <1>11, UpTo
<1> QED BY <1>3, <1>12 DEF Triple, q, i

\* One turn of a loop over the ROCs.
LEMMA Turn ==
    \A i, s, p : i.do = "each" /\ p \in Leads(i, s) =>
        p = i.of[i.roc] \/ p = <<[i EXCEPT !.roc = i.roc + 1]>>
  BY DEF Leads

ThisTurn(i, v) == IF i.all \/ i.roc \in v.roclist THEN i.of[i.roc] ELSE <<>>
MoreTurns(i) == IF i.roc = MaxRoc THEN <<>> ELSE <<[i EXCEPT !.roc = i.roc + 1]>>

LEMMA TurnGoes ==
    \A p, v, q, w : Goes(p, v, q, w) /\ p[1].do = "each" =>
        w = v /\ q = ThisTurn(p[1], v) \o MoreTurns(p[1]) \o Tail(p)
<1> SUFFICES ASSUME NEW p, NEW v, NEW q, NEW w, Goes(p, v, q, w), p[1].do = "each"
             PROVE  w = v /\ q = ThisTurn(p[1], v) \o MoreTurns(p[1]) \o Tail(p)
  OBVIOUS
<1>1. EndOfCall.do = "end of call" /\ EndOfTry.do = "end of try"
  BY DEF EndOfCall, EndOfTry
<1>2. p[1] \notin {EndOfCall, EndOfTry}
  BY <1>1
<1>3. ~Moves(p[1], v, w)
  BY Leaves DEF Controlling
<1> QED BY <1>2, <1>3 DEF Goes, ThisTurn, MoreTurns

\* A loop over the ROCs: I[r] holds before the turn of ROC r.
LEMMA Turns ==
    \A V, I, f, R : \A all \in BOOLEAN :
        (\A r \in Rocs :
            /\ Triple(V, {v \in I[r] : all \/ r \in v.roclist}, f[r], I[r + 1], R)
            /\ \A v \in I[r] \cap V : all \/ r \in v.roclist \/ v \in I[r + 1])
        => Triple(V, I[0], <<[do |-> "each", of |-> f, roc |-> 0, all |-> all]>>,
                  I[MaxRoc + 1], R)
<1> SUFFICES ASSUME NEW V, NEW I, NEW f, NEW R, NEW all \in BOOLEAN,
                    \A r \in Rocs :
                        /\ Triple(V, {v \in I[r] : all \/ r \in v.roclist}, f[r], I[r + 1], R)
                        /\ \A v \in I[r] \cap V : all \/ r \in v.roclist \/ v \in I[r + 1]
             PROVE  Triple(V, I[0], <<[do |-> "each", of |-> f, roc |-> 0, all |-> all]>>,
                           I[MaxRoc + 1], R)
  OBVIOUS
<1> DEFINE at(r) == [do |-> "each", of |-> f, roc |-> r, all |-> all]
           q(r) == <<at(r)>>
           B == I[MaxRoc + 1]
           S == UNION {{<<q(r), v>> : v \in I[r] \cap V} : r \in Rocs}
           T == {<<<<>>, v>> : v \in B \cap V}
           X == S \cup T
<1>1. /\ \A r : at(r).do = "each" /\ at(r).of = f /\ at(r).roc = r /\ at(r).all = all
      /\ \A r : [at(r) EXCEPT !.roc = r + 1] = at(r + 1)
      /\ EndOfCall.do = "end of call" /\ EndOfTry.do = "end of try"
  BY DEF EndOfCall, EndOfTry
<1>a. \A r : <<[at(r) EXCEPT !.roc = r + 1]>> = q(r + 1)
  OBVIOUS
<1> HIDE DEF at
<1>2. \A r : at(r) \notin {EndOfCall, EndOfTry}
  BY <1>1
<1>3. /\ \A r : /\ q(r) # <<>> /\ q(r)[1] = at(r) /\ Tail(q(r)) = <<>> /\ IsSeq(q(r))
                /\ Unmarked(q(r)) /\ ~Out(q(r))
      /\ IsSeq(<<>>) /\ Unmarked(<<>>)
  BY <1>1, <1>2, Single
<1>4. \A r \in Rocs : IsSeq(f[r])
  BY DEF Triple
<1>5. \A r \in Rocs : \A s : Sound(at(r), s)
  <2> SUFFICES ASSUME NEW r \in Rocs, NEW s, NEW p \in Leads(at(r), s) PROVE IsSeq(p)
    BY DEF Sound
  <2>1. p = f[r] \/ p = <<[at(r) EXCEPT !.roc = r + 1]>>
    BY <1>1, Turn
  <2>2. p = f[r] \/ p = q(r + 1)
    BY <1>a, <2>1
  <2> QED BY <1>3, <1>4, <2>2
<1> HIDE DEF q
<1>6. \A x \in S : \E r \in Rocs : x[1] = q(r) /\ x[2] \in I[r] /\ x[2] \in V
  OBVIOUS
<1>7. \A x \in T : x[1] = <<>> /\ x[2] \in B /\ x[2] \in V
  OBVIOUS
<1>8. /\ \A r \in Rocs : \A v \in I[r] \cap V : <<q(r), v>> \in X
      /\ \A v \in B \cap V : <<<<>>, v>> \in X
  OBVIOUS
<1> HIDE DEF S, T
<1>9. ASSUME NEW x \in S PROVE Steady(X, V, B, R, x)
  <2>1. PICK r \in Rocs : x[1] = q(r) /\ x[2] \in I[r] /\ x[2] \in V
    BY <1>6
  <2>2. ASSUME NEW y, NEW w, Goes(q(r), x[2], y, w) PROVE Follows(X, V, B, R, y, w)
    <3> DEFINE body == IF all \/ r \in w.roclist THEN f[r] ELSE <<>>
               more == IF r = MaxRoc THEN <<>> ELSE q(r + 1)
    <3>1. ThisTurn(at(r), x[2]) = (IF all \/ r \in x[2].roclist THEN f[r] ELSE <<>>)
          /\ MoreTurns(at(r)) = more
      BY <1>1, <1>a DEF ThisTurn, MoreTurns
    <3>a. w = x[2] /\ y = ThisTurn(at(r), x[2]) \o MoreTurns(at(r)) \o <<>>
      <4>1. q(r)[1].do = "each"
        BY <1>1, <1>3
      <4>2. w = x[2] /\ y = ThisTurn(q(r)[1], x[2]) \o MoreTurns(q(r)[1]) \o Tail(q(r))
        BY <2>2, <4>1, TurnGoes
      <4>3. q(r)[1] = at(r) /\ Tail(q(r)) = <<>>
        BY <1>3
      <4> QED BY <4>2, <4>3
    <3>2. y = body \o more \o <<>> /\ w = x[2]
      BY <3>1, <3>a
    <3>3. IsSeq(body) /\ IsSeq(more) /\ Unmarked(more)
      BY <1>3, <1>4
    <3>4. Runs(V, I[r + 1], R, body, w)
      <4>1. CASE all \/ r \in w.roclist
        BY <2>1, <3>2, <4>1 DEF Triple
      <4>2. CASE ~(all \/ r \in w.roclist)
        <5>1. w \in I[r + 1] /\ w \in V
          BY <2>1, <3>2, <4>2
        <5> QED BY <4>2, <5>1, AtEnd
      <4> QED BY <4>1, <4>2
    <3>5. \A m \in I[r + 1] \cap V : <<more, m>> \in X
      <4>1. r # MaxRoc => r + 1 \in Rocs
        BY CallsAssumption DEF Rocs
      <4> HIDE DEF X
      <4> QED BY <1>8, <4>1
    <3> HIDE DEF body, more, X
    <3>6. y = body \o more
      <4>1. IsSeq(body \o more)
        BY <3>3, SeqLaws
      <4> QED BY <3>2, <4>1, SeqLaws
    <3> QED BY <3>3, <3>4, <3>5, <3>6 DEF Follows
  <2> QED BY <1>3, <1>5, <2>1, <2>2 DEF Steady
<1>10. \A x \in T : Steady(X, V, B, R, x)
  BY <1>3, <1>7 DEF Steady
<1>11. \A x \in X : Steady(X, V, B, R, x)
  BY <1>9, <1>10
<1>12. 0 \in Rocs
  BY CallsAssumption DEF Rocs
<1> HIDE DEF X
<1>13. \A v \in I[0] \cap V : Runs(V, B, R, q(0), v)
  BY <1>8, <1>11, <1>12, UpTo
<1> QED BY <1>3, <1>13 DEF Triple, q, at

-----------------------------------------------------------------------------
\* The actions of Procedures move the program and the view as Goes says.

LEMMA ViewType == TypeOK => View \in Views
<1> SUFFICES ASSUME TypeOK PROVE View \in Views
  OBVIOUS
<1>1. Now \in Board
  BY NowType
<1>2. roclist \in Selections
  BY DEF TypeOK, Selections
<1> DEFINE safe == \A k \in 1 .. Len(line) : Biased(line[k])
<1>3. safe \in BOOLEAN
  OBVIOUS
<1> HIDE DEF safe
<1>4. View = [now |-> Now, safe |-> safe,
              unsent |-> unsent, dacval |-> dacval, phase |-> phase, timeout |-> timeout,
              roclist |-> roclist, kept |-> kept, started |-> started, read |-> read, live |-> live]
  BY DEF View, safe
<1> QED BY <1>1, <1>2, <1>3, <1>4 DEF TypeOK, Views

LEMMA GivenView == \A e : Given(View, e) = Value(e)
  BY DEF Given, View, Value

LEMMA ChangedView == \A i : Changed(View, i) = Effect(Now, i)
<1> SUFFICES ASSUME NEW i PROVE Changed(View, i) = Effect(Now, i)
  OBVIOUS
<1>1. View.now = Now /\ View.roclist = roclist /\ View.phase = phase
  BY DEF View
<1> QED BY <1>1, GivenView DEF Changed, Effect

\* The line of boards.
LEMMA LineFacts ==
    TypeOK => /\ Len(line) \in Nat \ {0} /\ line \in Seq(Board)
              /\ \A b : /\ Len(Append(line, b)) = Len(line) + 1
                        /\ Append(line, b)[Len(line) + 1] = b
                        /\ \A k \in 1 .. Len(line) : Append(line, b)[k] = line[k]
<1> SUFFICES ASSUME TypeOK, NEW b
             PROVE  /\ Len(line) \in Nat \ {0} /\ line \in Seq(Board)
                    /\ Len(Append(line, b)) = Len(line) + 1
                    /\ Append(line, b)[Len(line) + 1] = b
                    /\ \A k \in 1 .. Len(line) : Append(line, b)[k] = line[k]
  OBVIOUS
<1>1. line \in Seq(Board) /\ line # <<>>
  BY DEF TypeOK
<1>2. line \in Seq(Board \cup {b}) /\ b \in Board \cup {b}
  BY <1>1, SeqOfMore
<1> QED BY <1>1, <1>2, EmptySeq, AppendProperties

LEMMA RequestGoes == TypeOK /\ Request => Goes(todo, View, todo', View')
<1> SUFFICES ASSUME TypeOK, Request PROVE Goes(todo, View, todo', View')
  OBVIOUS
<1> DEFINE b == Effect(Now, Call1)
<1>1. /\ Call1.do \in Voids /\ line' = (IF b = Now THEN line ELSE Append(line, b))
      /\ unsent' = TRUE /\ todo' = Rest
      /\ started' = IF Call1.do = "Daq_Start" THEN started \cup {Call1.ch} ELSE started
      /\ UNCHANGED <<dacval, phase, timeout, roclist, kept, read, live>>
  BY DEF Request, host
<1>2. Changed(View, Call1) = b
  BY ChangedView
<1> HIDE DEF b
<1>3. Now' = b /\ ((\A k \in 1 .. Len(line) : Biased(line[k]))'
                     <=> (\A k \in 1 .. Len(line) : Biased(line[k])) /\ Biased(b))
  <2>1. CASE b = Now
    <3>1. line' = line /\ Len(line) \in 1 .. Len(line)
      BY <1>1, <2>1, LineFacts
    <3> QED BY <2>1, <3>1 DEF Now
  <2>2. CASE b # Now
    <3>1. /\ line' = Append(line, b) /\ Len(line') = Len(line) + 1 /\ Len(line) \in Nat
          /\ line'[Len(line) + 1] = b /\ \A k \in 1 .. Len(line) : line'[k] = line[k]
      BY <1>1, <2>2, LineFacts
    <3>2. 1 .. Len(line') = 1 .. Len(line) \cup {Len(line) + 1}
      BY <3>1
    <3> QED BY <3>1, <3>2 DEF Now
  <2> QED BY <2>1, <2>2
<1> DEFINE safe == \A k \in 1 .. Len(line) : Biased(line[k])
<1>4. Now' = b /\ safe' = (safe /\ Biased(b))
  BY <1>3
<1> HIDE DEF safe
<1>5. View = [now |-> Now, safe |-> safe,
              unsent |-> unsent, dacval |-> dacval, phase |-> phase, timeout |-> timeout,
              roclist |-> roclist, kept |-> kept, started |-> started, read |-> read, live |-> live]
  BY DEF View, safe
<1>6. View' = [now |-> Now', safe |-> safe', unsent |-> unsent', dacval |-> dacval',
               phase |-> phase', timeout |-> timeout', roclist |-> roclist', kept |-> kept',
               started |-> started', read |-> read', live |-> live']
  BY DEF View, safe
<1>7. /\ Same(View, View', {"now", "unsent", "safe", "started"})
      /\ View'.now = b /\ View'.unsent = TRUE /\ View'.safe = (View.safe /\ Biased(b))
      /\ View'.started = IF Call1.do = "Daq_Start" THEN View.started \cup {Call1.ch}
                         ELSE View.started
  BY <1>1, <1>4, <1>5, <1>6 DEF Same, Fields
<1>8. View'.now = Changed(View, Call1)
  BY <1>2, <1>7
<1>9. Moves(Call1, View, View')
  BY <1>1, <1>2, <1>7, <1>8 DEF Moves
<1> QED BY <1>1, <1>9 DEF Goes, Call1, Rest

\* Behind a barrier the line is the board b, and View is settled.
LEMMA BarrierView ==
    \A b : line' = <<b>> /\ unsent' = FALSE /\ UNCHANGED <<host, started>> =>
        /\ Settles(View, View', b, {"read", "live"})
        /\ View'.read = read' /\ View'.live = live'
        /\ View.now = Now /\ View.roclist = roclist /\ View.read = read /\ View.live = live
<1> SUFFICES ASSUME NEW b, line' = <<b>>, unsent' = FALSE, UNCHANGED <<host, started>>
             PROVE  /\ Settles(View, View', b, {"read", "live"})
                    /\ View'.read = read' /\ View'.live = live'
                    /\ View.now = Now /\ View.roclist = roclist
                    /\ View.read = read /\ View.live = live
  OBVIOUS
<1> DEFINE safe == \A k \in 1 .. Len(line) : Biased(line[k])
<1>1. Now' = b /\ safe' = Biased(b)
  <2>1. Len(line') = 1 /\ line'[1] = b
    OBVIOUS
  <2>2. 1 .. 1 = {1}
    OBVIOUS
  <2>3. Now' = b
    BY <2>1 DEF Now
  <2>4. safe' = \A k \in {1} : Biased(line'[k])
    BY <2>1, <2>2
  <2>5. Biased(line'[1]) = Biased(b)
    BY <2>1
  <2>6. Biased(b) \in BOOLEAN
    BY DEF Biased
  <2> QED BY <2>3, <2>4, <2>5, <2>6
<1> HIDE DEF safe
<1>2. /\ View = [now |-> Now, safe |-> safe, unsent |-> unsent, dacval |-> dacval,
                 phase |-> phase, timeout |-> timeout, roclist |-> roclist, kept |-> kept,
                 started |-> started, read |-> read, live |-> live]
      /\ View' = [now |-> Now', safe |-> safe', unsent |-> unsent', dacval |-> dacval',
                  phase |-> phase', timeout |-> timeout', roclist |-> roclist', kept |-> kept',
                  started |-> started', read |-> read', live |-> live']
  BY DEF View, safe
<1>3. UNCHANGED <<dacval, phase, timeout, roclist, kept>>
  BY DEF host
<1> QED BY <1>1, <1>2, <1>3 DEF Settles, Same, Fields

LEMMA SettlesQuietly ==
    \A v, w, b : Settles(v, w, b, {"read", "live"}) /\ w.read = v.read /\ w.live = v.live
        => Settles(v, w, b, {})
<1> SUFFICES ASSUME NEW v, NEW w, NEW b, Settles(v, w, b, {"read", "live"}),
                    w.read = v.read, w.live = v.live
             PROVE  Settles(v, w, b, {})
  OBVIOUS
<1>1. ASSUME NEW f \in Fields \ {"now", "unsent", "safe"} PROVE w[f] = v[f]
  <2>1. f \notin {"read", "live"} => w[f] = v[f]
    BY <1>1 DEF Settles, Same
  <2>2. f \in {"read", "live"} => w[f] = v[f]
    OBVIOUS
  <2> QED BY <2>1, <2>2
<1> QED BY <1>1 DEF Settles, Same

LEMMA FlushGoes == FlushAll => Goes(todo, View, todo', View')
<1> SUFFICES ASSUME FlushAll PROVE Goes(todo, View, todo', View')
  OBVIOUS
<1>1. /\ Call1.do = "flush" /\ todo' = Rest /\ line' = <<Now>> /\ unsent' = FALSE
      /\ UNCHANGED <<host, started>> /\ UNCHANGED <<read, live>>
  BY DEF FlushAll, Barrier, Doing
<1>2. Settles(View, View', View.now, {})
  BY <1>1, BarrierView, SettlesQuietly
<1> QED BY <1>1, <1>2 DEF Goes, Moves, Call1, Rest

LEMMA LoadGoes == LoadTrimTable => Goes(todo, View, todo', View')
<1> SUFFICES ASSUME LoadTrimTable PROVE Goes(todo, View, todo', View')
  OBVIOUS
<1> DEFINE b == [Now EXCEPT !.trims[Call1.roc] = Call1.same]
<1>1. /\ Call1.do = "SetTrimValues" /\ todo' = Rest /\ line' = <<b>> /\ unsent' = FALSE
      /\ UNCHANGED <<host, started>> /\ UNCHANGED <<read, live>>
  BY DEF LoadTrimTable, Barrier, Doing
<1>2. View.now = Now
  BY DEF View
<1>3. b = [View.now EXCEPT !.trims[Call1.roc] = Call1.same]
  BY <1>2
<1> HIDE DEF b
<1>4. Settles(View, View', b, {})
  BY <1>1, BarrierView, SettlesQuietly
<1> QED BY <1>1, <1>3, <1>4 DEF Goes, Moves, Call1, Rest

LEMMA OpenGoes == OpenMemory => Goes(todo, View, todo', View')
<1> SUFFICES ASSUME OpenMemory PROVE Goes(todo, View, todo', View')
  OBVIOUS
<1> DEFINE b == [Now EXCEPT !.open = @ \cup {Call1.ch}]
<1>1. /\ Call1.do = "Daq_Open" /\ todo' = Rest /\ line' = <<b>> /\ unsent' = FALSE
      /\ UNCHANGED <<host, started>> /\ UNCHANGED <<read, live>>
  BY DEF OpenMemory, Barrier, Doing
<1>2. View.now = Now
  BY DEF View
<1>3. b = [View.now EXCEPT !.open = @ \cup {Call1.ch}]
  BY <1>2
<1> HIDE DEF b
<1>4. Settles(View, View', b, {})
  BY <1>1, BarrierView, SettlesQuietly
<1> QED BY <1>1, <1>3, <1>4 DEF Goes, Moves, Call1, Rest

LEMMA ReadGoes == ReadChannel => Goes(todo, View, todo', View')
<1> SUFFICES ASSUME ReadChannel PROVE Goes(todo, View, todo', View')
  OBVIOUS
<1>1. /\ Call1.do = "Daq_Read" /\ todo' = Rest /\ line' = <<Now>> /\ unsent' = FALSE
      /\ UNCHANGED <<host, started>>
      /\ read' = read \cup {Call1.ch} /\ live' = (live \/ Now.loop = "on")
  BY DEF ReadChannel, Barrier, Doing
<1>2. /\ Settles(View, View', View.now, {"read", "live"})
      /\ View'.read = View.read \cup {Call1.ch}
      /\ View'.live = (View.live \/ View.now.loop = "on")
  BY <1>1, BarrierView
<1> QED BY <1>1, <1>2 DEF Goes, Moves, Call1, Rest

LEMMA LoopOneGoes == LoopOne => Goes(todo, View, todo', View')
<1> SUFFICES ASSUME LoopOne PROVE Goes(todo, View, todo', View')
  OBVIOUS
<1> DEFINE b == [Scanned(Now, {Call1.roc}, Call1.dacs) EXCEPT !.addr = Call1.roc]
<1>1. /\ Call1.do = "LoopSingleRoc" /\ todo' = Rest /\ line' = <<b>> /\ unsent' = FALSE
      /\ UNCHANGED <<host, started>> /\ UNCHANGED <<read, live>>
  BY DEF LoopOne, Barrier, Doing
<1>2. View.now = Now
  BY DEF View
<1>3. b = [Scanned(View.now, {Call1.roc}, Call1.dacs) EXCEPT !.addr = Call1.roc]
  BY <1>2
<1> HIDE DEF b
<1>4. Settles(View, View', b, {})
  BY <1>1, BarrierView, SettlesQuietly
<1> QED BY <1>1, <1>3, <1>4 DEF Goes, Moves, Call1, Rest

LEMMA LoopSelectedGoes == LoopSelected => Goes(todo, View, todo', View')
<1> SUFFICES ASSUME LoopSelected PROVE Goes(todo, View, todo', View')
  OBVIOUS
<1> DEFINE b(a) == [Scanned(Now, roclist, Call1.dacs) EXCEPT !.addr = a]
<1>0. PICK a \in roclist : Barrier(b(a))
  BY DEF LoopSelected
<1>1. /\ Call1.do = "LoopMultiRoc" /\ todo' = Rest /\ line' = <<b(a)>> /\ unsent' = FALSE
      /\ UNCHANGED <<host, started>> /\ UNCHANGED <<read, live>>
  BY <1>0 DEF LoopSelected, Barrier, Doing
<1>2. View.now = Now /\ View.roclist = roclist
  BY DEF View
<1>3. b(a) = [Scanned(View.now, View.roclist, Call1.dacs) EXCEPT !.addr = a]
  BY <1>2
<1> HIDE DEF b
<1>4. Settles(View, View', b(a), {})
  BY <1>1, BarrierView, SettlesQuietly
<1> QED BY <1>1, <1>2, <1>3, <1>4 DEF Goes, Moves, Call1, Rest

\* What the view is made of.
LEMMA ViewIs ==
    /\ View.now = Now /\ View.unsent = unsent /\ View.dacval = dacval /\ View.phase = phase
    /\ View.timeout = timeout /\ View.roclist = roclist /\ View.kept = kept
    /\ View.started = started /\ View.read = read /\ View.live = live
    /\ View'.now = Now' /\ View'.unsent = unsent' /\ View'.dacval = dacval'
    /\ View'.phase = phase' /\ View'.timeout = timeout' /\ View'.roclist = roclist'
    /\ View'.kept = kept' /\ View'.started = started' /\ View'.read = read'
    /\ View'.live = live'
    /\ UNCHANGED line => View'.now = View.now /\ View'.safe = View.safe
<1> DEFINE safe == \A k \in 1 .. Len(line) : Biased(line[k])
<1>1. UNCHANGED line => UNCHANGED Now /\ UNCHANGED safe
  BY DEF Now
<1> HIDE DEF safe
<1>2. View.safe = safe /\ View'.safe = safe'
  BY DEF View, safe
<1> QED BY <1>1, <1>2 DEF View

\* Assignments.
LEMMA AlsoView ==
    UNCHANGED <<line, unsent, started, read, live>> =>
        /\ UNCHANGED <<phase, timeout, roclist, kept>> => Same(View, View', {"dacval"})
        /\ UNCHANGED <<dacval, phase, timeout, roclist>> => Same(View, View', {"kept"})
        /\ UNCHANGED <<dacval, timeout, roclist, kept>> => Same(View, View', {"phase"})
        /\ UNCHANGED <<dacval, phase, roclist, kept>> => Same(View, View', {"timeout"})
        /\ UNCHANGED <<dacval, phase, timeout, kept>> => Same(View, View', {"roclist"})
  BY ViewIs DEF Same, Fields

LEMMA DacvalGoes == AssignDacval => Goes(todo, View, todo', View')
<1> SUFFICES ASSUME AssignDacval PROVE Goes(todo, View, todo', View')
  OBVIOUS
<1>1. /\ Call1.do = "dacval" /\ todo' = Rest
      /\ View'.dacval = [dacval EXCEPT ![Call1.roc][Call1.dac] = Value(Call1.val)]
      /\ UNCHANGED <<line, unsent, phase, timeout, roclist, kept, history>>
  BY DEF AssignDacval, Onward, Doing, View
<1>2. UNCHANGED <<started, read, live>>
  BY <1>1 DEF history
<1>3. Same(View, View', {"dacval"})
  BY <1>1, <1>2, AlsoView
<1>4. View.dacval = dacval /\ View.kept = kept
  BY DEF View
<1> QED BY <1>1, <1>3, <1>4, GivenView DEF Goes, Moves, Call1, Rest

LEMMA RememberGoes == Remember => Goes(todo, View, todo', View')
<1> SUFFICES ASSUME Remember PROVE Goes(todo, View, todo', View')
  OBVIOUS
<1>1. /\ Call1.do = "keep" /\ todo' = Rest
      /\ View'.kept = [kept EXCEPT ![Call1.name] = dacval[Call1.roc][Call1.dac]]
      /\ UNCHANGED <<line, unsent, dacval, phase, timeout, roclist, history>>
  BY DEF Remember, Onward, Doing, View
<1>2. UNCHANGED <<started, read, live>>
  BY <1>1 DEF history
<1>3. Same(View, View', {"kept"})
  BY <1>1, <1>2, AlsoView
<1>4. View.dacval = dacval /\ View.kept = kept
  BY DEF View
<1> QED BY <1>1, <1>3, <1>4, GivenView DEF Goes, Moves, Call1, Rest

LEMMA PhaseGoes == AssignPhase => Goes(todo, View, todo', View')
<1> SUFFICES ASSUME AssignPhase PROVE Goes(todo, View, todo', View')
  OBVIOUS
<1>1. /\ Call1.do = "phase" /\ todo' = Rest
      /\ View'.phase = Call1.val
      /\ UNCHANGED <<line, unsent, dacval, timeout, roclist, kept, history>>
  BY DEF AssignPhase, Onward, Doing, View
<1>2. UNCHANGED <<started, read, live>>
  BY <1>1 DEF history
<1>3. Same(View, View', {"phase"})
  BY <1>1, <1>2, AlsoView
<1>4. View.dacval = dacval /\ View.kept = kept
  BY DEF View
<1> QED BY <1>1, <1>3, <1>4, GivenView DEF Goes, Moves, Call1, Rest

LEMMA TimeoutGoes == AssignTimeout => Goes(todo, View, todo', View')
<1> SUFFICES ASSUME AssignTimeout PROVE Goes(todo, View, todo', View')
  OBVIOUS
<1>1. /\ Call1.do = "timeout" /\ todo' = Rest
      /\ View'.timeout = Call1.val
      /\ UNCHANGED <<line, unsent, dacval, phase, roclist, kept, history>>
  BY DEF AssignTimeout, Onward, Doing, View
<1>2. UNCHANGED <<started, read, live>>
  BY <1>1 DEF history
<1>3. Same(View, View', {"timeout"})
  BY <1>1, <1>2, AlsoView
<1>4. View.dacval = dacval /\ View.kept = kept
  BY DEF View
<1> QED BY <1>1, <1>3, <1>4, GivenView DEF Goes, Moves, Call1, Rest

LEMMA RoclistGoes == AssignRoclist => Goes(todo, View, todo', View')
<1> SUFFICES ASSUME AssignRoclist PROVE Goes(todo, View, todo', View')
  OBVIOUS
<1>1. /\ Call1.do = "select" /\ todo' = Rest
      /\ View'.roclist = Call1.of
      /\ UNCHANGED <<line, unsent, dacval, phase, timeout, kept, history>>
  BY DEF AssignRoclist, Onward, Doing, View
<1>2. UNCHANGED <<started, read, live>>
  BY <1>1 DEF history
<1>3. Same(View, View', {"roclist"})
  BY <1>1, <1>2, AlsoView
<1>4. View.dacval = dacval /\ View.kept = kept
  BY DEF View
<1> QED BY <1>1, <1>3, <1>4, GivenView DEF Goes, Moves, Call1, Rest

LEMMA ModtrmGoes == TypeOK /\ AssignModtrm => Goes(todo, View, todo', View')
<1> SUFFICES ASSUME TypeOK, AssignModtrm PROVE Goes(todo, View, todo', View')
  OBVIOUS
<1>1. /\ Call1.do = "modtrm" /\ todo' = Rest
      /\ line' = [k \in 1 .. Len(line) |-> [line[k] EXCEPT !.trims[Call1.roc] = FALSE]]
      /\ UNCHANGED <<unsent, dacval, phase, timeout, roclist, kept, started, read, live>>
  BY DEF AssignModtrm, Onward, Doing, host, history
<1>2. Len(line) \in Nat \ {0} /\ line \in Seq(Board)
  BY LineFacts
<1>3. Len(line') = Len(line) /\ \A k \in 1 .. Len(line) :
          line'[k] = [line[k] EXCEPT !.trims[Call1.roc] = FALSE]
  BY <1>1, <1>2
<1>4. Now' = [Now EXCEPT !.trims[Call1.roc] = FALSE]
  <2>1. Len(line) \in 1 .. Len(line)
    BY <1>2
  <2>2. line'[Len(line')] = line'[Len(line)]
    BY <1>3
  <2> QED BY <1>3, <2>1, <2>2 DEF Now
<1>5. ASSUME NEW k \in 1 .. Len(line) PROVE Biased(line'[k]) = Biased(line[k])
  <2>1. line[k] \in Board
    BY <1>2
  <2>2. line'[k].hv = line[k].hv /\ line'[k].lv = line[k].lv
    BY <1>3, <2>1 DEF Board
  <2> QED BY <2>2 DEF Biased
<1> DEFINE safe == \A k \in 1 .. Len(line) : Biased(line[k])
<1>6. UNCHANGED safe
  BY <1>3, <1>5
<1> HIDE DEF safe
<1>7. View.safe = safe /\ View'.safe = safe'
  BY DEF View, safe
<1>8. Same(View, View', {"now"})
  BY <1>1, <1>6, <1>7, ViewIs DEF Same, Fields
<1> QED BY <1>1, <1>4, <1>8, ViewIs DEF Goes, Moves, Call1, Rest

\* Control.
LEMMA UnfoldView == \A p : Unfold(p) => View' = View /\ todo' = p
<1> SUFFICES ASSUME NEW p, Unfold(p) PROVE View' = View /\ todo' = p
  OBVIOUS
<1>1. UNCHANGED <<line, unsent, host, history>> /\ todo' = p
  BY DEF Unfold
<1>2. UNCHANGED <<line, unsent, dacval, phase, timeout, roclist, kept, started, read, live>>
  BY <1>1 DEF host, history
<1> QED BY <1>1, <1>2 DEF View, Now

LEMMA ControlGoes ==
    Choose \/ Repeat \/ NextRoc \/ Enter \/ Leave \/ ReturnEarly
        => Goes(todo, View, todo', View')
<1>1. ASSUME Choose PROVE Goes(todo, View, todo', View')
  <2>1. PICK k \in DOMAIN Call1.of : Unfold(Call1.of[k] \o Rest)
    BY <1>1 DEF Choose
  <2>2. View' = View /\ todo' = Call1.of[k] \o Rest /\ Call1.do = "either"
    BY <1>1, <2>1, UnfoldView DEF Choose, Doing
  <2> QED BY <2>2 DEF Goes, Call1, Rest
<1>2. ASSUME Repeat PROVE Goes(todo, View, todo', View')
  <2>1. View' = View /\ todo' \in {Call1.of[1] \o todo, Rest} /\ Call1.do = "again"
    BY <1>2, UnfoldView DEF Repeat, Doing
  <2> QED BY <2>1 DEF Goes, Call1, Rest
<1>3. ASSUME NextRoc PROVE Goes(todo, View, todo', View')
  <2> DEFINE body == IF Call1.all \/ Call1.roc \in View.roclist
                     THEN Call1.of[Call1.roc] ELSE <<>>
             more == IF Call1.roc = MaxRoc THEN <<>>
                     ELSE <<[Call1 EXCEPT !.roc = Call1.roc + 1]>>
  <2>1. View.roclist = roclist
    BY ViewIs
  <2>2. Unfold(body \o more \o Rest) /\ Call1.do = "each"
    BY <1>3, <2>1 DEF NextRoc, Doing
  <2> HIDE DEF body, more
  <2>3. View' = View /\ todo' = body \o more \o Rest
    BY <2>2, UnfoldView
  <2> QED BY <2>2, <2>3 DEF Goes, Call1, Rest, body, more
<1>4. ASSUME Enter PROVE Goes(todo, View, todo', View')
  <2>1. CASE Doing("call") /\ Unfold(Call1.of[1] \o <<EndOfCall>> \o Rest)
    BY <2>1, UnfoldView DEF Doing, Goes, Call1, Rest
  <2>2. CASE Doing("try") /\ Unfold(Call1.of[1] \o <<EndOfTry>> \o Rest)
    BY <2>2, UnfoldView DEF Doing, Goes, Call1, Rest
  <2> QED BY <1>4, <2>1, <2>2 DEF Enter
<1>5. ASSUME Leave PROVE Goes(todo, View, todo', View')
  BY <1>5, UnfoldView DEF Leave, Goes, Call1, Rest
<1>6. ASSUME ReturnEarly PROVE Goes(todo, View, todo', View')
  BY <1>6, UnfoldView DEF ReturnEarly, Doing, Goes, Call1, Rest
<1> QED BY <1>1, <1>2, <1>3, <1>4, <1>5, <1>6

-----------------------------------------------------------------------------
\* So the program that is left runs on, step by step.

LEMMA StepGoes ==
    TypeOK /\ (\/ Request \/ FlushAll \/ LoadTrimTable \/ OpenMemory \/ ReadChannel \/ LoopOne
               \/ LoopSelected \/ AssignDacval \/ Remember \/ AssignModtrm \/ AssignPhase
               \/ AssignTimeout \/ AssignRoclist \/ Choose \/ Repeat \/ NextRoc \/ Enter
               \/ Leave \/ ReturnEarly)
        => /\ todo # <<>> /\ Goes(todo, View, todo', View')
           /\ UNCHANGED <<outcome, command, typed, throws>>
<1> SUFFICES ASSUME TypeOK,
                    \/ Request \/ FlushAll \/ LoadTrimTable \/ OpenMemory \/ ReadChannel \/ LoopOne
                    \/ LoopSelected \/ AssignDacval \/ Remember \/ AssignModtrm \/ AssignPhase
                    \/ AssignTimeout \/ AssignRoclist \/ Choose \/ Repeat \/ NextRoc \/ Enter
                    \/ Leave \/ ReturnEarly
             PROVE  /\ todo # <<>> /\ Goes(todo, View, todo', View')
                    /\ UNCHANGED <<outcome, command, typed, throws>>
  OBVIOUS
<1>1. Goes(todo, View, todo', View')
  BY RequestGoes, FlushGoes, LoadGoes, OpenGoes, ReadGoes, LoopOneGoes, LoopSelectedGoes,
     DacvalGoes, RememberGoes, ModtrmGoes, PhaseGoes, TimeoutGoes, RoclistGoes, ControlGoes
<1>2. todo # <<>> /\ UNCHANGED <<outcome, command, typed, throws>>
  <2>1. CASE Request \/ FlushAll \/ LoadTrimTable \/ OpenMemory \/ ReadChannel \/ LoopOne
             \/ LoopSelected
    BY <2>1 DEF Request, FlushAll, LoadTrimTable, OpenMemory, ReadChannel, LoopOne,
       LoopSelected, Doing, Barrier
  <2>2. CASE AssignDacval \/ Remember \/ AssignModtrm \/ AssignPhase \/ AssignTimeout
             \/ AssignRoclist
    BY <2>2 DEF AssignDacval, Remember, AssignModtrm, AssignPhase, AssignTimeout,
       AssignRoclist, Doing, Onward, history
  <2>3. CASE Choose \/ Repeat \/ NextRoc \/ Enter \/ Leave \/ ReturnEarly
    BY <2>3 DEF Choose, Repeat, NextRoc, Enter, Leave, ReturnEarly, Doing, Unfold, history
  <2> QED BY <2>1, <2>2, <2>3
<1> QED BY <1>1, <1>2

\* The end of a program, or its next step.
LEMMA RunsAStep ==
    \A V, B, p, v, q : \A w \in Views :
        Runs(V, B, B, p, v) /\ p # <<>> /\ Goes(p, v, q, w) => Runs(V, B, B, q, w)
<1> SUFFICES ASSUME NEW V, NEW B, NEW p, NEW v, NEW q, NEW w \in Views,
                    Runs(V, B, B, p, v), p # <<>>, Goes(p, v, q, w)
             PROVE  Runs(V, B, B, q, w)
  OBVIOUS
<1>1. PICK G : Closed(G, V, B, B) /\ <<p, v>> \in G
  BY DEF Runs
<1>2. <<p, v>>[1] = p /\ <<p, v>>[2] = v
  OBVIOUS
<1>3. /\ v \in V
      /\ Out(p) => v \in B
      /\ ~Out(p) => <<q, w>> \in G
  BY <1>1, <1>2 DEF Closed
<1>4. CASE ~Out(p)
  BY <1>1, <1>3, <1>4 DEF Runs
<1>5. CASE Out(p)
  <2>1. p[1].do = "return" /\ Unmarked(Tail(p))
    BY <1>5 DEF Out
  <2>2. ~Moves(p[1], v, w)
    BY <2>1, Leaves DEF Controlling
  <2>3. p[1] \notin {EndOfCall, EndOfTry}
    <3>1. EndOfCall.do = "end of call" /\ EndOfTry.do = "end of try"
      BY DEF EndOfCall, EndOfTry
    <3> QED BY <2>1, <3>1
  <2>4. w = v /\ q = Behind(Tail(p))
    BY <2>1, <2>2, <2>3 DEF Goes
  <2>5. q = <<>>
    BY <2>1, <2>4, BehindLaws
  <2> QED BY <1>3, <1>5, <2>4, <2>5, AtEnd
<1> QED BY <1>4, <1>5

LEMMA SameView ==
    UNCHANGED <<line, unsent, host, started, read, live>> => View' = View
<1> SUFFICES ASSUME UNCHANGED <<line, unsent, host, started, read, live>> PROVE View' = View
  OBVIOUS
<1>1. UNCHANGED <<dacval, phase, timeout, roclist, kept>>
  BY DEF host
<1> QED BY <1>1 DEF View, Now

LEMMA InitView == TypeOK /\ Init => View \in Beginning
<1> SUFFICES ASSUME TypeOK, Init PROVE View \in Beginning
  OBVIOUS
<1>1. View \in Views
  BY ViewType
<1>2. PICK a \in roclist : line = <<[Healthy EXCEPT !.addr = a]>>
  BY DEF Init
<1> DEFINE b == [Healthy EXCEPT !.addr = a]
<1>3. Now = b /\ \A k \in 1 .. Len(line) : line[k] = b
  BY <1>2 DEF Now
<1>4. Biased(b)
  BY DEF Biased, Healthy
<1> HIDE DEF b
<1>5. View.safe = TRUE
  BY <1>3, <1>4 DEF View
<1>6. View.now = b /\ View.roclist = roclist
  BY <1>3 DEF View
<1>7. /\ View.unsent = FALSE /\ View.dacval = Healthy.dac
      /\ View.phase = "tuned" /\ View.timeout = "long"
      /\ View.started = {} /\ View.read = {} /\ View.live = FALSE
  BY DEF View, Init
<1> QED BY <1>1, <1>5, <1>6, <1>7 DEF Beginning, b

LEMMA WayInit == \A C, V, B : TypeOK /\ Init => OnTheWay(C, V, B)
<1> SUFFICES ASSUME NEW C, NEW V, NEW B, TypeOK, Init PROVE OnTheWay(C, V, B)
  OBVIOUS
<1>1. View \in Beginning
  BY InitView
<1>2. todo = <<>> /\ command = "none" /\ outcome = "done" /\ typed = 0
  BY DEF Init
<1> QED BY <1>1, <1>2 DEF OnTheWay, Prompt

\* The invariant that the theorems below need: the rest of the program leads
\* from the present view to what was promised.
LEMMA WayNext ==
    \A C, V, B : Certain(C, V, B) /\ TypeOK /\ TypeOK' /\ OnTheWay(C, V, B) /\ [Next]_vars
        => OnTheWay(C, V, B)'
<1> SUFFICES ASSUME NEW C, NEW V, NEW B, Certain(C, V, B), TypeOK, TypeOK', OnTheWay(C, V, B), [Next]_vars
             PROVE  OnTheWay(C, V, B)'
  OBVIOUS
<1>1. View' \in Views
  <2>1. (TypeOK => View \in Views)'
    BY ViewType, PTL
  <2> QED BY <2>1
<1>2. typed \in Nat /\ throws \in Nat /\ MaxCommands \in Nat
  BY BoundsAssumption DEF TypeOK
<1>3. ASSUME todo # <<>>, Goes(todo, View, todo', View'), UNCHANGED <<outcome, command, typed, throws>>
      PROVE  OnTheWay(C, V, B)'
  <2>1. outcome # "done" /\ typed # 0
    BY <1>3 DEF OnTheWay, Prompt
  <2>2. outcome = "running" /\ command \in C => Runs(V[command], B[command], B[command], todo', View')
    BY <1>1, <1>3, RunsAStep DEF OnTheWay
  <2>3. command \in Commands
    BY <2>1 DEF OnTheWay
  <2> QED BY <1>3, <2>1, <2>2, <2>3 DEF OnTheWay, Commands
<1>4. CASE Request \/ FlushAll \/ LoadTrimTable \/ OpenMemory \/ ReadChannel \/ LoopOne
           \/ LoopSelected \/ AssignDacval \/ Remember \/ AssignModtrm \/ AssignPhase
           \/ AssignTimeout \/ AssignRoclist \/ Choose \/ Repeat \/ NextRoc \/ Enter
           \/ Leave \/ ReturnEarly
  BY <1>3, <1>4, StepGoes
<1>5. CASE Throw
  <2>1. throws' = throws + 1 /\ outcome' \in {"caught", "thrown"} /\ UNCHANGED typed
        /\ todo # <<>>
    BY <1>5 DEF Throw
  <2>2. typed # 0
    BY <2>1 DEF OnTheWay, Prompt
  <2>3. command \in Commands
    BY <2>2 DEF OnTheWay
  <2> QED BY <1>2, <1>5, <2>1, <2>2, <2>3 DEF OnTheWay, Commands, Throw
<1>6. CASE Finish
  <2>1. /\ todo = <<>> /\ outcome = "running" /\ outcome' = "done"
        /\ UNCHANGED <<todo, command, typed, throws>>
        /\ UNCHANGED <<line, unsent, host, started, read, live>>
    BY <1>6 DEF Finish, Prompt
  <2>2. View' = View
    BY <2>1, SameView
  <2>3. command \in C => View \in V[command] \cap B[command]
    BY <2>1, RunsFacts DEF OnTheWay
  <2>4. typed # 0
    BY <2>1 DEF OnTheWay
  <2> QED BY <2>1, <2>2, <2>3, <2>4 DEF OnTheWay, Prompt, Commands
<1>7. ASSUME NEW c \in Commands, Type(c) PROVE OnTheWay(C, V, B)'
  <2>1. /\ command' = c /\ outcome' = "running" /\ todo' = Procedure[c]
        /\ started' = {} /\ read' = {} /\ live' = FALSE /\ typed' = typed + 1
        /\ Allowed(c, roclist) /\ typed < MaxCommands
        /\ UNCHANGED <<line, unsent, host, throws>>
    BY <1>7 DEF Type, Allowed
  <2>2. View'.roclist = roclist
    BY <2>1 DEF View, host
  <2>3. View' \in Beginning \cup (IF MaxCommands > 1 THEN Anytime ELSE {})
    <3>1. CASE typed = 0
      <4>1. View \in Beginning
        BY <3>1 DEF OnTheWay
      <4>2. started = {} /\ read = {} /\ live = FALSE
        BY <4>1, ViewIs DEF Beginning
      <4>3. View' = View
        BY <2>1, <4>2, SameView
      <4> QED BY <4>1, <4>3
    <3>2. CASE typed # 0
      <4>1. MaxCommands > 1
        BY <1>2, <2>1, <3>2
      <4>2. View'.started = {} /\ View'.read = {} /\ View'.live = FALSE
        BY <2>1, ViewIs
      <4> QED BY <1>1, <4>1, <4>2 DEF Anytime
    <3> QED BY <3>1, <3>2
  <2>4. c \in C => Runs(V[c], B[c], B[c], Procedure[c], View')
    BY <2>1, <2>2, <2>3 DEF Certain
  <2> QED BY <1>2, <1>7, <2>1, <2>4 DEF OnTheWay, Commands
<1>8. CASE UNCHANGED vars
  <2>1. UNCHANGED <<todo, command, outcome, typed, throws>>
        /\ UNCHANGED <<line, unsent, host, started, read, live>>
    BY <1>8 DEF vars, history
  <2>2. View' = View
    BY <2>1, SameView
  <2> QED BY <2>1, <2>2 DEF OnTheWay, Prompt, Commands
<1> QED BY <1>4, <1>5, <1>6, <1>7, <1>8 DEF Next
\* What is granted to all the calls of a program is granted to the program: it
\* keeps A when each of the calls does.
LEMMA Footprint ==
    \A l, s, V, A, R, p :
        /\ Within(l, s, p)
        /\ \A v \in V : v.roclist \subseteq s
        /\ \A i : Fits(i) /\ Granted(l, i) /\ i.do \notin Controlling =>
              \A v \in A \cap V : \A w \in Views : Moves(i, v, w) => w \in A /\ w \in V
        /\ "return" \in l.does => \A v \in A \cap V : v \in R
        => Triple(V, A, p, A, R)
<1> SUFFICES ASSUME NEW l, NEW s, NEW V, NEW A, NEW R, NEW p,
                    Within(l, s, p), \A v \in V : v.roclist \subseteq s,
                    \A i : Fits(i) /\ Granted(l, i) /\ i.do \notin Controlling =>
                        \A v \in A \cap V : \A w \in Views : Moves(i, v, w) => w \in A /\ w \in V,
                    "return" \in l.does => \A v \in A \cap V : v \in R
             PROVE  Triple(V, A, p, A, R)
  OBVIOUS
<1>1. PICK S : Good(l, s, S) /\ p \in Seq(S)
  BY DEF Within
<1> DEFINE Ends == {EndOfCall, EndOfTry}
           T == S \cup Ends
           G == Seq(T) \X (A \cap V)
<1>2. EndOfCall.do = "end of call" /\ EndOfTry.do = "end of try"
  BY DEF EndOfCall, EndOfTry
<1>3. \A q \in Seq(S) : q \in Seq(T)
  BY SeqOfMore
<1>4. \A i \in T : \A v \in V : \A q \in Leads(i, v.roclist) : q \in Seq(T)
  <2> SUFFICES ASSUME NEW i \in T, NEW v \in V, NEW q \in Leads(i, v.roclist) PROVE q \in Seq(T)
    OBVIOUS
  <2>1. i \notin Ends
    BY EndsFit
  <2>2. Leads(i, v.roclist) \subseteq Leads(i, s)
    BY DEF Leads
  <2> QED BY <1>1, <1>3, <2>1, <2>2 DEF Good
<1>5. \A i \in T : i \in Ends \/ (Fits(i) /\ Granted(l, i))
  BY <1>1 DEF Good
<1>6. IsSeq(p) /\ Unmarked(p)
  <2>1. ASSUME NEW k \in 1 .. Len(p) PROVE p[k] # EndOfCall
    <3>1. p[k] \in S
      BY <1>1, ElementOfSeq
    <3>2. p[k].do # "end of call"
      BY <1>1, <3>1 DEF Good, Granted
    <3> QED BY <1>2, <3>2
  <2> QED BY <1>1, <2>1 DEF IsSeq, Unmarked
<1> HIDE DEF T
<1>7. ASSUME NEW q \in Seq(T), NEW v \in A \cap V, q # <<>>
      PROVE  /\ Sound(q[1], v.roclist)
             /\ Out(q) => v \in R
             /\ \A x : \A w \in Views : Goes(q, v, x, w) => x \in Seq(T) /\ w \in A \cap V
  <2> DEFINE i == q[1]
             rest == Tail(q)
  <2>1. i \in T /\ rest \in Seq(T)
    BY <1>7
  <2>2. Sound(i, v.roclist)
    BY <1>4, <2>1 DEF Sound, IsSeq
  <2>3. ASSUME Out(q) PROVE v \in R
    <3>1. i.do = "return"
      BY <2>3 DEF Out
    <3>2. i \notin Ends
      BY <1>2, <3>1
    <3>3. "return" \in l.does
      BY <1>5, <2>1, <3>1, <3>2 DEF Granted
    <3> QED BY <3>3
  <2>4. ASSUME NEW x, NEW w \in Views, Goes(q, v, x, w) PROVE x \in Seq(T) /\ w \in A \cap V
    <3> DEFINE more == IF i.roc = MaxRoc THEN <<>> ELSE <<[i EXCEPT !.roc = i.roc + 1]>>
    <3>1. \A a, b \in Seq(T) : a \o b \in Seq(T)
      BY ConcatProperties
    <3>2. <<EndOfCall>> \in Seq(T) /\ <<EndOfTry>> \in Seq(T) /\ <<>> \in Seq(T)
      BY DEF T
    <3>3. CASE x = rest /\ Moves(i, v, w)
      <4>1. i.do \notin Controlling
        BY <3>3, Leaves
      <4>2. i \notin Ends
        BY <1>2, <4>1 DEF Controlling
      <4> QED BY <1>5, <2>1, <3>3, <4>1, <4>2
    <3>4. ASSUME NEW k \in DOMAIN i.of, w = v, i.do = "either", x = i.of[k] \o rest
          PROVE  x \in Seq(T) /\ w \in A \cap V
      <4>1. i.of[k] \in Seq(T)
        BY <1>4, <2>1, <3>4 DEF Leads
      <4> QED BY <2>1, <3>1, <3>4, <4>1
    <3>5. CASE w = v /\ i.do = "again" /\ x \in {i.of[1] \o q, rest}
      <4>1. i.of[1] \in Seq(T)
        BY <1>4, <2>1, <3>5 DEF Leads
      <4> QED BY <2>1, <3>1, <3>5, <4>1
    <3>6. CASE /\ w = v /\ i.do = "each"
               /\ x = (IF i.all \/ i.roc \in v.roclist THEN i.of[i.roc] ELSE <<>>) \o more \o rest
      <4> DEFINE body == IF i.all \/ i.roc \in v.roclist THEN i.of[i.roc] ELSE <<>>
      <4>1. body \in Seq(T)
        BY <1>4, <2>1, <3>2, <3>6 DEF Leads
      <4>2. more \in Seq(T)
        BY <1>4, <2>1, <3>2, <3>6 DEF Leads
      <4>3. x = body \o more \o rest
        BY <3>6
      <4> HIDE DEF body, more
      <4>4. x \in Seq(T)
        BY <2>1, <3>1, <4>1, <4>2, <4>3
      <4> QED BY <3>6, <4>4
    <3>7. CASE w = v /\ i.do = "call" /\ x = i.of[1] \o <<EndOfCall>> \o rest
      <4>1. i.of[1] \in Seq(T)
        BY <1>4, <2>1, <3>7 DEF Leads
      <4> QED BY <2>1, <3>1, <3>2, <3>7, <4>1
    <3>8. CASE w = v /\ i.do = "try" /\ x = i.of[1] \o <<EndOfTry>> \o rest
      <4>1. i.of[1] \in Seq(T)
        BY <1>4, <2>1, <3>8 DEF Leads
      <4> QED BY <2>1, <3>1, <3>2, <3>8, <4>1
    <3>9. CASE w = v /\ i \in {EndOfCall, EndOfTry} /\ x = rest
      BY <2>1, <3>9
    <3>10. CASE w = v /\ i.do = "return" /\ x = Behind(rest)
      BY <2>1, <3>10, BehindType
    <3> QED BY <2>4, <3>3, <3>4, <3>5, <3>6, <3>7, <3>8, <3>9, <3>10 DEF Goes
  <2> QED BY <2>2, <2>3, <2>4
<1>8. Closed(G, V, A, R)
  <2> SUFFICES ASSUME NEW g \in G
               PROVE  /\ IsSeq(g[1]) /\ g[2] \in V
                      /\ g[1] = <<>> => g[2] \in A
                      /\ g[1] # <<>> =>
                           /\ Sound(g[1][1], g[2].roclist)
                           /\ Out(g[1]) => g[2] \in R
                           /\ ~Out(g[1]) =>
                                 \A q : \A w \in Views : Goes(g[1], g[2], q, w) => <<q, w>> \in G
    BY DEF Closed
  <2>1. g[1] \in Seq(T) /\ g[2] \in A \cap V
    OBVIOUS
  <2>2. \A q : \A w : q \in Seq(T) /\ w \in A \cap V => <<q, w>> \in G
    OBVIOUS
  <2>3. IsSeq(g[1])
    BY <2>1 DEF IsSeq
  <2> HIDE DEF G
  <2> QED BY <1>7, <2>1, <2>2, <2>3
<1>9. \A v \in A : v \in V => <<p, v>> \in G
  BY <1>1, <1>3
<1> HIDE DEF G
<1> QED BY <1>6, <1>8, <1>9 DEF Triple, Runs
-----------------------------------------------------------------------------
\* What a single call leaves alone.

\* A request on the board.
LEMMA ChangedParts ==
    \A v \in Views : \A i : Fits(i) /\ i.do \in Voids =>
        /\ Changed(v, i).trims = v.now.trims
        /\ \A part \in {"loop", "lv", "hv"} :
              Changed(v, i)[part] =
                  IF i.do = "switch" /\ i.part = part THEN i.to ELSE v.now[part]
<1> SUFFICES ASSUME NEW v \in Views, NEW i, Fits(i), i.do \in Voids
             PROVE  /\ Changed(v, i).trims = v.now.trims
                    /\ \A part \in {"loop", "lv", "hv"} :
                          Changed(v, i)[part] =
                              IF i.do = "switch" /\ i.part = part THEN i.to ELSE v.now[part]
  OBVIOUS
<1> DEFINE b == v.now
           c == Changed(v, i)
<1>1. b \in Board
  BY DEF Views
<1>2. \A x : /\ [b EXCEPT !.addr = x].trims = b.trims /\ [b EXCEPT !.addr = x].loop = b.loop
             /\ [b EXCEPT !.addr = x].lv = b.lv /\ [b EXCEPT !.addr = x].hv = b.hv
  BY <1>1 DEF Board
<1>3. \A x : /\ [b EXCEPT !.runs = x].trims = b.trims /\ [b EXCEPT !.runs = x].loop = b.loop
             /\ [b EXCEPT !.runs = x].lv = b.lv /\ [b EXCEPT !.runs = x].hv = b.hv
  BY <1>1 DEF Board
<1>4. \A x : /\ [b EXCEPT !.open = x].trims = b.trims /\ [b EXCEPT !.open = x].loop = b.loop
             /\ [b EXCEPT !.open = x].lv = b.lv /\ [b EXCEPT !.open = x].hv = b.hv
  BY <1>1 DEF Board
<1>5. \A x : /\ [b EXCEPT !.dac = x].trims = b.trims /\ [b EXCEPT !.dac = x].loop = b.loop
             /\ [b EXCEPT !.dac = x].lv = b.lv /\ [b EXCEPT !.dac = x].hv = b.hv
  BY <1>1 DEF Board
<1>6. \A x : /\ [b EXCEPT !.on = x].trims = b.trims /\ [b EXCEPT !.on = x].loop = b.loop
             /\ [b EXCEPT !.on = x].lv = b.lv /\ [b EXCEPT !.on = x].hv = b.hv
  BY <1>1 DEF Board
<1>12. ASSUME i.do # "switch",
              c.trims = b.trims /\ c.loop = b.loop /\ c.lv = b.lv /\ c.hv = b.hv
       PROVE  /\ c.trims = b.trims
              /\ \A part \in {"loop", "lv", "hv"} :
                    c[part] = IF i.do = "switch" /\ i.part = part THEN i.to ELSE b[part]
  <2> HIDE DEF c, b
  <2> QED BY <1>12
<1>7. CASE i.do \in {"roc_I2cAddr", "first"}
  <2>1. \E x : c = [b EXCEPT !.addr = x]
    BY <1>7 DEF Changed
  <2> HIDE DEF c
  <2>2. c.trims = b.trims /\ c.loop = b.loop /\ c.lv = b.lv /\ c.hv = b.hv
    BY <1>2, <2>1
  <2> QED BY <1>7, <1>12, <2>2 DEF c
<1>8. CASE i.do \in {"SetDAC", "pixels"}
  <2>1. c = b \/ (\E x : c = [b EXCEPT !.dac = x]) \/ (\E x : c = [b EXCEPT !.on = x])
    <3>1. b.lv \in {"on", "off"}
      BY <1>1 DEF Board
    <3>2. CASE b.lv = "off"
      BY <1>8, <3>2 DEF Changed
    <3>3. CASE b.lv = "on" /\ i.do = "SetDAC"
      BY <3>3 DEF Changed
    <3>4. CASE b.lv = "on" /\ i.do = "pixels"
      BY <3>4 DEF Changed
    <3> QED BY <1>8, <3>1, <3>2, <3>3, <3>4
  <2> HIDE DEF c
  <2>2. c.trims = b.trims /\ c.loop = b.loop /\ c.lv = b.lv /\ c.hv = b.hv
    BY ZenonT(40), <1>5, <1>6, <2>1
  <2> QED BY <1>8, <1>12, <2>2 DEF c
<1>9. CASE i.do \in {"Daq_Start", "Daq_Stop", "Daq_Close"}
  <2>1. (\E x : c = [b EXCEPT !.runs = x]) \/ (\E x : c = [b EXCEPT !.open = x])
    BY <1>9 DEF Changed
  <2> HIDE DEF c
  <2>2. c.trims = b.trims /\ c.loop = b.loop /\ c.lv = b.lv /\ c.hv = b.hv
    BY ZenonT(40), <1>3, <1>4, <2>1
  <2> QED BY <1>9, <1>12, <2>2 DEF c
<1>10. CASE i.do = "switch"
  <2>1. c = Supply(b, i.part, IF i.to = "phase" THEN v.phase ELSE i.to)
    BY <1>10 DEF Changed
  <2>2. i.part \in DOMAIN Positions /\ i.to \in Positions[i.part]
    BY <1>10 DEF Fits
  <2>3. i.part \in {"loop", "trigger", "delay", "lv", "hv"}
    BY <2>2 DEF Positions
  <2>4. i.part # "delay" => i.to # "phase"
    BY <2>2, <2>3 DEF Positions
  <2> DEFINE to == IF i.to = "phase" THEN v.phase ELSE i.to
  <2>5. CASE i.part = "lv" /\ to = "off"
    BY <1>1, <1>10, <2>1, <2>4, <2>5 DEF Supply, Board
  <2>6. CASE ~(i.part = "lv" /\ to = "off")
    <3>1. c = [b EXCEPT ![i.part] = to]
      BY <2>1, <2>6 DEF Supply
    <3> HIDE DEF c, to
    <3>2. \A f \in {"trims", "loop", "lv", "hv"} : c[f] = IF i.part = f THEN to ELSE b[f]
      BY <1>1, <2>3, <3>1 DEF Board
    <3> QED BY <1>10, <2>3, <2>4, <3>2 DEF c, to
  <2> QED BY <2>5, <2>6
<1>11. CASE i.do = "send"
  BY <1>11 DEF Changed
<1> QED BY <1>7, <1>8, <1>9, <1>10, <1>11 DEF Voids

\* Every other call sets no switch and answers with a board like this one.
LEMMA BoardParts ==
    \A b \in Board : \A c :
        (\/ c = b
         \/ \E x : c = [b EXCEPT !.open = x]
         \/ \E rs, ds, a : c = [Scanned(b, rs, ds) EXCEPT !.addr = a]
         \/ \E r \in Rocs : \E x : c = [b EXCEPT !.trims[r] = x])
        => c.loop = b.loop /\ c.lv = b.lv /\ c.hv = b.hv
<1> SUFFICES ASSUME NEW b \in Board, NEW c
             PROVE  (\/ c = b
                     \/ \E x : c = [b EXCEPT !.open = x]
                     \/ \E rs, ds, a : c = [Scanned(b, rs, ds) EXCEPT !.addr = a]
                     \/ \E r \in Rocs : \E x : c = [b EXCEPT !.trims[r] = x])
                    => c.loop = b.loop /\ c.lv = b.lv /\ c.hv = b.hv
  OBVIOUS
<1>1. ASSUME NEW x, c = [b EXCEPT !.open = x] PROVE c.loop = b.loop /\ c.lv = b.lv /\ c.hv = b.hv
  BY <1>1 DEF Board
<1>2. ASSUME NEW rs, NEW ds, NEW a, c = [Scanned(b, rs, ds) EXCEPT !.addr = a]
      PROVE  c.loop = b.loop /\ c.lv = b.lv /\ c.hv = b.hv
  <2>1. PICK f : Scanned(b, rs, ds) = [b EXCEPT !.dac = f]
    BY DEF Scanned
  <2>2. c = [[b EXCEPT !.dac = f] EXCEPT !.addr = a]
    BY <1>2, <2>1
  <2> QED BY <2>2 DEF Board
<1>3. ASSUME NEW r \in Rocs, NEW x, c = [b EXCEPT !.trims[r] = x]
      PROVE  c.loop = b.loop /\ c.lv = b.lv /\ c.hv = b.hv
  BY <1>3 DEF Board
<1> QED BY <1>1, <1>2, <1>3

\* The trigger loop and the supplies change by a switch only, and only an
\* unsafe one makes the board unsafe.
LEMMA MovesParts ==
    \A v, w \in Views : \A i : Fits(i) /\ Moves(i, v, w) =>
        /\ \A part \in {"loop", "lv", "hv"} :
              w.now[part] = IF i.do = "switch" /\ i.part = part THEN i.to ELSE v.now[part]
        /\ v.safe /\ Biased(w.now) => w.safe
        /\ w.roclist = IF i.do = "select" THEN i.of ELSE v.roclist
        /\ w.live = (v.live \/ (i.do = "Daq_Read" /\ v.now.loop = "on"))
<1> SUFFICES ASSUME NEW v \in Views, NEW w \in Views, NEW i, Fits(i), Moves(i, v, w)
             PROVE  /\ \A part \in {"loop", "lv", "hv"} :
                          w.now[part] = IF i.do = "switch" /\ i.part = part
                                        THEN i.to ELSE v.now[part]
                    /\ v.safe /\ Biased(w.now) => w.safe
                    /\ w.roclist = IF i.do = "select" THEN i.of ELSE v.roclist
                    /\ w.live = (v.live \/ (i.do = "Daq_Read" /\ v.now.loop = "on"))
  OBVIOUS
<1>1. v.now \in Board /\ v.safe \in BOOLEAN /\ v.live \in BOOLEAN
  BY DEF Views
<1> DEFINE Alike == w.now.loop = v.now.loop /\ w.now.lv = v.now.lv /\ w.now.hv = v.now.hv
<1>2. CASE i.do \in Voids
  <2>1. /\ w.now = Changed(v, i)
        /\ w.safe = (v.safe /\ Biased(w.now))
        /\ Same(v, w, {"now", "unsent", "safe", "started"})
    BY <1>2 DEF Moves, Voids
  <2>2. \A part \in {"loop", "lv", "hv"} :
            w.now[part] = IF i.do = "switch" /\ i.part = part THEN i.to ELSE v.now[part]
    <3> HIDE DEF Voids
    <3> QED BY <1>2, <2>1, ChangedParts
  <2>3. w.roclist = v.roclist /\ w.live = v.live
    BY <2>1 DEF Same, Fields
  <2> QED BY <1>1, <1>2, <2>1, <2>2, <2>3 DEF Voids
<1>3. CASE i.do \in {"flush", "SetTrimValues", "Daq_Open", "LoopSingleRoc", "LoopMultiRoc"}
  <2>1. PICK c : Settles(v, w, c, {})
    BY <1>3 DEF Moves, Voids
  <2>2. w.safe = Biased(w.now) /\ w.roclist = v.roclist /\ w.live = v.live
    BY <2>1 DEF Settles, Same, Fields
  <2>3. Alike
    <3>1. \/ w.now = v.now
          \/ \E x : w.now = [v.now EXCEPT !.open = x]
          \/ \E rs, ds, a : w.now = [Scanned(v.now, rs, ds) EXCEPT !.addr = a]
          \/ \E r \in Rocs : \E x : w.now = [v.now EXCEPT !.trims[r] = x]
      <4>1. CASE i.do = "flush"
        BY <4>1 DEF Moves, Voids, Settles
      <4>2. CASE i.do = "SetTrimValues"
        BY <4>2 DEF Moves, Voids, Settles, Fits
      <4>3. CASE i.do = "Daq_Open"
        BY <4>3 DEF Moves, Voids, Settles
      <4>4. CASE i.do = "LoopSingleRoc"
        <5>1. w.now = [Scanned(v.now, {i.roc}, i.dacs) EXCEPT !.addr = i.roc]
          BY <4>4 DEF Moves, Voids, Settles
        <5> QED BY <5>1
      <4>5. CASE i.do = "LoopMultiRoc"
        <5>1. \E a : w.now = [Scanned(v.now, v.roclist, i.dacs) EXCEPT !.addr = a]
          BY <4>5 DEF Moves, Voids, Settles
        <5> QED BY <5>1
      <4> QED BY <1>3, <4>1, <4>2, <4>3, <4>4, <4>5
    <3> QED BY <1>1, <3>1, BoardParts
  <2> QED BY <1>1, <1>3, <2>2, <2>3
<1>4. CASE i.do = "Daq_Read"
  <2>1. w.now = v.now /\ w.safe = Biased(w.now) /\ w.roclist = v.roclist
        /\ w.live = (v.live \/ v.now.loop = "on")
    BY <1>4 DEF Moves, Voids, Settles, Same, Fields
  <2> QED BY <1>4, <2>1
<1>5. CASE i.do = "modtrm"
  <2>1. Same(v, w, {"now"}) /\ i.roc \in Rocs /\ w.now = [v.now EXCEPT !.trims[i.roc] = FALSE]
    BY <1>5 DEF Moves, Voids, Fits
  <2>2. w.safe = v.safe /\ w.roclist = v.roclist /\ w.live = v.live
    BY <2>1 DEF Same, Fields
  <2>3. Alike
    BY <1>1, <2>1, BoardParts
  <2> QED BY <1>1, <1>5, <2>2, <2>3
<1>6. CASE i.do \in {"dacval", "keep", "phase", "timeout"}
  <2>1. \E f \in {"dacval", "kept", "phase", "timeout"} : Same(v, w, {f})
    BY <1>6 DEF Moves, Voids
  <2>2. w.now = v.now /\ w.safe = v.safe /\ w.roclist = v.roclist /\ w.live = v.live
    BY <2>1 DEF Same, Fields
  <2> QED BY <1>1, <1>6, <2>2
<1>7. CASE i.do = "select"
  <2>1. Same(v, w, {"roclist"}) /\ w.roclist = i.of
    BY <1>7 DEF Moves, Voids
  <2>2. w.now = v.now /\ w.safe = v.safe /\ w.live = v.live
    BY <2>1 DEF Same, Fields
  <2> QED BY <1>1, <1>7, <2>1, <2>2
<1>8. i.do \in Voids \cup {"flush", "SetTrimValues", "Daq_Open", "LoopSingleRoc", "LoopMultiRoc",
                           "Daq_Read", "modtrm", "dacval", "keep", "phase", "timeout", "select"}
  BY DEF Moves
<1> QED BY <1>2, <1>3, <1>4, <1>5, <1>6, <1>7, <1>8

-----------------------------------------------------------------------------
\* PoweredDown.

\* Nothing is switched or selected.
Passive == [copies |-> Rocs \X Dacs, does |-> {}, selects |-> {}, channels |-> Channels]
\* The supplies are so.
Supplied(lv, hv) == {v \in Views : v.now.lv = lv /\ v.now.hv = hv}
\* All ROCs are selected, and the sensor was never biased without power.
Protected == {v \in Views : v.safe /\ v.roclist = Rocs}
Dark == Supplied("off", "off")

\* One after the other, with the supplies as they are between them.
Powers(A, p, B) == Triple(Protected, A, p, B, Dark)

LEMMA PassiveMoves ==
    \A i : \A v \in Protected : \A w \in Views :
        Fits(i) /\ Granted(Passive, i) /\ Moves(i, v, w) =>
            w.now.lv = v.now.lv /\ w.now.hv = v.now.hv /\ w.roclist = Rocs
<1> SUFFICES ASSUME NEW i, NEW v \in Protected, NEW w \in Views,
                    Fits(i), Granted(Passive, i), Moves(i, v, w)
             PROVE  w.now.lv = v.now.lv /\ w.now.hv = v.now.hv /\ w.roclist = Rocs
  OBVIOUS
<1>1. v \in Views /\ v.roclist = Rocs
  BY DEF Protected
<1>2. i.do # "select" /\ ~(i.do = "switch" /\ i.part \in {"lv", "hv"})
  <2>1. Passive.does = {} /\ Passive.selects = {}
    BY DEF Passive
  <2>2. ASSUME i.do = "select" PROVE FALSE
    BY <2>1, <2>2 DEF Granted
  <2>3. ASSUME i.do = "switch", i.part \in {"lv", "hv"} PROVE FALSE
    BY <2>1, <2>3 DEF Granted
  <2> QED BY <2>2, <2>3
<1>3. \A part \in {"lv", "hv"} :
          w.now[part] = IF i.do = "switch" /\ i.part = part THEN i.to ELSE v.now[part]
  BY <1>1, MovesParts
<1>4. w.roclist = IF i.do = "select" THEN i.of ELSE v.roclist
  BY <1>1, MovesParts
<1> QED BY <1>1, <1>2, <1>3, <1>4

LEMMA PassiveKeeps ==
    \A lv, hv, p : (hv = "on" => lv = "on") /\ Within(Passive, Rocs, p)
        => Powers(Supplied(lv, hv), p, Supplied(lv, hv))
<1> SUFFICES ASSUME NEW lv, NEW hv, NEW p, hv = "on" => lv = "on", Within(Passive, Rocs, p)
             PROVE  Powers(Supplied(lv, hv), p, Supplied(lv, hv))
  OBVIOUS
<1> DEFINE A == Supplied(lv, hv)
<1>1. \A v \in Protected : v.roclist \subseteq Rocs
  BY DEF Protected
<1>2. ASSUME NEW i, Fits(i), Granted(Passive, i), NEW v \in A \cap Protected,
             NEW w \in Views, Moves(i, v, w)
      PROVE  w \in A /\ w \in Protected
  <2>1. w.now.lv = lv /\ w.now.hv = hv /\ w.roclist = Rocs
    BY <1>2, PassiveMoves DEF Supplied
  <2>2. v.safe /\ v \in Views
    BY DEF Protected
  <2>3. Biased(w.now)
    BY <2>1 DEF Biased
  <2>4. w.safe
    BY <1>2, <2>2, <2>3, MovesParts
  <2> QED BY <2>1, <2>4 DEF Supplied, Protected
<1>3. "return" \notin Passive.does
  BY DEF Passive
<1> HIDE DEF A
<1>4. Triple(Protected, A, p, A, Dark)
  BY <1>1, <1>2, <1>3, Footprint
<1> QED BY <1>4 DEF Powers, A

\* The four switches.
LEMMA Switched ==
    /\ Powers(Supplied("on", "off"), <<HVon>>, Supplied("on", "on"))
    /\ \A hv : Powers(Supplied("on", hv), <<HVoff>>, Supplied("on", "off"))
    /\ Powers(Supplied("on", "off"), <<Poff>>, Dark)
    /\ Powers(Supplied("on", "off"), <<Pon>>, Supplied("on", "off"))
<1>1. ASSUME NEW part \in {"lv", "hv"}, NEW to \in {"on", "off"}, NEW A \in SUBSET Views,
             NEW lv, NEW hv, hv = "on" => lv = "on",
             \A v \in A : /\ lv = IF part = "lv" THEN to ELSE v.now.lv
                          /\ hv = IF part = "hv" THEN to ELSE v.now.hv
      PROVE  Powers(A, <<Switch(part, to)>>, Supplied(lv, hv))
  <2> DEFINE i == Switch(part, to)
  <2>1. i.do = "switch" /\ i.part = part /\ i.to = to
    BY DEF Switch
  <2> HIDE DEF i
  <2>2. Fits(i) /\ i.do \notin Controlling
    BY <2>1 DEF Fits, Positions, Controlling
  <2>3. ASSUME NEW v \in A \cap Protected, NEW w \in Views, Moves(i, v, w)
        PROVE  w \in Supplied(lv, hv) /\ w \in Protected
    <3>1. v \in Views /\ v.safe /\ v.roclist = Rocs
      BY DEF Protected
    <3>2. \A p \in {"lv", "hv"} : w.now[p] = IF i.do = "switch" /\ i.part = p THEN i.to ELSE v.now[p]
      BY <2>2, <2>3, <3>1, MovesParts
    <3>3. w.now.lv = lv /\ w.now.hv = hv
      BY <1>1, <2>1, <3>2
    <3>4. w.safe
      <4>1. Biased(w.now)
        BY <1>1, <3>3 DEF Biased
      <4> QED BY <2>2, <2>3, <3>1, <4>1, MovesParts
    <3>5. w.roclist = Rocs
      BY <2>1, <2>2, <2>3, <3>1, MovesParts
    <3> QED BY <3>3, <3>4, <3>5 DEF Supplied, Protected
  <2> QED BY <2>2, <2>3, Acts DEF Powers, i
<1>2. \A lv, hv : Supplied(lv, hv) \in SUBSET Views
  BY DEF Supplied
<1>3. \A lv, hv : \A v \in Supplied(lv, hv) : v.now.lv = lv /\ v.now.hv = hv
  BY DEF Supplied
<1>4. Powers(Supplied("on", "off"), <<HVon>>, Supplied("on", "on"))
  BY <1>1, <1>2, <1>3 DEF HVon
<1>5. \A hv : Powers(Supplied("on", hv), <<HVoff>>, Supplied("on", "off"))
  BY <1>1, <1>2, <1>3 DEF HVoff
<1>6. Powers(Supplied("on", "off"), <<Poff>>, Dark)
  BY <1>1, <1>2, <1>3 DEF Poff, Dark
<1>7. Powers(Supplied("on", "off"), <<Pon>>, Supplied("on", "off"))
  BY <1>1, <1>2, <1>3 DEF Pon
<1> QED BY <1>4, <1>5, <1>6, <1>7

LEMMA PowersRules ==
    /\ \A A, M, B, p, q : Powers(A, p, M) /\ Powers(M, q, B) => Powers(A, p \o q, B)
    /\ \A A, B, p, q : Powers(A, p, B) /\ Powers(A, q, B) => Powers(A, <<Either(<<p, q>>)>>, B)
    /\ \A A : Powers(A, <<>>, A)
    /\ \A B : Powers(Dark, <<Return>>, B)
<1>1. \A A, M, B, p, q : Powers(A, p, M) /\ Powers(M, q, B) => Powers(A, p \o q, B)
  BY Sequel DEF Powers
<1>2. ASSUME NEW A, NEW B, NEW p, NEW q, Powers(A, p, B), Powers(A, q, B)
      PROVE  Powers(A, <<Either(<<p, q>>)>>, B)
  <2>1. \A k \in DOMAIN <<p, q>> : Triple(Protected, A, <<p, q>>[k], B, Dark)
    BY <1>2 DEF Powers
  <2> QED BY <2>1, Chooses DEF Powers
<1>3. \A A : Powers(A, <<>>, A)
  BY Skips DEF Powers
<1>4. \A B : Powers(Dark, <<Return>>, B)
  BY Returns DEF Powers
<1> QED BY <1>1, <1>2, <1>3, <1>4

\* What does not switch.
LEMMA PassivePieces ==
    LET Idle(p) == Within(Passive, Rocs, p) IN
    /\ Idle(CloseChannels) /\ Idle(mtCalDel)
    /\ \A p \in {setiamod, GetSdata, ModMap, DacScanMod("VthrComp")} : Idle(<<Call(p)>>)
    /\ Idle(<<Maybe(<<Call(GetSdata)>>)>>)
    /\ Idle(EachDAC(SetDACallROCs))
    /\ \A i \in {Flush, Send, Pg_Stop, Pg_Single, SetPhase("new"), Sig_SetDelay("new")} : Idle(<<i>>)
    /\ 4 \in Rocs => Idle(<<Maybe(<<roc_I2cAddr(0), Send, roc_I2cAddr(4)>>)>>)
    /\ Idle(ForChannels(LAMBDA ch : <<Daq_Open(ch), Daq_Stop(ch)>>))
    /\ Idle(<<EachRoc([r \in Rocs |-> <<roc_I2cAddr(r), roc_ClrCal, roc_Chip_Mask>>])>>)
<1> DEFINE l == Passive
<1>1. (\A r \in Rocs, d \in Dacs : May(l, r, d)) /\ Channels \subseteq l.channels
  BY DEF Passive, May
<1> HIDE DEF l
<1>2. Within(l, Rocs, CloseChannels) /\ Within(l, Rocs, mtCalDel)
  BY <1>1, LegalCloseChannels, LegalMtCalDel, Named
<1>3. \A p \in {setiamod, GetSdata, ModMap, DacScanMod("VthrComp")} : Within(l, Rocs, <<Call(p)>>)
  BY <1>1, LegalSetiamod, LegalGetSdata, LegalModMap, LegalDacScanMod, Named, One, Controls, Zero
<1>4. Within(l, Rocs, <<Maybe(<<Call(GetSdata)>>)>>)
  BY <1>3, One, Controls
<1>5. Within(l, Rocs, EachDAC(SetDACallROCs))
  <2>1. \A k \in 1 .. Len(DacOrder) : Legal(l, Rocs, Call(SetDACallROCs(DacOrder[k])))
    BY <1>1, LegalSetDACallROCs, Ordered, Controls
  <2> QED BY <2>1, EachDACLegal DEF EachDAC
<1>6. \A i \in {Flush, Send, Pg_Stop, Pg_Single, SetPhase("new"), Sig_SetDelay("new")} :
          Within(l, Rocs, <<i>>)
  BY One, Requests, Stated
<1>7. 4 \in Rocs => Within(l, Rocs, <<Maybe(<<roc_I2cAddr(0), Send, roc_I2cAddr(4)>>)>>)
  BY One, Three, Controls, Addressed, Requests, Zero
<1>8. Within(l, Rocs, ForChannels(LAMBDA ch : <<Daq_Open(ch), Daq_Stop(ch)>>))
  BY One, Two, NoCalls, Channeled, AllRounds DEF ForChannels
<1>9. Within(l, Rocs, <<EachRoc([r \in Rocs |-> <<roc_I2cAddr(r), roc_ClrCal, roc_Chip_Mask>>])>>)
  BY One, Three, Addressed, Requests, SelectedRounds
<1> QED BY <1>2, <1>3, <1>4, <1>5, <1>6, <1>7, <1>8, <1>9 DEF l

LEMMA Pairs == \A a, b : <<a, b>> = <<a>> \o <<b>>
<1> SUFFICES ASSUME NEW a, NEW b PROVE <<a, b>> = <<a>> \o <<b>>
  OBVIOUS
<1> DEFINE p == <<a>> \o <<b>>
           q == <<a, b>>
<1>1. Len(p) = 2 /\ p[1] = a /\ p[2] = b /\ p \in Seq({a, b})
  OBVIOUS
<1>2. Len(q) = 2 /\ q[1] = a /\ q[2] = b /\ q \in Seq({a, b})
  OBVIOUS
<1> HIDE DEF p, q
<1>3. p = q
  <2>1. \A k \in 1 .. Len(p) : p[k] = q[k]
    BY <1>1, <1>2
  <2> QED BY <1>1, <1>2, <2>1, SeqEqual
<1> QED BY <1>3 DEF p, q

LEMMA Apart ==
    /\ \A a, b : <<a, b>> = <<a>> \o <<b>>
    /\ \A a, b, c : <<a, b, c>> = <<a, b>> \o <<c>>
    /\ \A a, b, c, d : <<a, b, c, d>> = <<a, b, c>> \o <<d>>
    /\ \A a, b, c, d, e : <<a, b, c, d, e>> = <<a, b, c, d>> \o <<e>>
    /\ \A a, b, c, d, e, f : <<a, b, c, d, e, f>> = <<a, b, c, d, e>> \o <<f>>
    /\ \A a, b, c, d, e, f, g : <<a, b, c, d, e, f, g>> = <<a, b, c, d, e, f>> \o <<g>>
<1>1. \A a, b : <<a, b>> = <<a>> \o <<b>>
  BY Pairs
<1>2. \A a, b, c : <<a, b, c>> = <<a, b>> \o <<c>>
  OBVIOUS
<1>3. \A a, b, c, d : <<a, b, c, d>> = <<a, b, c>> \o <<d>>
  OBVIOUS
<1>4. \A a, b, c, d, e : <<a, b, c, d, e>> = <<a, b, c, d>> \o <<e>>
  OBVIOUS
<1>5. \A a, b, c, d, e, f : <<a, b, c, d, e, f>> = <<a, b, c, d, e>> \o <<f>>
  OBVIOUS
<1>6. \A a, b, c, d, e, f, g : <<a, b, c, d, e, f, g>> = <<a, b, c, d, e, f>> \o <<g>>
  OBVIOUS
<1> QED BY <1>1, <1>2, <1>3, <1>4, <1>5, <1>6

\* A tuple of calls, one after the other.
LEMMA Tuples ==
    \A V, R :
        /\ \A A, B, C, a, b :
              Triple(V, A, <<a>>, B, R) /\ Triple(V, B, <<b>>, C, R)
                => Triple(V, A, <<a, b>>, C, R)
        /\ \A A, B, C, a, b, c :
              Triple(V, A, <<a, b>>, B, R) /\ Triple(V, B, <<c>>, C, R)
                => Triple(V, A, <<a, b, c>>, C, R)
        /\ \A A, B, C, a, b, c, d :
              Triple(V, A, <<a, b, c>>, B, R) /\ Triple(V, B, <<d>>, C, R)
                => Triple(V, A, <<a, b, c, d>>, C, R)
        /\ \A A, B, C, a, b, c, d, e :
              Triple(V, A, <<a, b, c, d>>, B, R) /\ Triple(V, B, <<e>>, C, R)
                => Triple(V, A, <<a, b, c, d, e>>, C, R)
        /\ \A A, B, C, a, b, c, d, e, f :
              Triple(V, A, <<a, b, c, d, e>>, B, R) /\ Triple(V, B, <<f>>, C, R)
                => Triple(V, A, <<a, b, c, d, e, f>>, C, R)
        /\ \A A, B, C, a, b, c, d, e, f, g :
              Triple(V, A, <<a, b, c, d, e, f>>, B, R) /\ Triple(V, B, <<g>>, C, R)
                => Triple(V, A, <<a, b, c, d, e, f, g>>, C, R)
<1> TAKE V, R
<1>0. \A A, B, C, p, q, t : t = p \o q /\ Triple(V, A, p, B, R) /\ Triple(V, B, q, C, R)
          => Triple(V, A, t, C, R)
  BY Sequel
<1>1. ASSUME NEW A, NEW B, NEW C, NEW a, NEW b,
             Triple(V, A, <<a>>, B, R), Triple(V, B, <<b>>, C, R)
      PROVE  Triple(V, A, <<a, b>>, C, R)
  <2> DEFINE p == <<a>>
             q == <<b>>
             t == <<a, b>>
  <2>1. t = p \o q
    BY Apart
  <2>2. Triple(V, A, p, B, R) /\ Triple(V, B, q, C, R)
    BY <1>1
  <2> HIDE DEF p, q, t
  <2>3. Triple(V, A, t, C, R)
    BY <1>0, <2>1, <2>2
  <2> QED BY <2>3 DEF t
<1>2. ASSUME NEW A, NEW B, NEW C, NEW a, NEW b, NEW c,
             Triple(V, A, <<a, b>>, B, R), Triple(V, B, <<c>>, C, R)
      PROVE  Triple(V, A, <<a, b, c>>, C, R)
  <2> DEFINE p == <<a, b>>
             q == <<c>>
             t == <<a, b, c>>
  <2>1. t = p \o q
    BY Apart
  <2>2. Triple(V, A, p, B, R) /\ Triple(V, B, q, C, R)
    BY <1>2
  <2> HIDE DEF p, q, t
  <2>3. Triple(V, A, t, C, R)
    BY <1>0, <2>1, <2>2
  <2> QED BY <2>3 DEF t
<1>3. ASSUME NEW A, NEW B, NEW C, NEW a, NEW b, NEW c, NEW d,
             Triple(V, A, <<a, b, c>>, B, R), Triple(V, B, <<d>>, C, R)
      PROVE  Triple(V, A, <<a, b, c, d>>, C, R)
  <2> DEFINE p == <<a, b, c>>
             q == <<d>>
             t == <<a, b, c, d>>
  <2>1. t = p \o q
    BY Apart
  <2>2. Triple(V, A, p, B, R) /\ Triple(V, B, q, C, R)
    BY <1>3
  <2> HIDE DEF p, q, t
  <2>3. Triple(V, A, t, C, R)
    BY <1>0, <2>1, <2>2
  <2> QED BY <2>3 DEF t
<1>4. ASSUME NEW A, NEW B, NEW C, NEW a, NEW b, NEW c, NEW d, NEW e,
             Triple(V, A, <<a, b, c, d>>, B, R), Triple(V, B, <<e>>, C, R)
      PROVE  Triple(V, A, <<a, b, c, d, e>>, C, R)
  <2> DEFINE p == <<a, b, c, d>>
             q == <<e>>
             t == <<a, b, c, d, e>>
  <2>1. t = p \o q
    BY Apart
  <2>2. Triple(V, A, p, B, R) /\ Triple(V, B, q, C, R)
    BY <1>4
  <2> HIDE DEF p, q, t
  <2>3. Triple(V, A, t, C, R)
    BY <1>0, <2>1, <2>2
  <2> QED BY <2>3 DEF t
<1>5. ASSUME NEW A, NEW B, NEW C, NEW a, NEW b, NEW c, NEW d, NEW e, NEW f,
             Triple(V, A, <<a, b, c, d, e>>, B, R), Triple(V, B, <<f>>, C, R)
      PROVE  Triple(V, A, <<a, b, c, d, e, f>>, C, R)
  <2> DEFINE p == <<a, b, c, d, e>>
             q == <<f>>
             t == <<a, b, c, d, e, f>>
  <2>1. t = p \o q
    BY Apart
  <2>2. Triple(V, A, p, B, R) /\ Triple(V, B, q, C, R)
    BY <1>5
  <2> HIDE DEF p, q, t
  <2>3. Triple(V, A, t, C, R)
    BY <1>0, <2>1, <2>2
  <2> QED BY <2>3 DEF t
<1>6. ASSUME NEW A, NEW B, NEW C, NEW a, NEW b, NEW c, NEW d, NEW e, NEW f, NEW g,
             Triple(V, A, <<a, b, c, d, e, f>>, B, R), Triple(V, B, <<g>>, C, R)
      PROVE  Triple(V, A, <<a, b, c, d, e, f, g>>, C, R)
  <2> DEFINE p == <<a, b, c, d, e, f>>
             q == <<g>>
             t == <<a, b, c, d, e, f, g>>
  <2>1. t = p \o q
    BY Apart
  <2>2. Triple(V, A, p, B, R) /\ Triple(V, B, q, C, R)
    BY <1>6
  <2> HIDE DEF p, q, t
  <2>3. Triple(V, A, t, C, R)
    BY <1>0, <2>1, <2>2
  <2> QED BY <2>3 DEF t
<1> QED BY <1>1, <1>2, <1>3, <1>4, <1>5, <1>6

LEMMA PowersTuples ==
    /\ \A A, B, C, a, b :
          Powers(A, <<a>>, B) /\ Powers(B, <<b>>, C)
            => Powers(A, <<a, b>>, C)
    /\ \A A, B, C, a, b, c :
          Powers(A, <<a, b>>, B) /\ Powers(B, <<c>>, C)
            => Powers(A, <<a, b, c>>, C)
    /\ \A A, B, C, a, b, c, d :
          Powers(A, <<a, b, c>>, B) /\ Powers(B, <<d>>, C)
            => Powers(A, <<a, b, c, d>>, C)
    /\ \A A, B, C, a, b, c, d, e :
          Powers(A, <<a, b, c, d>>, B) /\ Powers(B, <<e>>, C)
            => Powers(A, <<a, b, c, d, e>>, C)
    /\ \A A, B, C, a, b, c, d, e, f :
          Powers(A, <<a, b, c, d, e>>, B) /\ Powers(B, <<f>>, C)
            => Powers(A, <<a, b, c, d, e, f>>, C)
    /\ \A A, B, C, a, b, c, d, e, f, g :
          Powers(A, <<a, b, c, d, e, f>>, B) /\ Powers(B, <<g>>, C)
            => Powers(A, <<a, b, c, d, e, f, g>>, C)
  BY Tuples DEF Powers

Unbiased == Supplied("on", "off")
AllOn == Supplied("on", "on")

\* What does not switch, in either state.
LEMMA IdlePowers ==
    \A p : Within(Passive, Rocs, p) =>
        Powers(Unbiased, p, Unbiased) /\ Powers(AllOn, p, AllOn) /\ Powers(Dark, p, Dark)
  BY PassiveKeeps DEF Unbiased, AllOn, Dark

LEMMA SwitchPowers ==
    /\ Powers(Unbiased, <<HVon>>, AllOn)
    /\ Powers(AllOn, <<HVoff>>, Unbiased) /\ Powers(Unbiased, <<HVoff>>, Unbiased)
    /\ Powers(Unbiased, <<Poff>>, Dark)
    /\ Powers(Unbiased, <<Pon>>, Unbiased)
  BY Switched DEF Unbiased, AllOn

LEMMA PowersPowerDown == Powers(AllOn, PowerDown, Dark)
<1>1. Powers(AllOn, CloseChannels, AllOn)
  BY IdlePowers, PassivePieces
<1>2. Powers(Unbiased, <<Flush>>, Unbiased) /\ Powers(Dark, <<Flush>>, Dark)
  BY IdlePowers, PassivePieces
<1>3. Powers(AllOn, <<HVoff, Flush, Poff, Flush>>, Dark)
  <2>1. Powers(AllOn, <<HVoff, Flush>>, Unbiased)
    BY <1>2, SwitchPowers, PowersTuples
  <2>2. Powers(AllOn, <<HVoff, Flush, Poff>>, Dark)
    BY <2>1, SwitchPowers, PowersTuples
  <2> QED BY <1>2, <2>2, PowersTuples
<1> QED BY <1>1, <1>3, PowersRules DEF PowerDown

\* Without a current the power is switched off again.
LEMMA PowersMtBoard == Powers(Unbiased, mtBoard, Unbiased)
<1> DEFINE none == <<Poff, Flush, Return>>
           more == IF 4 \in Rocs THEN <<Maybe(<<roc_I2cAddr(0), Send, roc_I2cAddr(4)>>)>> ELSE <<>>
<1>1. /\ Powers(Unbiased, <<Flush>>, Unbiased) /\ Powers(Unbiased, <<Send>>, Unbiased)
      /\ Powers(Unbiased, <<SetPhase("new")>>, Unbiased)
      /\ Powers(Unbiased, <<Sig_SetDelay("new")>>, Unbiased)
      /\ Powers(Dark, <<Flush>>, Dark)
  BY IdlePowers, PassivePieces
<1>2. Powers(Unbiased, none, Unbiased)
  <2>1. Powers(Unbiased, <<Poff, Flush>>, Dark)
    BY <1>1, SwitchPowers, PowersTuples
  <2>2. Powers(Dark, <<Return>>, Unbiased)
    BY PowersRules
  <2> QED BY <2>1, <2>2, PowersTuples
<1>3. Powers(Unbiased, <<Maybe(none)>>, Unbiased)
  BY <1>2, PowersRules DEF Maybe
<1> HIDE DEF none
<1>4. Powers(Unbiased, <<Flush, Sig_SetDelay("new"), SetPhase("new"), Pon, Flush, Ask, Maybe(none)>>,
             Unbiased)
  <2>1. Powers(Unbiased, <<Flush, Sig_SetDelay("new")>>, Unbiased)
    BY <1>1, PowersTuples
  <2>2. Powers(Unbiased, <<Flush, Sig_SetDelay("new"), SetPhase("new")>>, Unbiased)
    BY <1>1, <2>1, PowersTuples
  <2>3. Powers(Unbiased, <<Flush, Sig_SetDelay("new"), SetPhase("new"), Pon>>, Unbiased)
    BY <2>2, SwitchPowers, PowersTuples
  <2>4. Powers(Unbiased, <<Flush, Sig_SetDelay("new"), SetPhase("new"), Pon, Flush>>, Unbiased)
    BY <1>1, <2>3, PowersTuples
  <2>5. Powers(Unbiased, <<Flush, Sig_SetDelay("new"), SetPhase("new"), Pon, Flush, Ask>>, Unbiased)
    BY <1>1, <2>4, PowersTuples DEF Ask
  <2> QED BY <1>3, <2>5, PowersTuples
<1>5. Powers(Unbiased, more, Unbiased)
  BY IdlePowers, PassivePieces, PowersRules
<1>6. Powers(Unbiased, <<Send, Flush>>, Unbiased)
  BY <1>1, PowersTuples
<1> HIDE DEF more
<1>7. Powers(Unbiased, <<Flush, Sig_SetDelay("new"), SetPhase("new"), Pon, Flush, Ask, Maybe(none)>>
                       \o more \o <<Send, Flush>>, Unbiased)
  BY <1>4, <1>5, <1>6, PowersRules
<1> QED BY <1>7 DEF mtBoard, none, more

LEMMA PowersSelect == Powers(Unbiased, <<Select(Rocs)>>, Unbiased)
<1> DEFINE i == Select(Rocs)
<1>1. i.do = "select" /\ i.of = Rocs
  BY DEF Select
<1> HIDE DEF i
<1>2. Fits(i) /\ i.do \notin Controlling
  BY <1>1, Zero DEF Fits, Selections, Controlling
<1>3. ASSUME NEW v \in Unbiased \cap Protected, NEW w \in Views, Moves(i, v, w)
      PROVE  w \in Unbiased /\ w \in Protected
  <2>1. v \in Views /\ v.safe /\ v.now.lv = "on" /\ v.now.hv = "off"
    BY DEF Protected, Unbiased, Supplied
  <2>2. \A part \in {"lv", "hv"} : w.now[part] = v.now[part]
    BY <1>1, <1>2, <1>3, <2>1, MovesParts
  <2>3. w.roclist = Rocs
    BY <1>1, <1>2, <1>3, <2>1, MovesParts
  <2>4. w.safe
    <3>1. Biased(w.now)
      BY <2>1, <2>2 DEF Biased
    <3> QED BY <1>2, <1>3, <2>1, <3>1, MovesParts
  <2> QED BY <2>1, <2>2, <2>3, <2>4 DEF Unbiased, Supplied, Protected
<1> QED BY <1>2, <1>3, Acts DEF Powers, i

LEMMA PowersMtModule == Powers(Unbiased, mtModule, AllOn)
<1> DEFINE opens == ForChannels(LAMBDA ch : <<Daq_Open(ch), Daq_Stop(ch)>>)
           each == EachRoc([r \in Rocs |-> <<roc_I2cAddr(r), roc_ClrCal, roc_Chip_Mask>>])
           values == EachDAC(SetDACallROCs)
<1>1. /\ Powers(Unbiased, opens, Unbiased) /\ Powers(Unbiased, <<each>>, Unbiased)
      /\ Powers(Unbiased, values, Unbiased)
      /\ Powers(Unbiased, <<Flush>>, Unbiased) /\ Powers(AllOn, <<Flush>>, AllOn)
  BY IdlePowers, PassivePieces
<1> HIDE DEF opens, each, values
<1>2. Powers(Unbiased, <<Flush, each, Flush, HVon, Flush, Ask>>, AllOn)
  <2>1. Powers(Unbiased, <<Flush, each>>, Unbiased)
    BY <1>1, PowersTuples
  <2>2. Powers(Unbiased, <<Flush, each, Flush>>, Unbiased)
    BY <1>1, <2>1, PowersTuples
  <2>3. Powers(Unbiased, <<Flush, each, Flush, HVon>>, AllOn)
    BY <2>2, SwitchPowers, PowersTuples
  <2>4. Powers(Unbiased, <<Flush, each, Flush, HVon, Flush>>, AllOn)
    BY <1>1, <2>3, PowersTuples
  <2> QED BY <1>1, <2>4, PowersTuples DEF Ask
<1>3. Powers(Unbiased, opens \o <<Select(Rocs)>> \o values \o <<Flush, each, Flush, HVon, Flush, Ask>>,
             AllOn)
  BY <1>1, <1>2, PowersSelect, PowersRules
<1> QED BY <1>3 DEF mtModule, opens, each, values

LEMMA PowersMt == Powers(Unbiased, mt, Dark)
<1> DEFINE unless == <<Maybe(PowerDown \o <<Return>>)>>
           B1 == <<Call(setiamod)>> \o unless \o <<Ask>> \o unless
           B2 == <<Call(DacScanMod("VthrComp"))>>
           data == <<Call(GetSdata), Maybe(<<Call(GetSdata)>>)>>
           Bumps(b) == (IF b = 1 THEN B1 ELSE <<>>) \o data \o mtCalDel \o unless
                       \o <<Call(ModMap)>> \o (IF b = 1 THEN B2 ELSE <<>>)
<1>1. Powers(AllOn, unless, AllOn)
  <2>1. Powers(AllOn, PowerDown \o <<Return>>, AllOn)
    BY PowersPowerDown, PowersRules
  <2> QED BY <2>1, PowersRules DEF Maybe
<1> HIDE DEF unless
<1>2. /\ \A p \in {setiamod, GetSdata, ModMap, DacScanMod("VthrComp")} :
            Powers(AllOn, <<Call(p)>>, AllOn)
      /\ Powers(AllOn, <<Maybe(<<Call(GetSdata)>>)>>, AllOn)
      /\ Powers(AllOn, mtCalDel, AllOn) /\ Powers(AllOn, <<Flush>>, AllOn)
      /\ Powers(AllOn, <<Pg_Stop>>, AllOn) /\ Powers(AllOn, <<Pg_Single>>, AllOn)
      /\ Powers(Unbiased, CloseChannels, Unbiased)
      /\ Powers(Unbiased, <<Flush>>, Unbiased) /\ Powers(Dark, <<Flush>>, Dark)
  BY IdlePowers, PassivePieces
<1>3. Powers(AllOn, B1, AllOn)
  BY <1>1, <1>2, PowersRules DEF Ask
<1>4. Powers(AllOn, B2, AllOn)
  BY <1>2
<1>5. Powers(AllOn, data, AllOn)
  BY <1>2, PowersTuples
<1> HIDE DEF B1, B2, data
<1>6. \A b \in 1 .. 2 : Powers(AllOn, Bumps(b), AllOn)
  BY <1>1, <1>2, <1>3, <1>4, <1>5, PowersRules
<1> HIDE DEF Bumps
<1>7. Powers(AllOn, <<Either([b \in 1 .. 2 |-> Bumps(b)])>>, AllOn)
  <2>1. \A k \in DOMAIN [b \in 1 .. 2 |-> Bumps(b)] :
            Triple(Protected, AllOn, [b \in 1 .. 2 |-> Bumps(b)][k], AllOn, Dark)
    BY <1>6 DEF Powers
  <2> QED BY <2>1, Chooses DEF Powers
<1>8. Powers(AllOn, <<Pg_Stop, Pg_Single, Flush>>, AllOn)
  BY <1>2, PowersTuples
<1>9. Powers(AllOn, <<HVoff, Flush>>, Unbiased) /\ Powers(Unbiased, <<Poff, Flush>>, Dark)
  BY <1>2, SwitchPowers, PowersTuples
<1>10. Powers(Unbiased, mtBoard \o mtModule \o unless \o <<Pg_Stop, Pg_Single, Flush>>
                        \o <<Either([b \in 1 .. 2 |-> Bumps(b)])>>
                        \o <<HVoff, Flush>> \o CloseChannels \o <<Poff, Flush>>, Dark)
  <2>1. Powers(Unbiased, mtBoard \o mtModule, AllOn)
    BY PowersMtBoard, PowersMtModule, PowersRules
  <2> QED BY <1>1, <1>2, <1>7, <1>8, <1>9, <2>1, PowersRules
<1> QED BY <1>10 DEF mt, Bumps, B1, B2, data, unless

\* PoweredDown: the module test of cmd.cpp, typed on a board that is set up,
\* never biases a sensor whose chips have no power, and whichever way it ends,
\* after all tests, at a current that is not there or at the first chip that
\* fails, it leaves both supplies off.  What an exception leaves is not said:
\* MaxThrows is 0.
THEOREM PowersOff == TheTable /\ MaxCommands = 1 /\ MaxThrows = 0 /\ Spec => []PoweredDown
<1> DEFINE C == {"mt"}
           V == [c \in C |-> Protected]
           B == [c \in C |-> Dark]
<1>1. ASSUME TheTable, MaxCommands = 1 PROVE Certain(C, V, B)
  <2>1. Procedure["mt"] = mt
    BY SMTT(30), <1>1 DEF TheTable, TheProcedure, TheTests, SetUp, OneRoc, SelectedRocs, AllRocs
  <2>2. "mt" \in ForAllRocs
    BY <1>1 DEF TheTable, TheForAllRocs, AllRocs
  <2>3. ASSUME NEW v \in Beginning, Allowed("mt", v.roclist) PROVE v \in Unbiased /\ v \in Protected
    <3>1. v \in Views /\ v.safe = TRUE /\ v.roclist = Rocs
      BY <2>2, <2>3 DEF Beginning, Allowed
    <3>2. v.now.lv = "on" /\ v.now.hv = "off"
      BY DEF Beginning, Healthy
    <3> QED BY <3>1, <3>2 DEF Unbiased, Supplied, Protected
  <2>4. \A v \in Beginning : Allowed("mt", v.roclist) => Runs(Protected, Dark, Dark, mt, v)
    BY <2>3, PowersMt DEF Powers, Triple
  <2> QED BY <1>1, <2>1, <2>4 DEF Certain
<1> HIDE DEF V, B
<1>2. ASSUME MaxThrows = 0, TypeOK, OnTheWay(C, V, B), TheTable PROVE PoweredDown
  <2> SUFFICES ASSUME command \in PoweringDown PROVE PoweredDown
    BY DEF PoweredDown
  <2>1. command = "mt"
    BY <1>2 DEF TheTable
  <2>2. outcome \in {"running", "done"}
    BY <1>2 DEF OnTheWay, TypeOK
  <2>3. V[command] = Protected /\ B[command] = Dark
    BY <2>1 DEF V, B
  <2>4. View \in Protected
    BY <1>2, <2>1, <2>2, <2>3, RunsFacts DEF OnTheWay
  <2>5. \A k \in 1 .. Len(line) : Biased(line[k])
    <3> DEFINE safe == \A k \in 1 .. Len(line) : Biased(line[k])
    <3> HIDE DEF safe
    <3>1. View.safe = safe
      BY DEF View, safe
    <3>2. safe
      BY <2>4, <3>1 DEF Protected
    <3> QED BY <3>2 DEF safe
  <2>6. Done => Now.lv = "off" /\ Now.hv = "off"
    <3>1. Done => View \in Dark
      BY <1>2, <2>1, <2>3 DEF OnTheWay, Done
    <3> QED BY <3>1, ViewIs DEF Dark, Supplied
  <2> QED BY <2>5, <2>6 DEF PoweredDown, Biased
<1>3. ASSUME TheTable, MaxCommands = 1, MaxThrows = 0 PROVE Spec => []PoweredDown
  <2>1. Spec => []TypeOK
    BY <1>3, CommandsTyped
  <2>2. TypeOK /\ Init => OnTheWay(C, V, B)
    BY WayInit
  <2>3. TypeOK /\ TypeOK' /\ OnTheWay(C, V, B) /\ [Next]_vars => OnTheWay(C, V, B)'
    BY <1>1, <1>3, WayNext
  <2>4. TypeOK /\ OnTheWay(C, V, B) => PoweredDown
    BY <1>2, <1>3
  <2> QED BY <2>1, <2>2, <2>3, <2>4, PTL DEF Spec
<1> QED BY <1>3

-----------------------------------------------------------------------------
\* TrimsLoaded.

\* The trims in the FPGA change by a call that loads or changes them.
LEMMA MovesTrims ==
    \A v, w \in Views : \A i : Fits(i) /\ Moves(i, v, w) =>
        \A r \in Rocs :
            /\ i.do \notin {"SetTrimValues", "modtrm"} \/ i.roc # r =>
                  w.now.trims[r] = v.now.trims[r]
            /\ i.do = "SetTrimValues" /\ i.roc = r => w.now.trims[r] = i.same
<1> SUFFICES ASSUME NEW v \in Views, NEW w \in Views, NEW i, Fits(i), Moves(i, v, w), NEW r \in Rocs
             PROVE  /\ i.do \notin {"SetTrimValues", "modtrm"} \/ i.roc # r =>
                          w.now.trims[r] = v.now.trims[r]
                    /\ i.do = "SetTrimValues" /\ i.roc = r => w.now.trims[r] = i.same
  OBVIOUS
<1>1. v.now \in Board /\ v.now.trims \in [Rocs -> BOOLEAN]
  BY DEF Views, Board
<1>2. ASSUME i.do \notin {"SetTrimValues", "modtrm"}, w.now.trims = v.now.trims
      PROVE  /\ i.do \notin {"SetTrimValues", "modtrm"} \/ i.roc # r =>
                   w.now.trims[r] = v.now.trims[r]
             /\ i.do = "SetTrimValues" /\ i.roc = r => w.now.trims[r] = i.same
  BY <1>2
<1>3. CASE i.do \in Voids
  <2>1. w.now = Changed(v, i)
    BY <1>3 DEF Moves, Voids
  <2>2. w.now.trims = v.now.trims
    BY <1>3, <2>1, ChangedParts
  <2> QED BY <1>2, <1>3, <2>2 DEF Voids
<1>4. CASE i.do \in {"flush", "Daq_Read"}
  <2>1. w.now = v.now
    BY <1>4 DEF Moves, Voids, Settles
  <2> QED BY <1>2, <1>4, <2>1
<1>5. CASE i.do = "Daq_Open"
  <2>1. w.now = [v.now EXCEPT !.open = @ \cup {i.ch}]
    BY <1>5 DEF Moves, Voids, Settles
  <2>2. w.now.trims = v.now.trims
    BY <1>1, <2>1 DEF Board
  <2> QED BY <1>2, <1>5, <2>2
<1>6. CASE i.do \in {"LoopSingleRoc", "LoopMultiRoc"}
  <2>1. \E a, rs : w.now = [Scanned(v.now, rs, i.dacs) EXCEPT !.addr = a]
    <3>1. CASE i.do = "LoopSingleRoc"
      <4>1. w.now = [Scanned(v.now, {i.roc}, i.dacs) EXCEPT !.addr = i.roc]
        BY <3>1 DEF Moves, Voids, Settles
      <4> QED BY <4>1
    <3>2. CASE i.do = "LoopMultiRoc"
      <4>1. \E a : w.now = [Scanned(v.now, v.roclist, i.dacs) EXCEPT !.addr = a]
        BY <3>2 DEF Moves, Voids, Settles
      <4> QED BY <4>1
    <3> QED BY <1>6, <3>1, <3>2
  <2>2. PICK f, a : w.now = [[v.now EXCEPT !.dac = f] EXCEPT !.addr = a]
    BY <2>1 DEF Scanned
  <2>3. w.now.trims = v.now.trims
    BY <1>1, <2>2 DEF Board
  <2> QED BY <1>2, <1>6, <2>3
<1>7. CASE i.do = "SetTrimValues"
  <2>1. w.now = [v.now EXCEPT !.trims[i.roc] = i.same]
    BY <1>7 DEF Moves, Voids, Settles
  <2> QED BY <1>1, <1>7, <2>1 DEF Board
<1>8. CASE i.do = "modtrm"
  <2>1. w.now = [v.now EXCEPT !.trims[i.roc] = FALSE]
    BY <1>8 DEF Moves, Voids
  <2> QED BY <1>1, <1>8, <2>1 DEF Board
<1>9. CASE i.do \in {"dacval", "keep", "phase", "timeout", "select"}
  <2>1. \E f \in {"dacval", "kept", "phase", "timeout", "roclist"} : Same(v, w, {f})
    BY <1>9 DEF Moves, Voids
  <2>2. w.now = v.now
    BY <2>1 DEF Same, Fields
  <2> QED BY <1>2, <1>9, <2>2
<1>10. i.do \in Voids \cup {"flush", "Daq_Read", "Daq_Open", "LoopSingleRoc", "LoopMultiRoc",
                            "SetTrimValues", "modtrm", "dacval", "keep", "phase", "timeout", "select"}
  BY DEF Moves
<1> QED BY <1>3, <1>4, <1>5, <1>6, <1>7, <1>8, <1>9, <1>10

\* The FPGA has the trims of those of the ROCs S that are selected.
Has(S) == {v \in Views : \A r \in v.roclist : r \in S => v.now.trims[r]}
Trims(A, p, B) == Triple(Views, A, p, B, {})
\* No trims change, and no other ROCs are selected.
Untrimmed == [copies |-> Rocs \X Dacs, does |-> {}, selects |-> {}, channels |-> Channels]

LEMMA HasAll == Has({}) = Views
  BY DEF Has

LEMMA UntrimmedKeeps == \A S, p : Within(Untrimmed, Rocs, p) => Trims(Has(S), p, Has(S))
<1> SUFFICES ASSUME NEW S, NEW p, Within(Untrimmed, Rocs, p) PROVE Trims(Has(S), p, Has(S))
  OBVIOUS
<1>1. \A v \in Views : v.roclist \subseteq Rocs
  BY DEF Views, Selections
<1>2. Untrimmed.does = {} /\ Untrimmed.selects = {}
  BY DEF Untrimmed
<1>3. ASSUME NEW i, Fits(i), Granted(Untrimmed, i), NEW v \in Has(S) \cap Views,
             NEW w \in Views, Moves(i, v, w)
      PROVE  w \in Has(S) /\ w \in Views
  <2>1. ASSUME i.do = "select" PROVE FALSE
    BY <1>2, <1>3, <2>1 DEF Granted
  <2>2. ASSUME i.do = "modtrm" PROVE FALSE
    BY <1>2, <1>3, <2>2 DEF Granted
  <2>3. ASSUME i.do = "SetTrimValues" PROVE i.same = TRUE
    BY <1>2, <1>3, <2>3 DEF Granted, Fits
  <2>4. w.roclist = v.roclist
    BY <1>3, <2>1, MovesParts
  <2>5. ASSUME NEW r \in w.roclist, r \in S PROVE w.now.trims[r]
    <3>1. v.now.trims[r] /\ r \in Rocs
      BY <1>1, <2>4, <2>5 DEF Has
    <3>3. CASE i.do = "SetTrimValues" /\ i.roc = r
      <4>1. w.now.trims[r] = i.same
        BY <1>3, <3>1, <3>3, MovesTrims
      <4> QED BY <2>3, <3>3, <4>1
    <3>4. CASE ~(i.do = "SetTrimValues" /\ i.roc = r)
      <4>1. w.now.trims[r] = v.now.trims[r]
        <5>1. i.do # "modtrm"
          BY <2>2
        <5>2. i.do \notin {"SetTrimValues", "modtrm"} \/ i.roc # r
          BY <3>4, <5>1
        <5>3. r \in Rocs /\ v \in Views /\ w \in Views
          BY <1>3, <3>1
        <5> QED BY <1>3, <5>2, <5>3, MovesTrims
      <4> QED BY <3>1, <4>1
    <3> QED BY <3>3, <3>4
  <2> QED BY <2>5 DEF Has
<1>4. Triple(Views, Has(S), p, Has(S), {})
  BY <1>1, <1>2, <1>3, Footprint
<1> QED BY <1>4 DEF Trims

\* The trims of a ROC change, and are loaded.
LEMMA TrimsOfOne ==
    \A S : \A r \in Rocs :
        /\ Trims(Has(S), <<NewTrims(r)>>, Has(S \ {r}))
        /\ Trims(Has(S \ {r}), <<SetTrimValues(r)>>, Has(S \cup {r}))
<1> SUFFICES ASSUME NEW S, NEW r \in Rocs
             PROVE  /\ Trims(Has(S), <<NewTrims(r)>>, Has(S \ {r}))
                    /\ Trims(Has(S \ {r}), <<SetTrimValues(r)>>, Has(S \cup {r}))
  OBVIOUS
<1>0. \A v \in Views : v.roclist \subseteq Rocs
  BY DEF Views, Selections
<1>1. Trims(Has(S), <<NewTrims(r)>>, Has(S \ {r}))
  <2> DEFINE i == NewTrims(r)
  <2>1. i.do = "modtrm" /\ i.roc = r
    BY DEF NewTrims
  <2> HIDE DEF i
  <2>2. Fits(i) /\ i.do \notin Controlling
    BY <2>1 DEF Fits, Controlling
  <2>3. ASSUME NEW v \in Has(S) \cap Views, NEW w \in Views, Moves(i, v, w)
        PROVE  w \in Has(S \ {r}) /\ w \in Views
    <3>1. w.roclist = v.roclist
      BY <2>1, <2>2, <2>3, MovesParts
    <3>2. \A q \in Rocs : q # r => w.now.trims[q] = v.now.trims[q]
      BY <2>1, <2>2, <2>3, MovesTrims
    <3> QED BY <1>0, <2>3, <3>1, <3>2 DEF Has
  <2> QED BY <2>2, <2>3, Acts DEF Trims, i
<1>2. Trims(Has(S \ {r}), <<SetTrimValues(r)>>, Has(S \cup {r}))
  <2> DEFINE i == SetTrimValues(r)
  <2>1. i.do = "SetTrimValues" /\ i.roc = r /\ i.same = TRUE
    BY DEF SetTrimValues
  <2> HIDE DEF i
  <2>2. Fits(i) /\ i.do \notin Controlling
    BY <2>1 DEF Fits, Controlling
  <2>3. ASSUME NEW v \in Has(S \ {r}) \cap Views, NEW w \in Views, Moves(i, v, w)
        PROVE  w \in Has(S \cup {r}) /\ w \in Views
    <3>1. w.roclist = v.roclist
      BY <2>1, <2>2, <2>3, MovesParts
    <3>2. \A q \in Rocs : q # r => w.now.trims[q] = v.now.trims[q]
      BY <2>1, <2>2, <2>3, MovesTrims
    <3>3. w.now.trims[r] = TRUE
      BY <2>1, <2>2, <2>3, MovesTrims
    <3> QED BY <1>0, <2>3, <3>1, <3>2, <3>3 DEF Has
  <2> QED BY <2>2, <2>3, Acts DEF Trims, i
<1> QED BY <1>1, <1>2

\* A loop over the selected ROCs after which all that have had their turn
\* have their trims.
LEMMA TrimsEach ==
    \A f, A :
        /\ \A S : \A r \in Rocs : Trims(Has(S), f[r], Has(S \cup {r}))
        => Trims(A, <<EachRoc(f)>>, Has(Rocs))
<1> SUFFICES ASSUME NEW f, NEW A, \A S : \A r \in Rocs : Trims(Has(S), f[r], Has(S \cup {r}))
             PROVE  Trims(A, <<EachRoc(f)>>, Has(Rocs))
  OBVIOUS
<1>1. MaxRoc \in Nat /\ Rocs = 0 .. MaxRoc
  BY CallsAssumption DEF Rocs
<1> DEFINE I == [r \in 0 .. MaxRoc + 1 |-> Has({q \in Rocs : q < r})]
<1>2. \A r \in 0 .. MaxRoc + 1 : I[r] = Has({q \in Rocs : q < r})
  OBVIOUS
<1>3. \A r \in Rocs : {q \in Rocs : q < r + 1} = {q \in Rocs : q < r} \cup {r}
  BY <1>1
<1>4. ASSUME NEW r \in Rocs
      PROVE  I[r] = Has({q \in Rocs : q < r}) /\ I[r + 1] = Has({q \in Rocs : q < r} \cup {r})
  <2>1. r \in 0 .. MaxRoc + 1 /\ r + 1 \in 0 .. MaxRoc + 1
    BY <1>1
  <2>2. I[r] = Has({q \in Rocs : q < r}) /\ I[r + 1] = Has({q \in Rocs : q < r + 1})
    <3> HIDE DEF I
    <3> QED BY <1>2, <2>1
  <2>3. {q \in Rocs : q < r + 1} = {q \in Rocs : q < r} \cup {r}
    BY <1>3
  <2> QED BY <2>2, <2>3
<1>5. I[0] = Views /\ I[MaxRoc + 1] = Has(Rocs)
  <2>1. {q \in Rocs : q < 0} = {} /\ {q \in Rocs : q < MaxRoc + 1} = Rocs
    BY <1>1
  <2>2. 0 \in 0 .. MaxRoc + 1 /\ MaxRoc + 1 \in 0 .. MaxRoc + 1
    BY <1>1
  <2> HIDE DEF I
  <2> QED BY <1>2, <2>1, <2>2, HasAll
<1> HIDE DEF I
<1>6. ASSUME NEW r \in Rocs
      PROVE  /\ Triple(Views, {v \in I[r] : FALSE \/ r \in v.roclist}, f[r], I[r + 1], {})
             /\ \A v \in I[r] \cap Views : FALSE \/ r \in v.roclist \/ v \in I[r + 1]
  <2>1. Triple(Views, I[r], f[r], I[r + 1], {})
    BY <1>4, <1>6 DEF Trims
  <2>2. Triple(Views, {v \in I[r] : FALSE \/ r \in v.roclist}, f[r], I[r + 1], {})
    BY <2>1, Weaker
  <2>3. \A v \in I[r] : r \in v.roclist \/ v \in I[r + 1]
    BY <1>4, <1>6 DEF Has
  <2> QED BY <2>2, <2>3
<1>7. Triple(Views, I[0], <<EachRoc(f)>>, I[MaxRoc + 1], {})
  BY <1>6, Turns DEF EachRoc
<1> QED BY <1>5, <1>7, Weaker DEF Trims

LEMMA TrimsRules ==
    /\ \A A, M, B, p, q : Trims(A, p, M) /\ Trims(M, q, B) => Trims(A, p \o q, B)
    /\ \A A, p : Trims(A, p, A) => Trims(A, <<Again(p)>>, A)
    /\ \A A, B, p : Trims(A, p, B) => Trims(A, <<Call(p)>>, B)
    /\ \A A, B, f : (\A k \in DOMAIN f : Trims(A, f[k], B)) => Trims(A, <<Either(f)>>, B)
    /\ \A A : Trims(A, <<>>, A)
    /\ \A A, B, p : \A A1 \in SUBSET A : Trims(A, p, B) => Trims(A1, p, B)
<1>1. \A A, M, B, p, q : Trims(A, p, M) /\ Trims(M, q, B) => Trims(A, p \o q, B)
  BY Sequel DEF Trims
<1>2. \A A, p : Trims(A, p, A) => Trims(A, <<Again(p)>>, A)
  BY Repeats DEF Trims
<1>3. ASSUME NEW A, NEW B, NEW p, Trims(A, p, B) PROVE Trims(A, <<Call(p)>>, B)
  <2>1. Triple(Views, A, p, B, B)
    BY <1>3, Weaker DEF Trims
  <2> QED BY <2>1, Called DEF Trims
<1>4. \A A, B, f : (\A k \in DOMAIN f : Trims(A, f[k], B)) => Trims(A, <<Either(f)>>, B)
  BY Chooses DEF Trims
<1>5. \A A : Trims(A, <<>>, A)
  BY Skips DEF Trims
<1>6. ASSUME NEW A, NEW B, NEW p, NEW A1 \in SUBSET A, Trims(A, p, B) PROVE Trims(A1, p, B)
  BY <1>6, Weaker DEF Trims
<1> QED BY <1>1, <1>2, <1>3, <1>4, <1>5, <1>6

LEMMA TrimsTuples ==
    /\ \A A, B, C, a, b :
          Trims(A, <<a>>, B) /\ Trims(B, <<b>>, C)
            => Trims(A, <<a, b>>, C)
    /\ \A A, B, C, a, b, c :
          Trims(A, <<a, b>>, B) /\ Trims(B, <<c>>, C)
            => Trims(A, <<a, b, c>>, C)
    /\ \A A, B, C, a, b, c, d :
          Trims(A, <<a, b, c>>, B) /\ Trims(B, <<d>>, C)
            => Trims(A, <<a, b, c, d>>, C)
  BY Tuples DEF Trims

\* Any calls, selecting none.
Changing == [copies |-> Rocs \X Dacs, does |-> {"trims"}, selects |-> {}, channels |-> Channels]
LEMMA AnyTrims == \A p : Within(Changing, Rocs, p) => Trims(Views, p, Views)
<1> SUFFICES ASSUME NEW p, Within(Changing, Rocs, p) PROVE Trims(Views, p, Views)
  OBVIOUS
<1>1. \A v \in Views : v.roclist \subseteq Rocs
  BY DEF Views, Selections
<1>2. "return" \notin Changing.does
  BY DEF Changing
<1>3. Triple(Views, Views, p, Views, {})
  BY <1>1, <1>2, Footprint
<1> QED BY <1>3 DEF Trims

\* Trims that are changed and loaded, and loaded only.
LEMMA TrimsOfRoc ==
    \A S : \A r \in Rocs :
        /\ Trims(Has(S), LoadTrim(r), Has(S \cup {r}))
        /\ Trims(Has(S), <<roc_I2cAddr(r), SetTrimValues(r)>>, Has(S \cup {r}))
        /\ Trims(Has(S), <<Flush>>, Has(S))
<1> SUFFICES ASSUME NEW S, NEW r \in Rocs
             PROVE  /\ Trims(Has(S), LoadTrim(r), Has(S \cup {r}))
                    /\ Trims(Has(S), <<roc_I2cAddr(r), SetTrimValues(r)>>, Has(S \cup {r}))
                    /\ Trims(Has(S), <<Flush>>, Has(S))
  OBVIOUS
<1>1. Trims(Has(S), <<roc_I2cAddr(r)>>, Has(S)) /\ Trims(Has(S), <<Flush>>, Has(S))
  <2>1. Within(Untrimmed, Rocs, <<roc_I2cAddr(r)>>) /\ Within(Untrimmed, Rocs, <<Flush>>)
    BY One, Addressed, Requests
  <2> QED BY <2>1, UntrimmedKeeps
<1>2. Trims(Has(S), <<NewTrims(r)>>, Has(S \ {r}))
      /\ Trims(Has(S \ {r}), <<SetTrimValues(r)>>, Has(S \cup {r}))
  BY TrimsOfOne
<1>3. Has(S) \subseteq Has(S \ {r})
  BY DEF Has
<1>4. Trims(Has(S), <<SetTrimValues(r)>>, Has(S \cup {r}))
  BY <1>2, <1>3, TrimsRules
<1>5. Trims(Has(S), <<roc_I2cAddr(r), NewTrims(r)>>, Has(S \ {r}))
  BY <1>1, <1>2, TrimsTuples
<1>6. Trims(Has(S), <<roc_I2cAddr(r), NewTrims(r), SetTrimValues(r)>>, Has(S \cup {r}))
  BY <1>2, <1>5, TrimsTuples
<1>7. Trims(Has(S), <<roc_I2cAddr(r), SetTrimValues(r)>>, Has(S \cup {r}))
  BY <1>1, <1>4, TrimsTuples
<1> QED BY <1>1, <1>6, <1>7 DEF LoadTrim

\* The trims of all selected ROCs, whatever the FPGA had before.
LEMMA TrimsOfAll ==
    /\ Trims(Views, AllTrims, Has(Rocs)) /\ Trims(Views, LoadTrims, Has(Rocs))
    /\ Trims(Views, setbits, Has(Rocs)) /\ Trims(Views, rdtrim, Has(Rocs))
<1> DEFINE all == [r \in Rocs |-> LoadTrim(r)]
           flushed == [r \in Rocs |-> LoadTrim(r) \o <<Flush>>]
           load == [r \in Rocs |-> <<roc_I2cAddr(r), SetTrimValues(r)>>]
<1>1. \A S : \A r \in Rocs : /\ Trims(Has(S), all[r], Has(S \cup {r}))
                             /\ Trims(Has(S), load[r], Has(S \cup {r}))
  BY TrimsOfRoc
<1>2. \A S : \A r \in Rocs : Trims(Has(S), flushed[r], Has(S \cup {r}))
  <2>1. \A S : \A r \in Rocs : Trims(Has(S), LoadTrim(r) \o <<Flush>>, Has(S \cup {r}))
    BY TrimsOfRoc, TrimsRules
  <2> QED BY <2>1
<1> HIDE DEF all, flushed, load
<1>3. Trims(Views, <<EachRoc(all)>>, Has(Rocs)) /\ Trims(Views, <<EachRoc(load)>>, Has(Rocs))
      /\ Trims(Views, <<EachRoc(flushed)>>, Has(Rocs))
  BY <1>1, <1>2, TrimsEach
<1>4. Trims(Has(Rocs), <<Flush>>, Has(Rocs))
  BY TrimsOfRoc, Zero
<1>5. Trims(Views, <<EachRoc(all), Flush>>, Has(Rocs))
      /\ Trims(Views, <<EachRoc(load), Flush>>, Has(Rocs))
  BY <1>3, <1>4, TrimsTuples
<1>6. AllTrims = <<EachRoc(all), Flush>> /\ setbits = <<EachRoc(all), Flush>>
      /\ rdtrim = <<EachRoc(flushed)>> /\ LoadTrims = <<EachRoc(load), Flush>>
  BY DEF AllTrims, setbits, rdtrim, LoadTrims, LoadTrim, all, flushed, load
<1> QED BY <1>3, <1>5, <1>6

\* The commands that load the trims they have found.
LEMMA TrimsModvthrcomp == Trims(Views, modvthrcomp, Has(Rocs))
<1> DEFINE search == EachRoc([r \in Rocs |->
               <<roc_I2cAddr(r), SetDAC("CtrlReg", Scan),
                 Again(<<SetDAC("VthrComp", Scan), Flush, Call(ThrPix(r, "Vcal"))>>)>>
               \o SetBoth(r, "VthrComp", New)
               \o <<Restore(r, "CtrlReg"), Flush>>])
<1>1. \A l : \A s \in SUBSET Rocs :
          (\A r \in s : May(l, r, "VthrComp")) /\ Channels \subseteq l.channels =>
          Within(l, s, <<Call(ModThrMap), search>>)
  BY Two, Three, Join, Controls, LegalModThrMap, SelectedRounds, Addressed,
     Stated, Named, Shown, Requests, LegalThrPix, Copied, ChannelOfRoc
<1> HIDE DEF search
<1>2. (\A r \in Rocs : May(Untrimmed, r, "VthrComp")) /\ Channels \subseteq Untrimmed.channels
  BY Named DEF May, Untrimmed
<1>3. Within(Untrimmed, Rocs, <<Call(ModThrMap), search>>)
  BY <1>1, <1>2
<1>4. Trims(Has(Rocs), <<Call(ModThrMap), search>>, Has(Rocs))
  BY <1>3, UntrimmedKeeps
<1>5. Trims(Views, AllTrims \o <<Call(ModThrMap), search>>, Has(Rocs))
  BY <1>4, TrimsOfAll, TrimsRules
<1> QED BY <1>5 DEF modvthrcomp, search

LEMMA TrimsRescaled ==
    Trims(Views, modtrimscale, Has(Rocs)) /\ Trims(Views, modtrimstep, Has(Rocs))
<1> DEFINE some == <<Call(ModThrMap), EachRoc([r \in Rocs |-> <<Maybe(<<NewTrims(r)>>)>>])>>
           all == <<Call(ModThrMap), EachRoc([r \in Rocs |-> <<NewTrims(r)>>])>>
<1>1. \A l : \A s \in SUBSET Rocs : "trims" \in l.does /\ Channels \subseteq l.channels =>
          /\ Within(l, s, AllTrims \o some) /\ Within(l, s, LoadTrims \o all)
  BY One, Two, Join, LegalAllTrims, Controls, LegalModThrMap, SelectedRounds, Addressed,
     LegalLoadTrims
<1> HIDE DEF some, all
<1>2. "trims" \in Changing.does /\ Channels \subseteq Changing.channels
  BY DEF Changing
<1>3. Trims(Views, AllTrims \o some, Views) /\ Trims(Views, LoadTrims \o all, Views)
  BY <1>1, <1>2, AnyTrims
<1>4. Trims(Views, AllTrims \o some \o LoadTrims, Has(Rocs))
      /\ Trims(Views, LoadTrims \o all \o LoadTrims, Has(Rocs))
  BY <1>3, TrimsOfAll, TrimsRules
<1> QED BY <1>4 DEF modtrimscale, modtrimstep, some, all

\* A loop over the ROCs whose turns all keep A.
LEMMA Rounding ==
    \A V, A, f, R : (\A r \in Rocs : Triple(V, A, f[r], A, R)) =>
        Triple(V, A, <<EachRoc(f)>>, A, R) /\ Triple(V, A, <<EveryRoc(f)>>, A, R)
<1> SUFFICES ASSUME NEW V, NEW A, NEW f, NEW R, \A r \in Rocs : Triple(V, A, f[r], A, R)
             PROVE  Triple(V, A, <<EachRoc(f)>>, A, R) /\ Triple(V, A, <<EveryRoc(f)>>, A, R)
  OBVIOUS
<1> DEFINE I == [r \in 0 .. MaxRoc + 1 |-> A]
<1>1. MaxRoc \in Nat /\ Rocs = 0 .. MaxRoc
  BY CallsAssumption DEF Rocs
<1>2. /\ \A r \in Rocs : I[r] = A /\ I[r + 1] = A
      /\ I[0] = A /\ I[MaxRoc + 1] = A
  BY <1>1
<1> HIDE DEF I
<1>3. ASSUME NEW all \in BOOLEAN
      PROVE  Triple(V, A, <<[do |-> "each", of |-> f, roc |-> 0, all |-> all]>>, A, R)
  <2>1. ASSUME NEW r \in Rocs
        PROVE  /\ Triple(V, {v \in I[r] : all \/ r \in v.roclist}, f[r], I[r + 1], R)
               /\ \A v \in I[r] \cap V : all \/ r \in v.roclist \/ v \in I[r + 1]
    <3>1. Triple(V, A, f[r], A, R)
      OBVIOUS
    <3>2. Triple(V, {v \in I[r] : all \/ r \in v.roclist}, f[r], I[r + 1], R)
      BY <1>2, <2>1, <3>1, Weaker
    <3> QED BY <1>2, <2>1, <3>2
  <2>2. Triple(V, I[0], <<[do |-> "each", of |-> f, roc |-> 0, all |-> all]>>, I[MaxRoc + 1], R)
    BY <2>1, Turns
  <2> QED BY <1>2, <2>2
<1> QED BY <1>3 DEF EachRoc, EveryRoc

\* Trims of one ROC, loaded before the command ends: the others have those
\* they had.
LEMMA TrimsPixt == Trims(Has(Rocs), pixt, Has(Rocs))
<1>1. ASSUME NEW r \in Rocs PROVE Trims(Has(Rocs), <<OnRoc(r, LoadTrim(r) \o <<Flush>>)>>, Has(Rocs))
  <2> DEFINE pixel == LoadTrim(r) \o <<Flush>>
             f == [q \in Rocs |-> IF q = r THEN pixel ELSE <<>>]
  <2>1. Trims(Has(Rocs), LoadTrim(r), Has(Rocs \cup {r})) /\ Trims(Has(Rocs), <<Flush>>, Has(Rocs))
    BY <1>1, TrimsOfRoc
  <2>2. Rocs \cup {r} = Rocs
    OBVIOUS
  <2>3. Trims(Has(Rocs), pixel, Has(Rocs)) /\ Trims(Has(Rocs), <<>>, Has(Rocs))
    BY <2>1, <2>2, TrimsRules
  <2> HIDE DEF pixel
  <2>4. \A q \in Rocs : Triple(Views, Has(Rocs), f[q], Has(Rocs), {})
    BY <2>3 DEF Trims
  <2> HIDE DEF f
  <2>5. Trims(Has(Rocs), <<EachRoc(f)>>, Has(Rocs))
    BY <2>4, Rounding DEF Trims
  <2> QED BY <2>5 DEF OnRoc, f, pixel
<1> DEFINE ways == [r \in Rocs |-> <<OnRoc(r, LoadTrim(r) \o <<Flush>>)>>]
<1>2. \A k \in DOMAIN ways : Trims(Has(Rocs), ways[k], Has(Rocs))
  BY <1>1
<1>3. pixt = <<Either(ways)>>
  BY DEF pixt, AnyOf
<1> HIDE DEF ways
<1> QED BY <1>2, <1>3, TrimsRules

LEMMA TrimsTrimbits == Trims(Has(Rocs), trimbits, Has(Rocs))
<1> DEFINE A == Has(Rocs)
           raise == <<NewTrims(0), SetTrimValues(0), Flush, Call(GetPixData(0))>>
<1>0. 0 \in Untrimmed.channels
  BY Zero DEF Untrimmed
<1>1. /\ \A l : \A s \in SUBSET Rocs : 0 \in l.channels =>
            /\ Within(l, s, <<roc_I2cAddr(0)>>) /\ Within(l, s, <<Call(GetRocData)>>)
            /\ Within(l, s, <<Flush>>) /\ Within(l, s, <<Call(GetPixData(0))>>)
  BY One, Addressed, Controls, LegalGetRocData, Requests, LegalGetPixData, Zero
<1>2. /\ Trims(A, <<roc_I2cAddr(0)>>, A) /\ Trims(A, <<Call(GetRocData)>>, A)
      /\ Trims(A, <<Flush>>, A) /\ Trims(A, <<Call(GetPixData(0))>>, A)
  BY <1>0, <1>1, UntrimmedKeeps
<1>3. Trims(A, <<NewTrims(0)>>, Has(Rocs \ {0})) /\ Trims(Has(Rocs \ {0}), <<SetTrimValues(0)>>, A)
  <2>1. Rocs \cup {0} = Rocs
    BY Zero
  <2> QED BY <2>1, TrimsOfOne, Zero
<1> HIDE DEF A
<1>4. Trims(A, raise, A)
  <2>1. Trims(A, <<NewTrims(0), SetTrimValues(0)>>, A)
    BY <1>3, TrimsTuples
  <2>2. Trims(A, <<NewTrims(0), SetTrimValues(0), Flush>>, A)
    BY <1>2, <2>1, TrimsTuples
  <2> QED BY <1>2, <2>2, TrimsTuples
<1> HIDE DEF raise
<1>5. Trims(A, <<Again(Some(raise))>>, A)
  BY <1>4, TrimsRules DEF Some
<1>6. Trims(A, <<roc_I2cAddr(0), Call(GetRocData), Again(Some(raise))>>, A)
  BY <1>2, <1>5, TrimsTuples
<1> QED BY <1>6 DEF trimbits, raise, A

\* The commands that load the trims of all selected ROCs, and those that
\* change and load the trims of one.
Reloading == {"setbits", "rdtrim", "modvthrcomp", "modtrimscale", "modtrimstep"}
LoadingOne == {"pixt", "trimbits"}

LEMMA ReloadingRuns ==
    \A c \in Reloading : TheTable => Trims(Views, Procedure[c], Has(Rocs))
<1> SUFFICES ASSUME TheTable
             PROVE  \A c \in Reloading : Trims(Views, Procedure[c], Has(Rocs))
  OBVIOUS
<1>1. /\ Procedure["setbits"] = setbits /\ Procedure["rdtrim"] = rdtrim
      /\ Procedure["modvthrcomp"] = modvthrcomp
      /\ Procedure["modtrimscale"] = modtrimscale /\ Procedure["modtrimstep"] = modtrimstep
  BY SMTT(30) DEF TheTable, TheProcedure, TheTests, SetUp, OneRoc, SelectedRocs, AllRocs
<1> QED BY <1>1, TrimsOfAll, TrimsModvthrcomp, TrimsRescaled DEF Reloading

LEMMA LoadingOneRuns ==
    \A c \in LoadingOne : TheTable => Trims(Has(Rocs), Procedure[c], Has(Rocs))
<1> SUFFICES ASSUME TheTable
             PROVE  \A c \in LoadingOne : Trims(Has(Rocs), Procedure[c], Has(Rocs))
  OBVIOUS
<1>1. Procedure["pixt"] = pixt /\ Procedure["trimbits"] = trimbits
  BY SMTT(30) DEF TheTable, TheProcedure, TheTests, SetUp, OneRoc, SelectedRocs, AllRocs
<1> QED BY <1>1, TrimsPixt, TrimsTrimbits DEF LoadingOne

\* At the end of a way on which all views end with trims the trims are loaded.
LEMMA EndsWithTrims ==
    \A C : TypeOK /\ OnTheWay(C, [c \in C |-> Views], [c \in C |-> Has(Rocs)]) /\ command \in C
        => TrimsLoaded
<1> SUFFICES ASSUME NEW C, TypeOK, OnTheWay(C, [c \in C |-> Views], [c \in C |-> Has(Rocs)]),
                    command \in C, Done
             PROVE  \A r \in roclist : Now.trims[r]
  BY DEF TrimsLoaded
<1>1. View \in Has(Rocs)
  BY DEF OnTheWay, Done
<1>2. roclist \subseteq Rocs
  BY DEF TypeOK
<1> QED BY <1>1, <1>2, ViewIs DEF Has

\* A procedure that ends with trims loaded does so for all the views.
LEMMA CertainTrims ==
    \A C, A :
        /\ \A c \in C : Trims(A, Procedure[c], Has(Rocs))
        /\ Beginning \cup (IF MaxCommands > 1 THEN Anytime ELSE {}) \subseteq A
        => Certain(C, [c \in C |-> Views], [c \in C |-> Has(Rocs)])
<1> SUFFICES ASSUME NEW C, NEW A, \A c \in C : Trims(A, Procedure[c], Has(Rocs)),
                    Beginning \cup (IF MaxCommands > 1 THEN Anytime ELSE {}) \subseteq A
             PROVE  Certain(C, [c \in C |-> Views], [c \in C |-> Has(Rocs)])
  OBVIOUS
<1>1. Beginning \cup (IF MaxCommands > 1 THEN Anytime ELSE {}) \subseteq Views
  BY DEF Beginning, Anytime
<1>2. \A c \in C : Triple(Views, A, Procedure[c], Has(Rocs), Has(Rocs))
  BY Weaker DEF Trims
<1>3. \A c \in C : \A v \in Beginning \cup (IF MaxCommands > 1 THEN Anytime ELSE {}) :
          Runs(Views, Has(Rocs), Has(Rocs), Procedure[c], v)
  BY <1>1, <1>2 DEF Triple
<1> QED BY <1>3 DEF Certain

\* TrimsLoaded, for the commands of cmd.cpp that set trims of whole chips and
\* for those that tune them for a module: whatever commands were typed before,
\* whatever failed and was tried again, and for any numbers of commands and of
\* exceptions, the FPGA has the trims of all selected ROCs when they are done.
THEOREM TrimsReloaded == TheTable /\ Spec => [](command \in Reloading => TrimsLoaded)
<1> DEFINE C == Reloading
           V == [c \in C |-> Views]
           B == [c \in C |-> Has(Rocs)]
<1>1. TheTable => Certain(C, V, B)
  <2>1. Beginning \cup (IF MaxCommands > 1 THEN Anytime ELSE {}) \subseteq Views
    BY DEF Beginning, Anytime
  <2> QED BY <2>1, ReloadingRuns, CertainTrims
<1>2. TypeOK /\ OnTheWay(C, V, B) => (command \in Reloading => TrimsLoaded)
  BY EndsWithTrims
<1> HIDE DEF V, B, C
<1>3. ASSUME TheTable PROVE Spec => [](command \in Reloading => TrimsLoaded)
  <2>1. Spec => []TypeOK
    BY <1>3, CommandsTyped
  <2>2. TypeOK /\ Init => OnTheWay(C, V, B)
    BY WayInit
  <2>3. TypeOK /\ TypeOK' /\ OnTheWay(C, V, B) /\ [Next]_vars => OnTheWay(C, V, B)'
    BY <1>1, <1>3, WayNext
  <2> QED BY <1>2, <2>1, <2>2, <2>3, PTL DEF Spec
<1> QED BY <1>3

\* TrimsLoaded, for all commands that load trims, each on a board that is set
\* up, whatever fails: those that change the trims of one ROC rely on what the
\* FPGA has for the others.
THEOREM TrimsInTheBoard == TheTable /\ MaxCommands = 1 /\ Spec => []TrimsLoaded
<1> DEFINE C == Reloading \cup LoadingOne
           V == [c \in C |-> Views]
           B == [c \in C |-> Has(Rocs)]
<1>1. ASSUME TheTable, MaxCommands = 1 PROVE Certain(C, V, B)
  <2>1. Beginning \cup (IF MaxCommands > 1 THEN Anytime ELSE {}) \subseteq Has(Rocs)
    <3>1. ASSUME NEW v \in Beginning PROVE v \in Has(Rocs)
      <4>1. v \in Views /\ v.roclist \subseteq Rocs
        BY DEF Beginning, Views, Selections
      <4>2. v.now.trims = [r \in Rocs |-> TRUE]
        BY DEF Beginning, Healthy
      <4> QED BY <4>1, <4>2 DEF Has
    <3> QED BY <1>1, <3>1
  <2>2. ASSUME NEW c \in C PROVE Trims(Has(Rocs), Procedure[c], Has(Rocs))
    <3>1. CASE c \in Reloading
      <4>1. Trims(Views, Procedure[c], Has(Rocs))
        BY <1>1, <3>1, ReloadingRuns
      <4>2. Has(Rocs) \subseteq Views
        BY DEF Has
      <4> QED BY <4>1, <4>2, TrimsRules
    <3>2. CASE c \in LoadingOne
      BY <1>1, <3>2, LoadingOneRuns
    <3> QED BY <3>1, <3>2
  <2> HIDE DEF C
  <2> QED BY <2>1, <2>2, CertainTrims
<1>2. TypeOK /\ OnTheWay(C, V, B) => (command \in C => TrimsLoaded)
  BY EndsWithTrims
<1>3. TheTable => (command \notin C => TrimsLoaded)
  BY DEF TheTable, TheTrimming, Reloading, LoadingOne, TrimsLoaded
<1> HIDE DEF V, B, C
<1>4. ASSUME TheTable, MaxCommands = 1 PROVE Spec => []TrimsLoaded
  <2>1. Spec => []TypeOK
    BY <1>4, CommandsTyped
  <2>2. TypeOK /\ Init => OnTheWay(C, V, B)
    BY WayInit
  <2>3. TypeOK /\ TypeOK' /\ OnTheWay(C, V, B) /\ [Next]_vars => OnTheWay(C, V, B)'
    BY <1>1, <1>4, WayNext
  <2>4. TypeOK /\ OnTheWay(C, V, B) => TrimsLoaded
    BY <1>2, <1>3, <1>4
  <2> QED BY <2>1, <2>2, <2>3, <2>4, PTL DEF Spec
<1> QED BY <1>4

-----------------------------------------------------------------------------
\* CleanRead.

\* Nothing was read while the trigger loop fired; and it stands still now.
Clean == {v \in Views : ~v.live}
Still == {v \in Clean : v.now.loop = "off"}
Among(s) == {v \in Clean : v.roclist \subseteq s}
Cleanly(A, p, B) == Triple(Clean, A, p, B, Still)

LEMMA CleanMoves ==
    \A i : \A v \in Clean : \A w \in Views : Fits(i) /\ Moves(i, v, w) =>
        /\ i.do # "Daq_Read" \/ v \in Still => w \in Clean
        /\ v \in Still /\ ~(i.do = "switch" /\ i.part = "loop" /\ i.to = "on") => w \in Still
        /\ i.do = "switch" /\ i.part = "loop" /\ i.to = "off" => w \in Still
<1> SUFFICES ASSUME NEW i, NEW v \in Clean, NEW w \in Views, Fits(i), Moves(i, v, w)
             PROVE  /\ i.do # "Daq_Read" \/ v \in Still => w \in Clean
                    /\ v \in Still /\ ~(i.do = "switch" /\ i.part = "loop" /\ i.to = "on") => w \in Still
                    /\ i.do = "switch" /\ i.part = "loop" /\ i.to = "off" => w \in Still
  OBVIOUS
<1>1. v \in Views /\ v.live = FALSE /\ w.live \in BOOLEAN
  BY DEF Clean, Views
<1>2. w.live = (v.live \/ (i.do = "Daq_Read" /\ v.now.loop = "on"))
  BY <1>1, MovesParts
<1>3. w.now.loop = IF i.do = "switch" /\ i.part = "loop" THEN i.to ELSE v.now.loop
  BY <1>1, MovesParts
<1>4. i.do # "Daq_Read" \/ v.now.loop = "off" => w \in Clean
  BY <1>1, <1>2 DEF Clean
<1>5. i.do = "switch" /\ i.part = "loop" => i.to \in {"on", "off"} /\ i.do # "Daq_Read"
  BY DEF Fits, Positions
<1>6. v \in Still => v.now.loop = "off"
  BY DEF Still
<1>7. i.do # "Daq_Read" \/ v \in Still => w \in Clean
  BY <1>4, <1>6
<1>8. v \in Still /\ ~(i.do = "switch" /\ i.part = "loop" /\ i.to = "on") => w.now.loop = "off"
  BY <1>3, <1>5, <1>6
<1>9. i.do = "switch" /\ i.part = "loop" /\ i.to = "off" => w.now.loop = "off" /\ w \in Clean
  BY <1>3, <1>5, <1>7
<1> QED BY <1>7, <1>8, <1>9 DEF Still

\* A program that does not start the loop, and selects none but s.
LEMMA StillKept ==
    \A l, s, p :
        Within(l, s, p) /\ "loop" \notin l.does /\ (\A t \in l.selects : t \subseteq s)
            => Triple(Among(s), Still, p, Still, Still)
<1> SUFFICES ASSUME NEW l, NEW s, NEW p, Within(l, s, p), "loop" \notin l.does,
                    \A t \in l.selects : t \subseteq s
             PROVE  Triple(Among(s), Still, p, Still, Still)
  OBVIOUS
<1>1. \A v \in Among(s) : v.roclist \subseteq s /\ v \in Clean /\ v \in Views
  BY DEF Among, Clean
<1>2. ASSUME NEW i, Fits(i), Granted(l, i), NEW v \in Still \cap Among(s),
             NEW w \in Views, Moves(i, v, w)
      PROVE  w \in Still /\ w \in Among(s)
  <2>1. ~(i.do = "switch" /\ i.part = "loop" /\ i.to = "on")
    <3>1. ASSUME i.do = "switch", i.part = "loop", i.to = "on" PROVE FALSE
      BY <1>2, <3>1 DEF Granted
    <3> QED BY <3>1
  <2>2. w \in Still
    BY <1>1, <1>2, <2>1, CleanMoves
  <2>3. w.roclist = IF i.do = "select" THEN i.of ELSE v.roclist
    BY <1>1, <1>2, MovesParts
  <2>4. ASSUME i.do = "select" PROVE i.of \subseteq s
    <3>1. i.of \in l.selects
      BY <1>2, <2>4 DEF Granted
    <3> QED BY <3>1
  <2>5. w.roclist \subseteq s
    BY <1>1, <2>3, <2>4
  <2> QED BY <2>2, <2>5 DEF Still, Among
<1>3. \A v \in Still \cap Among(s) : v \in Still
  OBVIOUS
<1> QED BY <1>1, <1>2, <1>3, Footprint

\* More views may come in between.
LEMMA Widened ==
    \A V, W, B, R, p, v : Runs(W, B, R, p, v) /\ W \subseteq V => Runs(V, B, R, p, v)
<1>1. \A V, W, B, R, G : Closed(G, W, B, R) /\ W \subseteq V => Closed(G, V, B, R)
  BY DEF Closed
<1> QED BY <1>1 DEF Runs

\* A single call but a reading, the start and the stop of the loop, and
\* programs without.
LEMMA CleanCalls ==
    /\ \A i : Fits(i) /\ i.do \notin Controlling /\ i.do # "Daq_Read" => Cleanly(Clean, <<i>>, Clean)
    /\ Cleanly(Clean, <<Pg_Stop>>, Still) /\ Cleanly(Still, <<Pg_Loop>>, Clean)
    /\ \A p : Within(Changing, Rocs, p) => Cleanly(Still, p, Still)
<1>1. ASSUME NEW i, Fits(i), i.do \notin Controlling, i.do # "Daq_Read"
      PROVE  Cleanly(Clean, <<i>>, Clean)
  <2>1. \A v \in Clean : \A w \in Views : Moves(i, v, w) => w \in Clean
    BY <1>1, CleanMoves
  <2> QED BY <1>1, <2>1, Acts DEF Cleanly
<1>2. Cleanly(Clean, <<Pg_Stop>>, Still)
  <2> DEFINE i == Pg_Stop
  <2>1. i.do = "switch" /\ i.part = "loop" /\ i.to = "off"
    BY DEF Pg_Stop, Switch
  <2> HIDE DEF i
  <2>2. Fits(i) /\ i.do \notin Controlling
    BY <2>1 DEF Fits, Positions, Controlling
  <2>3. \A v \in Clean : \A w \in Views : Moves(i, v, w) => w \in Still /\ w \in Clean
    <3>1. \A v \in Clean : \A w \in Views : Moves(i, v, w) => w \in Still
      BY <2>1, <2>2, CleanMoves
    <3> QED BY <3>1 DEF Still
  <2> QED BY <2>2, <2>3, Acts DEF Cleanly, i
<1>3. Cleanly(Still, <<Pg_Loop>>, Clean)
  <2> DEFINE i == Pg_Loop
  <2>1. i.do = "switch" /\ i.part = "loop" /\ i.to = "on"
    BY DEF Pg_Loop, Switch
  <2> HIDE DEF i
  <2>2. Fits(i) /\ i.do \notin Controlling /\ i.do # "Daq_Read"
    BY <2>1 DEF Fits, Positions, Controlling
  <2>3. \A v \in Clean : \A w \in Views : Moves(i, v, w) => w \in Clean
    BY <2>2, CleanMoves
  <2> QED BY <2>2, <2>3, Acts DEF Cleanly, i
<1>4. ASSUME NEW p, Within(Changing, Rocs, p) PROVE Cleanly(Still, p, Still)
  <2>1. Triple(Among(Rocs), Still, p, Still, Still)
    BY <1>4, StillKept DEF Changing
  <2>2. Among(Rocs) = Clean
    BY DEF Among, Clean, Views, Selections
  <2> QED BY <2>1, <2>2 DEF Cleanly
<1> QED BY <1>1, <1>2, <1>3, <1>4

LEMMA CleanRules ==
    /\ \A A, M, B, p, q : Cleanly(A, p, M) /\ Cleanly(M, q, B) => Cleanly(A, p \o q, B)
    /\ \A A, p : Cleanly(A, p, A) => Cleanly(A, <<Again(p)>>, A)
    /\ \A A, B, f : (\A k \in DOMAIN f : Cleanly(A, f[k], B)) => Cleanly(A, <<Either(f)>>, B)
    /\ \A A : Cleanly(A, <<>>, A)
    /\ \A A, f : (\A r \in Rocs : Cleanly(A, f[r], A)) => Cleanly(A, <<EveryRoc(f)>>, A)
    /\ \A p, B : Cleanly(Clean, p, B) => Cleanly(Still, p, B)
    /\ \A p, A : Cleanly(A, p, Still) => Cleanly(A, p, Clean)
<1>1. Still \subseteq Clean
  BY DEF Still
<1>2. \A A, M, B, p, q : Cleanly(A, p, M) /\ Cleanly(M, q, B) => Cleanly(A, p \o q, B)
  BY Sequel DEF Cleanly
<1>3. \A A, p : Cleanly(A, p, A) => Cleanly(A, <<Again(p)>>, A)
  BY Repeats DEF Cleanly
<1>4. \A A, B, f : (\A k \in DOMAIN f : Cleanly(A, f[k], B)) => Cleanly(A, <<Either(f)>>, B)
  BY Chooses DEF Cleanly
<1>5. \A A : Cleanly(A, <<>>, A)
  BY Skips DEF Cleanly
<1>6. \A A, f : (\A r \in Rocs : Cleanly(A, f[r], A)) => Cleanly(A, <<EveryRoc(f)>>, A)
  BY Rounding DEF Cleanly
<1>7. ASSUME NEW p, NEW B, Cleanly(Clean, p, B) PROVE Cleanly(Still, p, B)
  BY <1>1, <1>7, Weaker DEF Cleanly
<1>8. ASSUME NEW p, NEW A, Cleanly(A, p, Still) PROVE Cleanly(A, p, Clean)
  BY <1>1, <1>8, Weaker DEF Cleanly
<1> QED BY <1>2, <1>3, <1>4, <1>5, <1>6, <1>7, <1>8

LEMMA CleanTuples ==
    /\ \A A, B, C, a, b :
          Cleanly(A, <<a>>, B) /\ Cleanly(B, <<b>>, C)
            => Cleanly(A, <<a, b>>, C)
    /\ \A A, B, C, a, b, c :
          Cleanly(A, <<a, b>>, B) /\ Cleanly(B, <<c>>, C)
            => Cleanly(A, <<a, b, c>>, C)
    /\ \A A, B, C, a, b, c, d :
          Cleanly(A, <<a, b, c>>, B) /\ Cleanly(B, <<d>>, C)
            => Cleanly(A, <<a, b, c, d>>, C)
    /\ \A A, B, C, a, b, c, d, e :
          Cleanly(A, <<a, b, c, d>>, B) /\ Cleanly(B, <<e>>, C)
            => Cleanly(A, <<a, b, c, d, e>>, C)
    /\ \A A, B, C, a, b, c, d, e, f :
          Cleanly(A, <<a, b, c, d, e>>, B) /\ Cleanly(B, <<f>>, C)
            => Cleanly(A, <<a, b, c, d, e, f>>, C)
  BY Tuples DEF Cleanly

\* Calls that are made while the loop may fire.
LEMMA CleanPieces ==
    /\ Cleanly(Clean, <<Flush>>, Clean)
    /\ \A ch \in Channels : /\ Cleanly(Clean, <<Daq_Start(ch)>>, Clean)
                            /\ Cleanly(Clean, <<Daq_Stop(ch)>>, Clean)
    /\ \A t \in {"short", "long"} : Cleanly(Clean, <<SetTimeout(t)>>, Clean)
    /\ Cleanly(Clean, <<Pg_Loop>>, Clean)
    /\ Cleanly(Clean, StartChannels, Clean) /\ Cleanly(Clean, StopChannels, Clean)
<1>1. Cleanly(Clean, <<Flush>>, Clean)
  BY CleanCalls DEF Flush, Fits, Controlling
<1>2. \A ch \in Channels : /\ Cleanly(Clean, <<Daq_Start(ch)>>, Clean)
                           /\ Cleanly(Clean, <<Daq_Stop(ch)>>, Clean)
  BY CleanCalls DEF Daq_Start, Daq_Stop, Fits, Controlling
<1>3. \A t \in {"short", "long"} : Cleanly(Clean, <<SetTimeout(t)>>, Clean)
  BY CleanCalls DEF SetTimeout, Fits, Controlling
<1>4. Cleanly(Clean, <<Pg_Loop>>, Clean)
  BY CleanCalls DEF Pg_Loop, Switch, Fits, Positions, Controlling
<1>5. Cleanly(Clean, StartChannels, Clean)
  <2> DEFINE f == [r \in Rocs |-> IF r \in Channels THEN <<Daq_Start(r)>> ELSE <<>>]
  <2>1. \A r \in Rocs : Cleanly(Clean, f[r], Clean)
    BY <1>2, CleanRules
  <2> HIDE DEF f
  <2>2. Cleanly(Clean, <<EveryRoc(f)>>, Clean)
    BY <2>1, CleanRules
  <2> QED BY <2>2 DEF StartChannels, ForChannels, f
<1>6. Cleanly(Clean, StopChannels, Clean)
  <2> DEFINE f == [r \in Rocs |-> IF r \in Channels THEN <<Daq_Stop(r)>> ELSE <<>>]
  <2>1. \A r \in Rocs : Cleanly(Clean, f[r], Clean)
    BY <1>2, CleanRules
  <2> HIDE DEF f
  <2>2. Cleanly(Clean, <<EveryRoc(f)>>, Clean)
    BY <2>1, CleanRules
  <2> QED BY <2>2 DEF StopChannels, ForChannels, f
<1> QED BY <1>1, <1>2, <1>3, <1>4, <1>5, <1>6

LEMMA StillPieces ==
    /\ Cleanly(Still, <<Flush>>, Still)
    /\ \A ch \in Channels : /\ Cleanly(Still, <<Daq_Stop(ch)>>, Still)
                            /\ Cleanly(Still, <<Daq_Start(ch)>>, Still)
                            /\ Cleanly(Still, <<Daq_Read(ch)>>, Still)
    /\ \A t \in {"short", "long"} : Cleanly(Still, <<SetTimeout(t)>>, Still)
    /\ Cleanly(Still, StartChannels, Still) /\ Cleanly(Still, StopChannels, Still)
    /\ Cleanly(Still, Arm, Still) /\ Cleanly(Still, <<roc_Pix_Cal>>, Still)
    /\ Cleanly(Still, MaskPixel, Still) /\ Cleanly(Still, EnableSelected, Still)
    /\ Cleanly(Still, MaskSelected, Still) /\ Cleanly(Still, RaiseTrims, Still)
    /\ Cleanly(Still, ForChannels(LAMBDA ch : <<Daq_Read(ch)>>), Still)
    /\ Cleanly(Still, ForChannels(LAMBDA ch : <<Daq_Stop(ch), Daq_Read(0)>>), Still)
<1> DEFINE l == Changing
<1>1. "trims" \in l.does /\ Channels \subseteq l.channels
  BY DEF Changing
<1>2. /\ Within(l, Rocs, <<Flush>>) /\ Within(l, Rocs, <<roc_Pix_Cal>>)
      /\ \A ch \in Channels : /\ Within(l, Rocs, <<Daq_Stop(ch)>>)
                              /\ Within(l, Rocs, <<Daq_Start(ch)>>)
                              /\ Within(l, Rocs, <<Daq_Read(ch)>>)
      /\ \A t \in {"short", "long"} : Within(l, Rocs, <<SetTimeout(t)>>)
  BY <1>1, One, Requests, Channeled, Stated
<1>3. /\ Within(l, Rocs, StartChannels) /\ Within(l, Rocs, StopChannels)
      /\ Within(l, Rocs, Arm) /\ Within(l, Rocs, MaskPixel)
  BY <1>1, LegalStartChannels, LegalStopChannels, Shared
<1>4. /\ Within(l, Rocs, EnableSelected) /\ Within(l, Rocs, MaskSelected)
      /\ Within(l, Rocs, RaiseTrims)
  BY <1>1, LegalEnableSelected, LegalMaskSelected, LegalRaiseTrims
<1>5. /\ Within(l, Rocs, ForChannels(LAMBDA ch : <<Daq_Read(ch)>>))
      /\ Within(l, Rocs, ForChannels(LAMBDA ch : <<Daq_Stop(ch), Daq_Read(0)>>))
  BY <1>1, One, Two, Channeled, Zero, NoCalls, AllRounds DEF ForChannels
<1> HIDE DEF l
<1>6. \A p : Within(l, Rocs, p) => Cleanly(Still, p, Still)
  BY CleanCalls DEF l
<1> QED BY <1>2, <1>3, <1>4, <1>5, <1>6

\* A period of the pattern generator, or external triggers.
LEMMA CleanTakedata == \A period \in {1, 2} : Cleanly(Still, takedataPeriod(period), Still)
<1>1. Cleanly(Still, takedataPeriod(1), Still)
  <2>2. 0 \in Changing.channels
    BY Zero DEF Changing
  <2>1. \A l : \A s \in SUBSET Rocs : 0 \in l.channels => Within(l, s, takedataPeriod(1))
    BY NoCalls, One, Two, Six, Join, Channeled, Stated, Requests, Controls, Zero
    DEF takedataPeriod
  <2> QED BY <2>1, <2>2, CleanCalls
<1>2. Cleanly(Still, takedataPeriod(2), Still)
  <2> DEFINE turn == <<Flush>> \o <<Pg_Stop, Daq_Stop(0)>> \o <<Daq_Read(0)>>
                     \o <<Daq_Start(0), Pg_Loop>> \o <<Flush>>
  <2>1. /\ Cleanly(Clean, <<Flush>>, Clean) /\ Cleanly(Clean, <<Pg_Stop>>, Still)
        /\ Cleanly(Still, <<Daq_Stop(0)>>, Still) /\ Cleanly(Clean, <<Daq_Stop(0)>>, Clean)
        /\ Cleanly(Still, <<Daq_Read(0)>>, Still)
        /\ Cleanly(Still, <<Daq_Start(0)>>, Still) /\ Cleanly(Still, <<Pg_Loop>>, Clean)
        /\ Cleanly(Clean, <<SetTimeout("short")>>, Clean)
        /\ Cleanly(Still, <<SetTimeout("long")>>, Still) /\ Cleanly(Still, <<Flush>>, Still)
    BY CleanPieces, StillPieces, CleanCalls, Zero
  <2>2. Cleanly(Clean, turn, Clean)
    <3>1. Cleanly(Clean, <<Pg_Stop, Daq_Stop(0)>>, Still) /\ Cleanly(Still, <<Daq_Start(0), Pg_Loop>>, Clean)
      BY <2>1, CleanTuples
    <3> QED BY <2>1, <3>1, CleanRules
  <2> HIDE DEF turn
  <2>3. Cleanly(Clean, <<Again(turn)>>, Clean)
    BY <2>2, CleanRules
  <2>4. Cleanly(Still, <<Daq_Start(0), Pg_Loop, SetTimeout("short"), Flush, Again(turn), Daq_Stop(0)>>,
                Clean)
    <3>1. Cleanly(Still, <<Daq_Start(0), Pg_Loop>>, Clean)
      BY <2>1, CleanTuples
    <3>2. Cleanly(Still, <<Daq_Start(0), Pg_Loop, SetTimeout("short")>>, Clean)
      BY <2>1, <3>1, CleanTuples
    <3>3. Cleanly(Still, <<Daq_Start(0), Pg_Loop, SetTimeout("short"), Flush>>, Clean)
      BY <2>1, <3>2, CleanTuples
    <3>4. Cleanly(Still, <<Daq_Start(0), Pg_Loop, SetTimeout("short"), Flush, Again(turn)>>, Clean)
      BY <2>3, <3>3, CleanTuples
    <3> QED BY <2>1, <3>4, CleanTuples
  <2>5. Cleanly(Still, <<SetTimeout("long"), Flush>>, Still)
    BY <2>1, CleanTuples
  <2>6. Cleanly(Still, <<Daq_Start(0), Pg_Loop, SetTimeout("short"), Flush, Again(turn), Daq_Stop(0)>>
                       \o <<Pg_Stop>> \o <<SetTimeout("long"), Flush>>, Still)
    BY <2>1, <2>4, <2>5, CleanRules
  <2> QED BY <2>6 DEF takedataPeriod, turn
<1> QED BY <1>1, <1>2

LEMMA CleanOnevst == Cleanly(Still, onevst, Still)
<1> DEFINE turn == <<Pg_Stop, Daq_Stop(0), Daq_Read(0), Daq_Start(0), Pg_Loop, Flush>>
<1>1. /\ Cleanly(Clean, <<Flush>>, Clean) /\ Cleanly(Clean, <<Pg_Stop>>, Still)
      /\ Cleanly(Still, <<Daq_Stop(0)>>, Still) /\ Cleanly(Clean, <<Daq_Stop(0)>>, Clean)
      /\ Cleanly(Still, <<Daq_Read(0)>>, Still) /\ Cleanly(Still, <<roc_Pix_Cal>>, Still)
      /\ Cleanly(Still, <<Daq_Start(0)>>, Still) /\ Cleanly(Still, <<Pg_Loop>>, Clean)
      /\ Cleanly(Clean, <<SetTimeout("short")>>, Clean)
      /\ Cleanly(Still, <<SetTimeout("long")>>, Still) /\ Cleanly(Still, <<Flush>>, Still)
      /\ Cleanly(Still, Arm, Still) /\ Cleanly(Still, MaskPixel, Still)
  BY CleanPieces, StillPieces, CleanCalls, Zero
<1>2. Cleanly(Clean, turn, Clean)
  <2>1. Cleanly(Clean, <<Pg_Stop, Daq_Stop(0)>>, Still)
    BY <1>1, CleanTuples
  <2>2. Cleanly(Clean, <<Pg_Stop, Daq_Stop(0), Daq_Read(0)>>, Still)
    BY <1>1, <2>1, CleanTuples
  <2>3. Cleanly(Clean, <<Pg_Stop, Daq_Stop(0), Daq_Read(0), Daq_Start(0)>>, Still)
    BY <1>1, <2>2, CleanTuples
  <2>4. Cleanly(Clean, <<Pg_Stop, Daq_Stop(0), Daq_Read(0), Daq_Start(0), Pg_Loop>>, Clean)
    BY <1>1, <2>3, CleanTuples
  <2> QED BY <1>1, <2>4, CleanTuples
<1> HIDE DEF turn
<1>3. Cleanly(Clean, <<Again(turn)>>, Clean)
  BY <1>2, CleanRules
<1>4. Cleanly(Still, <<roc_Pix_Cal, Daq_Start(0), Pg_Loop, SetTimeout("short"), Flush>>, Clean)
  <2>1. Cleanly(Still, <<roc_Pix_Cal, Daq_Start(0)>>, Still)
    BY <1>1, CleanTuples
  <2>2. Cleanly(Still, <<roc_Pix_Cal, Daq_Start(0), Pg_Loop>>, Clean)
    BY <1>1, <2>1, CleanTuples
  <2>3. Cleanly(Still, <<roc_Pix_Cal, Daq_Start(0), Pg_Loop, SetTimeout("short")>>, Clean)
    BY <1>1, <2>2, CleanTuples
  <2> QED BY <1>1, <2>3, CleanTuples
<1>5. Cleanly(Clean, <<Again(turn), Daq_Stop(0), Pg_Stop, SetTimeout("long")>>, Still)
  <2>1. Cleanly(Clean, <<Again(turn), Daq_Stop(0)>>, Clean)
    BY <1>1, <1>3, CleanTuples
  <2>2. Cleanly(Clean, <<Again(turn), Daq_Stop(0), Pg_Stop>>, Still)
    BY <1>1, <2>1, CleanTuples
  <2> QED BY <1>1, <2>2, CleanTuples
<1>6. <<roc_Pix_Cal, Daq_Start(0), Pg_Loop, SetTimeout("short"), Flush, Again(turn),
        Daq_Stop(0), Pg_Stop, SetTimeout("long")>>
      = <<roc_Pix_Cal, Daq_Start(0), Pg_Loop, SetTimeout("short"), Flush>>
        \o <<Again(turn), Daq_Stop(0), Pg_Stop, SetTimeout("long")>>
  OBVIOUS
<1>7. Cleanly(Still, Arm \o <<roc_Pix_Cal, Daq_Start(0), Pg_Loop, SetTimeout("short"), Flush,
                             Again(turn), Daq_Stop(0), Pg_Stop, SetTimeout("long")>>
                     \o MaskPixel \o <<Flush>>, Still)
  BY <1>1, <1>4, <1>5, <1>6, CleanRules
<1> QED BY <1>7 DEF onevst, turn

LEMMA CleanModtd == \A period \in {1, 2} : Cleanly(Still, modtdPeriod(period), Still)
<1>1. Cleanly(Still, modtdPeriod(1), Still)
  <2>2. Channels \subseteq Changing.channels
    BY DEF Changing
  <2>1. \A l : \A s \in SUBSET Rocs :
            Channels \subseteq l.channels => Within(l, s, modtdPeriod(1))
    BY NoCalls, One, Two, Join, LegalStartChannels, Stated, Requests, Controls,
       LegalStopChannels, Channeled, AllRounds
    DEF modtdPeriod, ForChannels
  <2> QED BY <2>1, <2>2, CleanCalls
<1>2. Cleanly(Still, modtdPeriod(2), Still)
  <2> DEFINE data == ForChannels(LAMBDA ch : <<Daq_Read(ch)>>)
             turn == <<Flush>> \o (<<Pg_Stop>> \o StopChannels) \o data
                     \o (StartChannels \o <<Pg_Loop, Flush>>)
  <2>1. /\ Cleanly(Clean, <<Flush>>, Clean) /\ Cleanly(Clean, <<Pg_Stop>>, Still)
        /\ Cleanly(Still, <<Flush>>, Still) /\ Cleanly(Clean, <<Pg_Loop>>, Clean)
        /\ Cleanly(Still, <<Pg_Loop>>, Clean)
        /\ Cleanly(Still, StopChannels, Still) /\ Cleanly(Still, StartChannels, Still)
        /\ Cleanly(Clean, StopChannels, Clean) /\ Cleanly(Clean, StartChannels, Clean)
        /\ Cleanly(Still, data, Still)
    BY CleanPieces, StillPieces, CleanCalls
  <2> HIDE DEF data
  <2>2. Cleanly(Still, <<Pg_Loop, Flush>>, Clean) /\ Cleanly(Clean, <<Pg_Stop, Flush>>, Still)
    BY <2>1, CleanTuples
  <2>3. Cleanly(Clean, turn, Clean)
    <3>1. Cleanly(Clean, <<Pg_Stop>> \o StopChannels, Still)
          /\ Cleanly(Still, StartChannels \o <<Pg_Loop, Flush>>, Clean)
      BY <2>1, <2>2, CleanRules
    <3> QED BY <2>1, <3>1, CleanRules
  <2> HIDE DEF turn
  <2>4. Cleanly(Clean, <<Flush, Again(turn)>>, Clean)
    <3>1. Cleanly(Clean, <<Again(turn)>>, Clean)
      BY <2>3, CleanRules
    <3> QED BY <2>1, <3>1, CleanTuples
  <2>5. Cleanly(Still, StartChannels \o <<Pg_Loop>> \o <<Flush, Again(turn)>> \o StopChannels
                       \o <<Pg_Stop, Flush>>, Still)
    BY <2>1, <2>2, <2>4, CleanRules
  <2>6. modtdPeriod(2) = StartChannels \o <<Pg_Loop>> \o <<Flush, Again(turn)>> \o StopChannels
                         \o <<Pg_Stop, Flush>>
    BY DEF modtdPeriod, turn, data, ForChannels
  <2> QED BY <2>5, <2>6
<1> QED BY <1>1, <1>2

LEMMA CleanNoiseRun == Cleanly(Still, NoiseRun, Still)
<1> DEFINE data == ForChannels(LAMBDA ch : <<Daq_Stop(ch), Daq_Read(0)>>)
           turn == <<Flush, Pg_Stop>> \o data \o StartChannels \o <<Pg_Loop, Flush>>
<1>1. /\ Cleanly(Clean, <<Flush>>, Clean) /\ Cleanly(Clean, <<Pg_Stop>>, Still)
      /\ Cleanly(Still, <<Flush>>, Still) /\ Cleanly(Still, <<Pg_Loop>>, Clean)
      /\ Cleanly(Still, StartChannels, Still) /\ Cleanly(Still, StopChannels, Still)
      /\ Cleanly(Still, data, Still)
  BY CleanPieces, StillPieces, CleanCalls
<1> HIDE DEF data
<1>2. Cleanly(Clean, <<Flush, Pg_Stop>>, Still) /\ Cleanly(Still, <<Pg_Loop, Flush>>, Clean)
  BY <1>1, CleanTuples
<1>3. Cleanly(Clean, turn, Clean)
  BY <1>1, <1>2, CleanRules
<1> HIDE DEF turn
<1>4. Cleanly(Clean, Some(turn), Clean)
  BY <1>3, CleanRules DEF Some
<1>5. Cleanly(Still, StartChannels \o <<Pg_Loop, Flush>> \o Some(turn) \o <<Pg_Stop>>
                     \o StopChannels \o <<Flush>>, Still)
  BY <1>1, <1>2, <1>4, CleanRules
<1> QED BY <1>5 DEF NoiseRun, turn, data

\* A command that starts the loop stops it before it reads, and but for
\* pgloop before it ends.
LEMMA CleanLooping ==
    /\ Cleanly(Still, pgloop, Clean)
    /\ \A p \in {takedata, onevst, modtd, modtrimbits, modnoise} : Cleanly(Still, p, Still)
<1>1. Cleanly(Still, pgloop, Clean)
  <2>1. Cleanly(Still, <<Pg_Loop>>, Clean) /\ Cleanly(Clean, <<Flush>>, Clean)
    BY CleanPieces, CleanCalls
  <2>2. Cleanly(Still, <<Pg_Loop>> \o <<Flush>>, Clean)
    BY <2>1, CleanRules
  <2> QED BY <2>2 DEF pgloop, Command
<1>2. Cleanly(Still, takedata, Still)
  <2> DEFINE ways == [period \in {1, 2} |-> takedataPeriod(period)]
  <2>1. \A k \in DOMAIN ways : Cleanly(Still, ways[k], Still)
    BY CleanTakedata
  <2> HIDE DEF ways
  <2>2. Cleanly(Still, <<Either(ways)>>, Still)
    BY <2>1, CleanRules
  <2> QED BY <2>2 DEF takedata, AnyOf, ways
<1>3. Cleanly(Still, modtd, Still)
  <2> DEFINE ways == [period \in {1, 2} |-> modtdPeriod(period)]
  <2>1. \A k \in DOMAIN ways : Cleanly(Still, ways[k], Still)
    BY CleanModtd
  <2> HIDE DEF ways
  <2>2. Cleanly(Still, <<Either(ways)>>, Still)
    BY <2>1, CleanRules
  <2> QED BY <2>2 DEF modtd, AnyOf, ways
<1>4. Cleanly(Still, modtrimbits, Still) /\ Cleanly(Still, modnoise, Still)
  <2>1. Cleanly(Still, NoiseRun \o RaiseTrims, Still)
    BY CleanNoiseRun, StillPieces, CleanRules
  <2>2. Cleanly(Still, Some(NoiseRun \o RaiseTrims), Still)
    BY <2>1, CleanRules DEF Some
  <2>3. Cleanly(Still, EnableSelected \o Some(NoiseRun \o RaiseTrims) \o MaskSelected, Still)
    BY <2>2, StillPieces, CleanRules
  <2> QED BY <2>3 DEF modtrimbits, modnoise
<1> QED BY <1>1, <1>2, <1>3, <1>4, CleanOnevst

\* Each command, with any ROCs selected.
LEMMA CleanCommands ==
    TheTable =>
        \A c \in Commands : \A v \in Still : Allowed(c, v.roclist) =>
            LET b == IF c = "pgloop" THEN Clean ELSE Still IN
            Runs(Clean, b, b, Procedure[c], v)
<1> SUFFICES ASSUME TheTable, NEW c \in Commands, NEW v \in Still, Allowed(c, v.roclist)
             PROVE  LET b == IF c = "pgloop" THEN Clean ELSE Still IN
                    Runs(Clean, b, b, Procedure[c], v)
  OBVIOUS
<1>1. v \in Clean /\ v.roclist \in Selections /\ v.roclist \subseteq Rocs
  BY DEF Still, Clean, Views, Selections
<1>2. CASE c \notin Looping
  <2> DEFINE s == Around(c, v.roclist)
             l == Licence(c, s)
  <2>1. Within(l, s, Procedure[c])
    BY <1>1, TableWithin
  <2>2. "loop" \notin l.does
    BY <1>2 DEF Licence
  <2>3. \A t \in l.selects : t \subseteq s
    BY DEF Licence, Selections, Around
  <2>4. v \in Among(s)
    BY <1>1 DEF Among, Around
  <2>5. Among(s) \subseteq Clean
    BY DEF Among
  <2> HIDE DEF l, s
  <2>6. Runs(Among(s), Still, Still, Procedure[c], v)
    BY <2>1, <2>2, <2>3, <2>4, StillKept DEF Triple
  <2>7. Runs(Clean, Still, Still, Procedure[c], v)
    BY <2>5, <2>6, Widened
  <2> QED BY <1>2, <2>7 DEF Looping
<1>3. CASE c \in Looping
  <2>1. /\ Procedure["pgloop"] = pgloop /\ Procedure["takedata"] = takedata
        /\ Procedure["onevst"] = onevst /\ Procedure["modtd"] = modtd
        /\ Procedure["modtrimbits"] = modtrimbits /\ Procedure["modnoise"] = modnoise
    BY SMTT(30) DEF TheTable, TheProcedure, TheTests, SetUp, OneRoc, SelectedRocs, AllRocs
  <2>2. CASE c = "pgloop"
    <3>1. Triple(Clean, Still, pgloop, Clean, Clean)
      BY CleanLooping, Weaker DEF Cleanly, Still
    <3> QED BY <1>1, <2>1, <2>2, <3>1 DEF Triple
  <2>3. CASE c # "pgloop"
    <3>1. Triple(Clean, Still, Procedure[c], Still, Still)
      BY <1>3, <2>1, <2>3, CleanLooping DEF Looping, Cleanly
    <3> QED BY <1>1, <2>3, <3>1 DEF Triple
  <2> QED BY <2>2, <2>3
<1> QED BY <1>2, <1>3

\* CleanRead: no command of cmd.cpp, typed on a board that is set up, reads
\* data while the pattern generator fires triggers in a loop, whatever the
\* data say and however often it takes them.
THEOREM ReadsClean == TheTable /\ MaxCommands = 1 /\ MaxThrows = 0 /\ Spec => []CleanRead
<1> DEFINE C == Commands
           V == [c \in C |-> Clean]
           B == [c \in C |-> IF c = "pgloop" THEN Clean ELSE Still]
<1>1. ASSUME TheTable, MaxCommands = 1 PROVE Certain(C, V, B)
  <2>1. Beginning \subseteq Still
    <3>1. ASSUME NEW v \in Beginning PROVE v \in Still
      <4>1. v \in Views /\ v.live = FALSE
        BY DEF Beginning
      <4>2. v.now.loop = "off"
        BY DEF Beginning, Healthy
      <4> QED BY <4>1, <4>2 DEF Still, Clean
    <3> QED BY <3>1
  <2>2. \A c \in C : \A v \in Still : Allowed(c, v.roclist) => Runs(V[c], B[c], B[c], Procedure[c], v)
    BY <1>1, CleanCommands
  <2> HIDE DEF C, V, B
  <2> QED BY <1>1, <2>1, <2>2 DEF Certain
<1> HIDE DEF V, B
<1>2. ASSUME TheTable, MaxThrows = 0, TypeOK, OnTheWay(C, V, B) PROVE CleanRead
  <2>1. outcome \in {"running", "done"}
    BY <1>2 DEF OnTheWay, TypeOK
  <2>2. CASE command \in C
    <3>0. command # "none"
      <4>1. "none" \notin Commands
        BY SMTT(30), <1>2 DEF Commands, TheTable, TheProcedure, TheTests, SetUp, OneRoc, SelectedRocs, AllRocs
      <4> QED BY <2>2, <4>1
    <3>1. View \in V[command]
      BY <1>2, <2>1, <2>2, <3>0, RunsFacts DEF OnTheWay
    <3>2. View \in Clean
      BY <2>2, <3>1 DEF V
    <3> QED BY <3>2, ViewIs DEF Clean, CleanRead
  <2>3. CASE command \notin C
    BY <1>2, <2>3, ViewIs DEF OnTheWay, Beginning, CleanRead
  <2> QED BY <2>2, <2>3
<1>3. ASSUME TheTable, MaxCommands = 1, MaxThrows = 0 PROVE Spec => []CleanRead
  <2>1. Spec => []TypeOK
    BY <1>3, CommandsTyped
  <2>2. TypeOK /\ Init => OnTheWay(C, V, B)
    BY WayInit
  <2>3. TypeOK /\ TypeOK' /\ OnTheWay(C, V, B) /\ [Next]_vars => OnTheWay(C, V, B)'
    BY <1>1, <1>3, WayNext
  <2>4. TypeOK /\ OnTheWay(C, V, B) => CleanRead
    BY <1>2, <1>3
  <2> QED BY <2>1, <2>2, <2>3, <2>4, PTL DEF Spec
<1> QED BY <1>3
-----------------------------------------------------------------------------
\* Sent.

\* Nothing waits for a flush.
Flushed == {v \in Views : ~v.unsent}
\* Whatever waited before, the procedure p ends, and returns, with nothing that
\* waits; it does if nothing waited before; it may leave requests that wait.
Sends(p) == Triple(Views, Views, p, Flushed, Flushed)
Stays(p) == Triple(Views, Flushed, p, Flushed, Flushed)
Loose(p) == Triple(Views, Views, p, Views, Flushed)

\* Calls of all kinds but a return.
Anything == [copies |-> Rocs \X Dacs, does |-> {"power", "trims", "loop"},
             selects |-> Selections, channels |-> Channels]
Plainly(p) == Within(Anything, Rocs, p)

LEMMA PlainlyLoose == \A p : Plainly(p) => Loose(p) /\ IsSeq(p)
<1> SUFFICES ASSUME NEW p, Plainly(p) PROVE Loose(p) /\ IsSeq(p)
  OBVIOUS
<1>1. "return" \notin Anything.does
  BY DEF Anything
<1>2. \A v \in Views : v.roclist \subseteq Rocs
  BY DEF Views, Selections
<1>3. Triple(Views, Views, p, Views, Flushed)
  BY <1>1, <1>2, Footprint DEF Plainly
<1> QED BY <1>3 DEF Loose, Triple

LEMMA PlainlyParts ==
    \A p, q : Plainly(p \o q) /\ IsSeq(p) /\ IsSeq(q) => Plainly(p) /\ Plainly(q)
<1> SUFFICES ASSUME NEW p, NEW q, Plainly(p \o q), IsSeq(p), IsSeq(q)
             PROVE  Plainly(p) /\ Plainly(q)
  OBVIOUS
<1>1. PICK S : Good(Anything, Rocs, S) /\ p \o q \in Seq(S)
  BY DEF Plainly, Within
<1>2. PICK U : p \in Seq(U) /\ q \in Seq(U)
  BY Together
<1>3. /\ Len(p) \in Nat /\ Len(q) \in Nat /\ Len(p \o q) = Len(p) + Len(q)
      /\ \A k \in 1 .. Len(p) + Len(q) :
            (p \o q)[k] = IF k <= Len(p) THEN p[k] ELSE q[k - Len(p)]
  BY <1>2, ConcatProperties, LenProperties
<1>4. ASSUME NEW k \in 1 .. Len(p) PROVE p[k] \in S
  BY <1>1, <1>3, ElementOfSeq
<1>5. ASSUME NEW k \in 1 .. Len(q) PROVE q[k] \in S
  <2>1. k + Len(p) \in 1 .. Len(p) + Len(q) /\ ~(k + Len(p) <= Len(p))
        /\ (k + Len(p)) - Len(p) = k
    BY <1>3
  <2> QED BY <1>1, <1>3, <2>1, ElementOfSeq
<1>6. p = [k \in 1 .. Len(p) |-> p[k]] /\ q = [k \in 1 .. Len(q) |-> q[k]]
  BY <1>2, SeqDef, LenProperties
<1>7. p \in Seq(S) /\ q \in Seq(S)
  BY <1>3, <1>4, <1>5, <1>6, IsASeq
<1> QED BY <1>1, <1>7 DEF Plainly, Within

\* A call that waits.
LEMMA WaitSends ==
    /\ \A i : i.do \in Waits => Sends(<<i>>)
    /\ \A i : i.do \in {"dacval", "keep", "modtrm", "phase", "timeout"} => Stays(<<i>>)
<1>1. ASSUME NEW i, i.do \in Waits PROVE Sends(<<i>>)
  <2>1. i.do \notin Controlling
    BY <1>1 DEF Waits, Controlling
  <2>2. ASSUME NEW v \in Views, NEW w \in Views, Moves(i, v, w) PROVE w \in Flushed
    <3>1. w.unsent = FALSE
      BY <1>1, <2>2 DEF Moves, Voids, Waits, Settles
    <3> QED BY <2>2, <3>1 DEF Flushed
  <2> QED BY <2>1, <2>2, Acts DEF Sends
<1>2. ASSUME NEW i, i.do \in {"dacval", "keep", "modtrm", "phase", "timeout"}
      PROVE  Stays(<<i>>)
  <2>1. i.do \notin Controlling
    BY <1>2 DEF Controlling
  <2>2. ASSUME NEW v \in Flushed \cap Views, NEW w \in Views, Moves(i, v, w) PROVE w \in Flushed
    <3>1. \E f \in {"dacval", "kept", "now", "phase", "timeout"} : Same(v, w, {f})
      BY <1>2, <2>2 DEF Moves, Voids
    <3>2. w.unsent = v.unsent
      BY <3>1 DEF Same, Fields
    <3> QED BY <2>2, <3>2 DEF Flushed
  <2> QED BY <2>1, <2>2, Acts DEF Stays
<1> QED BY <1>1, <1>2

LEMMA SendsRules ==
    /\ \A p : Sends(p) => Stays(p) /\ Loose(p)
    /\ \A p, q : Loose(p) /\ Loose(q) => Loose(p \o q)
    /\ \A p, q : Loose(p) /\ Sends(q) => Sends(p \o q)
    /\ \A p, q : Sends(p) /\ Stays(q) => Sends(p \o q)
    /\ \A p, q : Stays(p) /\ Stays(q) => Stays(p \o q)
    /\ \A p : Stays(p) => Stays(<<Again(p)>>) /\ Stays(<<Call(p)>>)
    /\ \A p : Sends(p) => Sends(<<Call(p)>>) /\ Sends(Some(p))
    /\ \A f : (\A k \in DOMAIN f : Stays(f[k])) => Stays(<<Either(f)>>)
    /\ \A f : (\A k \in DOMAIN f : Sends(f[k])) => Sends(<<Either(f)>>)
    /\ \A f : (\A r \in Rocs : Stays(f[r])) => Stays(<<EveryRoc(f)>>) /\ Stays(<<EachRoc(f)>>)
    /\ Stays(<<>>) /\ Stays(<<Return>>)
<1>0. Flushed \subseteq Views
  BY DEF Flushed
<1>1. \A p : Sends(p) => Stays(p) /\ Loose(p)
  BY <1>0, Weaker DEF Sends, Stays, Loose
<1>2. \A p, q : Loose(p) /\ Loose(q) => Loose(p \o q)
  BY Sequel DEF Loose
<1>3. \A p, q : Loose(p) /\ Sends(q) => Sends(p \o q)
  BY Sequel DEF Loose, Sends
<1>4. \A p, q : Sends(p) /\ Stays(q) => Sends(p \o q)
  BY Sequel DEF Stays, Sends
<1>5. \A p, q : Stays(p) /\ Stays(q) => Stays(p \o q)
  BY Sequel DEF Stays
<1>6. \A p : Stays(p) => Stays(<<Again(p)>>) /\ Stays(<<Call(p)>>)
  BY Repeats, Called DEF Stays
<1>7. \A p : Sends(p) => Sends(<<Call(p)>>) /\ Sends(Some(p))
  BY <1>1, <1>4, <1>6, Called DEF Sends, Some
<1>8. \A f : (\A k \in DOMAIN f : Stays(f[k])) => Stays(<<Either(f)>>)
  BY Chooses DEF Stays
<1>9. \A f : (\A k \in DOMAIN f : Sends(f[k])) => Sends(<<Either(f)>>)
  BY Chooses DEF Sends
<1>10. ASSUME NEW f, \A r \in Rocs : Stays(f[r])
       PROVE  Stays(<<EveryRoc(f)>>) /\ Stays(<<EachRoc(f)>>)
  <2> DEFINE I == [k \in 0 .. MaxRoc + 1 |-> Flushed]
  <2>0. \A r \in Rocs : I[r] = Flushed /\ I[r + 1] = Flushed
    BY CallsAssumption DEF Rocs
  <2>00. I[0] = Flushed /\ I[MaxRoc + 1] = Flushed
    BY CallsAssumption
  <2> HIDE DEF I
  <2>1. ASSUME NEW r \in Rocs, NEW all \in BOOLEAN
        PROVE  Triple(Views, {v \in I[r] : all \/ r \in v.roclist}, f[r], I[r + 1], Flushed)
    <3>1. Triple(Views, Flushed, f[r], Flushed, Flushed)
      BY <1>10 DEF Stays
    <3>2. \A v \in {u \in I[r] : all \/ r \in u.roclist} : v \in Flushed
      BY <2>0
    <3>3. I[r + 1] = Flushed
      BY <2>0
    <3> QED BY <3>1, <3>2, <3>3, Weaker
  <2>2. \A all \in BOOLEAN : \A r \in Rocs : \A v \in I[r] \cap Views :
            all \/ r \in v.roclist \/ v \in I[r + 1]
    BY <2>0
  <2>3. ASSUME NEW all \in BOOLEAN
        PROVE  Triple(Views, I[0], <<[do |-> "each", of |-> f, roc |-> 0, all |-> all]>>,
                      I[MaxRoc + 1], Flushed)
    BY <2>1, <2>2, Turns
  <2> QED BY <2>00, <2>3 DEF Stays, EveryRoc, EachRoc
<1>11. Stays(<<>>) /\ Stays(<<Return>>)
  BY Skips, Returns DEF Stays
<1> QED BY <1>1, <1>2, <1>3, <1>4, <1>5, <1>6, <1>7, <1>8, <1>9, <1>10, <1>11

\* A flush is the last call.
Flushes(p) == \E x : IsSeq(x) /\ p = x \o <<Flush>>

LEMMA Strung ==
    /\ \A a : IsSeq(<<a>>)
    /\ \A a, b : IsSeq(<<a, b>>)
    /\ \A a, b, c : IsSeq(<<a, b, c>>)
    /\ \A a, b, c, d : IsSeq(<<a, b, c, d>>)
    /\ \A a, b, c, d, e : IsSeq(<<a, b, c, d, e>>)
    /\ \A a, b, c, d, e, f : IsSeq(<<a, b, c, d, e, f>>)
    /\ \A a, b, c, d, e, f, g : IsSeq(<<a, b, c, d, e, f, g>>)
    /\ \A a, b, c, d, e, f, g, h : IsSeq(<<a, b, c, d, e, f, g, h>>)
    /\ \A a, b, c, d, e, f, g, h, i : IsSeq(<<a, b, c, d, e, f, g, h, i>>)
    /\ \A a, b, c, d, e, f, g, h, i, j : IsSeq(<<a, b, c, d, e, f, g, h, i, j>>)
    /\ \A a, b, c, d, e, f, g, h, i, j, k : IsSeq(<<a, b, c, d, e, f, g, h, i, j, k>>)
    /\ \A a, b, c, d, e, f, g, h, i, j, k, l : IsSeq(<<a, b, c, d, e, f, g, h, i, j, k, l>>)
    /\ \A a, b, c, d, e, f, g, h, i, j, k, l, m : IsSeq(<<a, b, c, d, e, f, g, h, i, j, k, l, m>>)
    /\ IsSeq(<<>>) /\ \A p, q : IsSeq(p) /\ IsSeq(q) => IsSeq(p \o q)
    /\ \A p : IsSeq(p) => IsSeq(Some(p))
<1>1. \A a : IsSeq(<<a>>)
  BY Alone DEF IsSeq
<1>2. ASSUME NEW a, NEW b PROVE IsSeq(<<a, b>>)
  <2>1. <<a, b>> \in Seq({a, b})
    OBVIOUS
  <2> QED BY <2>1 DEF IsSeq
<1>3. ASSUME NEW a, NEW b, NEW c PROVE IsSeq(<<a, b, c>>)
  <2>1. <<a, b, c>> \in Seq({a, b, c})
    OBVIOUS
  <2> QED BY <2>1 DEF IsSeq
<1>4. ASSUME NEW a, NEW b, NEW c, NEW d PROVE IsSeq(<<a, b, c, d>>)
  <2>1. <<a, b, c, d>> \in Seq({a, b, c, d})
    OBVIOUS
  <2> QED BY <2>1 DEF IsSeq
<1>5. ASSUME NEW a, NEW b, NEW c, NEW d, NEW e PROVE IsSeq(<<a, b, c, d, e>>)
  <2>1. <<a, b, c, d, e>> \in Seq({a, b, c, d, e})
    OBVIOUS
  <2> QED BY <2>1 DEF IsSeq
<1>6. ASSUME NEW a, NEW b, NEW c, NEW d, NEW e, NEW f PROVE IsSeq(<<a, b, c, d, e, f>>)
  <2>1. <<a, b, c, d, e, f>> \in Seq({a, b, c, d, e, f})
    OBVIOUS
  <2> QED BY <2>1 DEF IsSeq
<1>7. ASSUME NEW a, NEW b, NEW c, NEW d, NEW e, NEW f, NEW g PROVE IsSeq(<<a, b, c, d, e, f, g>>)
  <2>1. <<a, b, c, d, e, f, g>> \in Seq({a, b, c, d, e, f, g})
    OBVIOUS
  <2> QED BY <2>1 DEF IsSeq
<1>8. ASSUME NEW a, NEW b, NEW c, NEW d, NEW e, NEW f, NEW g, NEW h
      PROVE  IsSeq(<<a, b, c, d, e, f, g, h>>)
  <2>1. <<a, b, c, d, e, f, g, h>> \in Seq({a, b, c, d, e, f, g, h})
    OBVIOUS
  <2> QED BY <2>1 DEF IsSeq
<1>9. ASSUME NEW a, NEW b, NEW c, NEW d, NEW e, NEW f, NEW g, NEW h, NEW i
      PROVE  IsSeq(<<a, b, c, d, e, f, g, h, i>>)
  <2>1. <<a, b, c, d, e, f, g, h, i>> \in Seq({a, b, c, d, e, f, g, h, i})
    OBVIOUS
  <2> QED BY <2>1 DEF IsSeq
<1>10. ASSUME NEW a, NEW b, NEW c, NEW d, NEW e, NEW f, NEW g, NEW h, NEW i, NEW j
       PROVE  IsSeq(<<a, b, c, d, e, f, g, h, i, j>>)
  <2>1. <<a, b, c, d, e, f, g, h, i, j>> \in Seq({a, b, c, d, e, f, g, h, i, j})
    OBVIOUS
  <2> QED BY <2>1 DEF IsSeq
<1>11. ASSUME NEW a, NEW b, NEW c, NEW d, NEW e, NEW f, NEW g, NEW h, NEW i, NEW j, NEW k
       PROVE  IsSeq(<<a, b, c, d, e, f, g, h, i, j, k>>)
  <2>1. <<a, b, c, d, e, f, g, h, i, j, k>> \in Seq({a, b, c, d, e, f, g, h, i, j, k})
    OBVIOUS
  <2> QED BY <2>1 DEF IsSeq
<1>12. ASSUME NEW a, NEW b, NEW c, NEW d, NEW e, NEW f, NEW g, NEW h, NEW i, NEW j, NEW k, NEW l
       PROVE  IsSeq(<<a, b, c, d, e, f, g, h, i, j, k, l>>)
  <2>1. <<a, b, c, d, e, f, g, h, i, j, k, l>> \in Seq({a, b, c, d, e, f, g, h, i, j, k, l})
    OBVIOUS
  <2> QED BY <2>1 DEF IsSeq
<1>13. ASSUME NEW a, NEW b, NEW c, NEW d, NEW e, NEW f, NEW g, NEW h, NEW i, NEW j, NEW k,
              NEW l, NEW m
       PROVE  IsSeq(<<a, b, c, d, e, f, g, h, i, j, k, l, m>>)
  <2>1. <<a, b, c, d, e, f, g, h, i, j, k, l, m>> \in Seq({a, b, c, d, e, f, g, h, i, j, k, l, m})
    OBVIOUS
  <2> QED BY <2>1 DEF IsSeq
<1>14. IsSeq(<<>>) /\ \A p, q : IsSeq(p) /\ IsSeq(q) => IsSeq(p \o q)
  BY SeqLaws
<1>15. \A p : IsSeq(p) => IsSeq(Some(p))
  BY <1>1, <1>14 DEF Some
<1> QED BY <1>1, <1>2, <1>3, <1>4, <1>5, <1>6, <1>7, <1>8, <1>9, <1>10, <1>11, <1>12, <1>13, <1>14, <1>15, Zenon

LEMMA FlushesLast ==
    /\ Flushes(<<Flush>>)
    /\ \A a : Flushes(<<a, Flush>>)
    /\ \A a, b : Flushes(<<a, b, Flush>>)
    /\ \A a, b, c : Flushes(<<a, b, c, Flush>>)
    /\ \A a, b, c, d : Flushes(<<a, b, c, d, Flush>>)
    /\ \A a, b, c, d, e : Flushes(<<a, b, c, d, e, Flush>>)
    /\ \A a, b, c, d, e, f : Flushes(<<a, b, c, d, e, f, Flush>>)
    /\ \A a, b, c, d, e, f, g : Flushes(<<a, b, c, d, e, f, g, Flush>>)
    /\ \A a, b, c, d, e, f, g, h : Flushes(<<a, b, c, d, e, f, g, h, Flush>>)
    /\ \A a, b, c, d, e, f, g, h, i : Flushes(<<a, b, c, d, e, f, g, h, i, Flush>>)
    /\ \A a, b, c, d, e, f, g, h, i, j : Flushes(<<a, b, c, d, e, f, g, h, i, j, Flush>>)
    /\ \A a, b, c, d, e, f, g, h, i, j, k : Flushes(<<a, b, c, d, e, f, g, h, i, j, k, Flush>>)
    /\ \A a, b, c, d, e, f, g, h, i, j, k, l : Flushes(<<a, b, c, d, e, f, g, h, i, j, k, l, Flush>>)
    /\ \A p, q : IsSeq(p) /\ Flushes(q) => Flushes(p \o q)
<1>b. \A p : IsSeq(p) => Flushes(p \o <<Flush>>)
  BY DEF Flushes
<1>0. Flushes(<<Flush>>)
  <2>1. <<>> \o <<Flush>> = <<Flush>>
    OBVIOUS
  <2> QED BY <1>b, <2>1, Strung DEF Flushes
<1>a1. ASSUME NEW a, NEW x, x = Flush PROVE Flushes(<<a, x>>)
  <2>1. <<a, x>> = <<a>> \o <<x>>
    BY Pairs, Zenon
  <2>2. IsSeq(<<a>>)
    BY Strung, Zenon
  <2> QED BY <1>a1, <2>1, <2>2 DEF Flushes
<1>1. \A a : Flushes(<<a, Flush>>)
  BY <1>a1, Zenon
<1>a2. ASSUME NEW a, NEW b, NEW x, x = Flush PROVE Flushes(<<a, b, x>>)
  <2>1. <<a, b, x>> = <<a, b>> \o <<x>>
    OBVIOUS
  <2>2. IsSeq(<<a, b>>)
    BY Strung, Zenon
  <2> QED BY <1>a2, <2>1, <2>2 DEF Flushes
<1>2. \A a, b : Flushes(<<a, b, Flush>>)
  BY <1>a2, Zenon
<1>a3. ASSUME NEW a, NEW b, NEW c, NEW x, x = Flush PROVE Flushes(<<a, b, c, x>>)
  <2>1. <<a, b, c, x>> = <<a, b, c>> \o <<x>>
    OBVIOUS
  <2>2. IsSeq(<<a, b, c>>)
    BY Strung, Zenon
  <2> QED BY <1>a3, <2>1, <2>2 DEF Flushes
<1>3. \A a, b, c : Flushes(<<a, b, c, Flush>>)
  BY <1>a3, Zenon
<1>a4. ASSUME NEW a, NEW b, NEW c, NEW d, NEW x, x = Flush PROVE Flushes(<<a, b, c, d, x>>)
  <2>1. <<a, b, c, d, x>> = <<a, b, c, d>> \o <<x>>
    OBVIOUS
  <2>2. IsSeq(<<a, b, c, d>>)
    BY Strung, Zenon
  <2> QED BY <1>a4, <2>1, <2>2 DEF Flushes
<1>4. \A a, b, c, d : Flushes(<<a, b, c, d, Flush>>)
  BY <1>a4, Zenon
<1>a5. ASSUME NEW a, NEW b, NEW c, NEW d, NEW e, NEW x, x = Flush
       PROVE  Flushes(<<a, b, c, d, e, x>>)
  <2>1. <<a, b, c, d, e, x>> = <<a, b, c, d, e>> \o <<x>>
    OBVIOUS
  <2>2. IsSeq(<<a, b, c, d, e>>)
    BY Strung, Zenon
  <2> QED BY <1>a5, <2>1, <2>2 DEF Flushes
<1>5. \A a, b, c, d, e : Flushes(<<a, b, c, d, e, Flush>>)
  BY <1>a5, Zenon
<1>a6. ASSUME NEW a, NEW b, NEW c, NEW d, NEW e, NEW f, NEW x, x = Flush
       PROVE  Flushes(<<a, b, c, d, e, f, x>>)
  <2>1. <<a, b, c, d, e, f, x>> = <<a, b, c, d, e, f>> \o <<x>>
    OBVIOUS
  <2>2. IsSeq(<<a, b, c, d, e, f>>)
    BY Strung, Zenon
  <2> QED BY <1>a6, <2>1, <2>2 DEF Flushes
<1>6. \A a, b, c, d, e, f : Flushes(<<a, b, c, d, e, f, Flush>>)
  BY <1>a6, Zenon
<1>a7. ASSUME NEW a, NEW b, NEW c, NEW d, NEW e, NEW f, NEW g, NEW x, x = Flush
       PROVE  Flushes(<<a, b, c, d, e, f, g, x>>)
  <2>1. <<a, b, c, d, e, f, g, x>> = <<a, b, c, d, e, f, g>> \o <<x>>
    OBVIOUS
  <2>2. IsSeq(<<a, b, c, d, e, f, g>>)
    BY Strung, Zenon
  <2> QED BY <1>a7, <2>1, <2>2 DEF Flushes
<1>7. \A a, b, c, d, e, f, g : Flushes(<<a, b, c, d, e, f, g, Flush>>)
  BY <1>a7, Zenon
<1>a8. ASSUME NEW a, NEW b, NEW c, NEW d, NEW e, NEW f, NEW g, NEW h, NEW x, x = Flush
       PROVE  Flushes(<<a, b, c, d, e, f, g, h, x>>)
  <2>1. <<a, b, c, d, e, f, g, h, x>> = <<a, b, c, d, e, f, g, h>> \o <<x>>
    OBVIOUS
  <2>2. IsSeq(<<a, b, c, d, e, f, g, h>>)
    BY Strung, Zenon
  <2> QED BY <1>a8, <2>1, <2>2 DEF Flushes
<1>8. \A a, b, c, d, e, f, g, h : Flushes(<<a, b, c, d, e, f, g, h, Flush>>)
  BY <1>a8, Zenon
<1>a9. ASSUME NEW a, NEW b, NEW c, NEW d, NEW e, NEW f, NEW g, NEW h, NEW i, NEW x, x = Flush
       PROVE  Flushes(<<a, b, c, d, e, f, g, h, i, x>>)
  <2>1. <<a, b, c, d, e, f, g, h, i, x>> = <<a, b, c, d, e, f, g, h, i>> \o <<x>>
    OBVIOUS
  <2>2. IsSeq(<<a, b, c, d, e, f, g, h, i>>)
    BY Strung, Zenon
  <2> QED BY <1>a9, <2>1, <2>2 DEF Flushes
<1>9. \A a, b, c, d, e, f, g, h, i : Flushes(<<a, b, c, d, e, f, g, h, i, Flush>>)
  BY <1>a9, Zenon
<1>a10. ASSUME NEW a, NEW b, NEW c, NEW d, NEW e, NEW f, NEW g, NEW h, NEW i, NEW j, NEW x,
               x = Flush
        PROVE  Flushes(<<a, b, c, d, e, f, g, h, i, j, x>>)
  <2>1. <<a, b, c, d, e, f, g, h, i, j, x>> = <<a, b, c, d, e, f, g, h, i, j>> \o <<x>>
    OBVIOUS
  <2>2. IsSeq(<<a, b, c, d, e, f, g, h, i, j>>)
    BY Strung, Zenon
  <2> QED BY <1>a10, <2>1, <2>2 DEF Flushes
<1>10. \A a, b, c, d, e, f, g, h, i, j : Flushes(<<a, b, c, d, e, f, g, h, i, j, Flush>>)
  BY <1>a10, Zenon
<1>a11. ASSUME NEW a, NEW b, NEW c, NEW d, NEW e, NEW f, NEW g, NEW h, NEW i, NEW j, NEW k,
               NEW x, x = Flush
        PROVE  Flushes(<<a, b, c, d, e, f, g, h, i, j, k, x>>)
  <2>1. <<a, b, c, d, e, f, g, h, i, j, k, x>> = <<a, b, c, d, e, f, g, h, i, j, k>> \o <<x>>
    OBVIOUS
  <2>2. IsSeq(<<a, b, c, d, e, f, g, h, i, j, k>>)
    BY Strung, Zenon
  <2> QED BY <1>a11, <2>1, <2>2 DEF Flushes
<1>11. \A a, b, c, d, e, f, g, h, i, j, k : Flushes(<<a, b, c, d, e, f, g, h, i, j, k, Flush>>)
  BY <1>a11, Zenon
<1>a12. ASSUME NEW a, NEW b, NEW c, NEW d, NEW e, NEW f, NEW g, NEW h, NEW i, NEW j, NEW k,
               NEW l, NEW x, x = Flush
        PROVE  Flushes(<<a, b, c, d, e, f, g, h, i, j, k, l, x>>)
  <2>1. <<a, b, c, d, e, f, g, h, i, j, k, l, x>> = <<a, b, c, d, e, f, g, h, i, j, k, l>> \o <<x>>
    OBVIOUS
  <2>2. IsSeq(<<a, b, c, d, e, f, g, h, i, j, k, l>>)
    BY Strung, Zenon
  <2> QED BY <1>a12, <2>1, <2>2 DEF Flushes
<1>12. \A a, b, c, d, e, f, g, h, i, j, k, l : Flushes(<<a, b, c, d, e, f, g, h, i, j, k, l, Flush>>)
  BY <1>a12, Zenon
<1>13. ASSUME NEW p, NEW q, IsSeq(p), Flushes(q) PROVE Flushes(p \o q)
  <2>1. PICK x : IsSeq(x) /\ q = x \o <<Flush>>
    BY <1>13 DEF Flushes
  <2> DEFINE f == <<Flush>>
  <2>0. IsSeq(f)
    BY Strung, Zenon
  <2>3. q = x \o f
    BY <2>1
  <2> HIDE DEF f
  <2>2. p \o q = (p \o x) \o f /\ IsSeq(p \o x)
    <3>1. IsSeq(p \o x)
      BY <1>13, <2>1, SeqLaws
    <3>2. (p \o x) \o f = p \o (x \o f)
      BY <1>13, <2>0, <2>1, Regrouped
    <3> QED BY <2>3, <3>1, <3>2
  <2> QED BY <2>2 DEF Flushes, f
<1> QED BY <1>0, <1>1, <1>2, <1>3, <1>4, <1>5, <1>6, <1>7, <1>8, <1>9, <1>10, <1>11, <1>12, <1>13, Zenon

LEMMA FlushingSends == \A p : Plainly(p) /\ Flushes(p) => Sends(p)
<1> SUFFICES ASSUME NEW p, Plainly(p), Flushes(p) PROVE Sends(p)
  OBVIOUS
<1>1. PICK x : IsSeq(x) /\ p = x \o <<Flush>>
  BY DEF Flushes
<1>2. Loose(x)
  BY <1>1, Strung, PlainlyParts, PlainlyLoose
<1>3. Sends(<<Flush>>)
  BY WaitSends DEF Flush, Waits
<1> QED BY <1>1, <1>2, <1>3, SendsRules

\* Commands at whose end the prompt flushes.
LEMMA FlushingCommands ==
    \A p \in {pauses, welcome, probes, clocks, levels, modes, lines, pon, poff, supplies, hvon,
              hvoff, resets, addresses, selections, tbms, clk, delays, pgstop, pgtrig, pgloop,
              trgsel, triggers, seltbm, dac, vdig, cole, cold, pixe, arm, pixd, cal, cald, mask,
              meters, tbmget, dsize, dreset, dclose, dstart, dstop, select, rddac, setbits} :
        Flushes(p)
<1>1. \A p : IsSeq(p) => Flushes(Command(p))
  BY FlushesLast DEF Command
<1>2. \A i : Flushes(Command(<<i>>))
  BY <1>1, Strung, Zenon
<1>3. \A p \in {pauses, welcome, probes, clocks, levels, modes, lines, pon, poff, supplies, hvon,
                hvoff, resets, addresses, selections, tbms} : Flushes(p)
  BY <1>2 DEF pauses, welcome, probes, clocks, levels, modes, lines, pon, poff, supplies, hvon,
              hvoff, resets, addresses, selections, tbms
<1>4. \A p \in {delays, pgstop, pgtrig, pgloop, trgsel, triggers, seltbm} : Flushes(p)
  BY <1>2 DEF delays, pgstop, pgtrig, pgloop, trgsel, triggers, seltbm
<1>5. \A p \in {dac, vdig, cole, cold, pixe, arm, pixd, cal, cald, mask} : Flushes(p)
  BY <1>2 DEF dac, vdig, cole, cold, pixe, arm, pixd, cal, cald, mask
<1>6. Flushes(clk)
  BY <1>1, Strung DEF clk
<1>7. \A p \in {meters, tbmget, dsize, dreset} : Flushes(p)
  BY FlushesLast DEF meters, tbmget, dsize, dreset, Ask
<1>8. \A p \in {dclose, dstart, dstop, rddac, setbits} : Flushes(p)
  BY FlushesLast DEF dclose, dstart, dstop, rddac, setbits
<1>9. Flushes(select)
  BY FlushesLast DEF select
<1> QED BY <1>3, <1>4, <1>5, <1>6, <1>7, <1>8, <1>9

LEMMA StrungPieces ==
    /\ IsSeq(Arm) /\ IsSeq(MaskPixel) /\ IsSeq(MaskRoc) /\ IsSeq(StartChannels)
    /\ IsSeq(StopChannels) /\ IsSeq(ReadChannels) /\ IsSeq(CloseChannels)
    /\ \A ds : IsSeq(ScanBlocks(ds))
    /\ IsSeq(EnableSelected) /\ IsSeq(LoadTrims) /\ IsSeq(AllTrims)
    /\ \A r, d, v : IsSeq(SetBoth(r, d, v))
<1>1. /\ IsSeq(StartChannels) /\ IsSeq(StopChannels) /\ IsSeq(ReadChannels)
      /\ IsSeq(CloseChannels)
  BY Strung DEF StartChannels, StopChannels, ReadChannels, CloseChannels, ForChannels
<1>2. ASSUME NEW ds PROVE IsSeq(ScanBlocks(ds))
  BY <1>1, Strung DEF ScanBlocks
<1>3. IsSeq(Arm) /\ IsSeq(MaskPixel) /\ IsSeq(MaskRoc)
  BY Strung DEF Arm, MaskPixel, MaskRoc
<1>4. IsSeq(EnableSelected) /\ IsSeq(LoadTrims) /\ IsSeq(AllTrims)
  BY Strung DEF EnableSelected, LoadTrims, AllTrims
<1>5. \A r, d, v : IsSeq(SetBoth(r, d, v))
  BY Strung DEF SetBoth
<1> QED BY <1>1, <1>2, <1>3, <1>4, <1>5

\* Tests of a ROC, and of a module, at the end of which the code flushes.
LEMMA FlushingTests ==
    /\ \A r : Flushes(GetPixData(r)) /\ Flushes(setcaldel(r)) /\ Flushes(RocThrMap(r))
    /\ \A r, d : Flushes(DacScanPix(r, d))
    /\ \A d : /\ Flushes(calsdacOf(d)) /\ Flushes(thrdacOf(d)) /\ Flushes(modthrdacOf(d))
              /\ Flushes(dacscanroc(d)) /\ Flushes(DacScanMod(d)) /\ Flushes(daciOf(d))
    /\ \A p \in {fire, fire2, caldelmap, GetRocData, bbtest, gaindac, thrmapsc, scanvthr,
                 tdscan, onevst, tbmscan, tbmscant, modpixsc, ModThrMap, ModPixelAlive} :
           Flushes(p)
    /\ \A period \in {1, 2} : Flushes(takedataPeriod(period)) /\ Flushes(modtdPeriod(period))
<1>1. ASSUME NEW r PROVE Flushes(GetPixData(r)) /\ Flushes(setcaldel(r)) /\ Flushes(RocThrMap(r))
  <2>1. Flushes(GetPixData(r))
    BY Strung, StrungPieces, FlushesLast DEF GetPixData
  <2>2. Flushes(setcaldel(r))
    BY FlushesLast DEF setcaldel
  <2>3. Flushes(RocThrMap(r))
    BY Strung, StrungPieces, FlushesLast DEF RocThrMap
  <2> QED BY <2>1, <2>2, <2>3
<1>2. ASSUME NEW r, NEW d PROVE Flushes(DacScanPix(r, d))
  BY Strung, StrungPieces, FlushesLast DEF DacScanPix
<1>3. ASSUME NEW d
      PROVE  /\ Flushes(calsdacOf(d)) /\ Flushes(thrdacOf(d)) /\ Flushes(modthrdacOf(d))
             /\ Flushes(dacscanroc(d)) /\ Flushes(DacScanMod(d)) /\ Flushes(daciOf(d))
  <2>1. Flushes(calsdacOf(d))
    BY FlushesLast DEF calsdacOf
  <2>2. Flushes(thrdacOf(d))
    BY Strung, StrungPieces, FlushesLast DEF thrdacOf
  <2>3. Flushes(modthrdacOf(d))
    BY Strung, StrungPieces, FlushesLast DEF modthrdacOf
  <2>4. Flushes(dacscanroc(d))
    BY Strung, StrungPieces, FlushesLast DEF dacscanroc
  <2>5. Flushes(DacScanMod(d))
    BY Strung, StrungPieces, FlushesLast DEF DacScanMod
  <2>6. Flushes(daciOf(d))
    BY Strung, StrungPieces, FlushesLast DEF daciOf
  <2> QED BY <2>1, <2>2, <2>3, <2>4, <2>5, <2>6
<1>4. Flushes(fire) /\ Flushes(fire2) /\ Flushes(caldelmap) /\ Flushes(GetRocData)
  <2>1. Flushes(fire) /\ Flushes(fire2) /\ Flushes(caldelmap)
    BY Strung, StrungPieces, FlushesLast DEF fire, fire2, caldelmap
  <2>2. IsSeq(GetEff)
    BY Strung DEF GetEff
  <2>3. Flushes(GetRocData)
    BY <2>2, Strung, StrungPieces, FlushesLast DEF GetRocData
  <2> QED BY <2>1, <2>3
<1>5. Flushes(bbtest) /\ Flushes(gaindac) /\ Flushes(thrmapsc) /\ Flushes(scanvthr)
  BY Strung, StrungPieces, FlushesLast DEF bbtest, gaindac, thrmapsc, scanvthr
<1>6. Flushes(tdscan) /\ Flushes(onevst) /\ Flushes(tbmscan)
  BY Strung, StrungPieces, FlushesLast DEF tdscan, onevst, tbmscan, ForChannels
<1>7. Flushes(tbmscant) /\ Flushes(ModPixelAlive)
  BY Strung, StrungPieces, FlushesLast DEF tbmscant, ModPixelAlive, MaskSelected, ForChannels
<1>8. Flushes(modpixsc) /\ Flushes(ModThrMap)
  BY Strung, StrungPieces, FlushesLast DEF modpixsc, ModThrMap
<1>9. ASSUME NEW period \in {1, 2}
      PROVE  Flushes(takedataPeriod(period)) /\ Flushes(modtdPeriod(period))
  <2>1. Flushes(takedataPeriod(period))
    BY Strung, StrungPieces, FlushesLast DEF takedataPeriod
  <2>2. Flushes(modtdPeriod(period))
    BY Strung, StrungPieces, FlushesLast DEF modtdPeriod, ForChannels
  <2> QED BY <2>1, <2>2
<1> QED BY <1>1, <1>2, <1>3, <1>4, <1>5, <1>6, <1>7, <1>8, <1>9

LEMMA FlushingTunings ==
    /\ \A p \in {modtrimscale, modtrimstep, modtrimbits, modnoise, vthrcomp5, vthrcomp,
                 trim(FALSE), GetSdata, PowerDown, endOfChip, LoadTrims, MaskSelected, AtVcal} :
           Flushes(p)
    /\ \A r : Flushes(tunePHEnd(r))
    /\ \A d : Flushes(Tried(d))
<1>1. Flushes(LoadTrims) /\ Flushes(MaskSelected) /\ Flushes(AtVcal)
  BY FlushesLast DEF LoadTrims, MaskSelected, AtVcal
<1>2. IsSeq(NoiseRun) /\ IsSeq(RaiseTrims)
  <2>1. IsSeq(RaiseTrims)
    BY Strung DEF RaiseTrims
  <2>2. IsSeq(NoiseRun)
    BY Strung, StrungPieces DEF NoiseRun, ForChannels
  <2> QED BY <2>1, <2>2
<1>3. Flushes(modtrimscale) /\ Flushes(modtrimstep)
  BY <1>1, Strung, StrungPieces, FlushesLast DEF modtrimscale, modtrimstep
<1>4. Flushes(modtrimbits) /\ Flushes(modnoise)
  BY <1>1, <1>2, Strung, StrungPieces, FlushesLast DEF modtrimbits, modnoise
<1>5. IsSeq(SearchVthrComp) /\ Flushes(SearchVthrComp)
  BY Strung, StrungPieces, FlushesLast DEF SearchVthrComp
<1>6. Flushes(vthrcomp5)
  BY <1>5, Strung, StrungPieces, FlushesLast DEF vthrcomp5
<1>7. Flushes(vthrcomp)
  BY <1>5, Strung, StrungPieces, FlushesLast DEF vthrcomp
<1>8. Flushes(trim(FALSE))
  <2>1. IsSeq(trimStart)
    BY Strung DEF trimStart
  <2>2. Flushes(trimGoesOn)
    BY Strung, StrungPieces, FlushesLast DEF trimGoesOn
  <2> QED BY <2>1, <2>2, FlushesLast DEF trim
<1>9. Flushes(GetSdata) /\ Flushes(PowerDown) /\ Flushes(endOfChip)
  BY Strung, StrungPieces, FlushesLast DEF GetSdata, PowerDown, endOfChip
<1>10. ASSUME NEW r PROVE Flushes(tunePHEnd(r))
  <2> DEFINE measure == AtVcal \o <<Call(GetPixData(r))>> \o AtVcal \o <<Call(GetPixData(r))>>
  <2>1. IsSeq(AtVcal)
    BY Strung DEF AtVcal
  <2>2. IsSeq(measure)
    BY <2>1, Strung
  <2> HIDE DEF measure
  <2>3. Flushes(<<Again(measure \o <<Maybe(Tried("PHOffset"))>> \o Tried("PHScale"))>> \o measure
                \o <<SetCopy(r, "PHOffset", New), SetCopy(r, "PHScale", New),
                     Restore(r, "Vcal"), Restore(r, "CtrlReg"), Flush>>)
    BY <2>2, Strung, FlushesLast
  <2> QED BY <2>3 DEF tunePHEnd, measure
<1>11. \A d : Flushes(Tried(d))
  BY FlushesLast DEF Tried
<1> QED BY <1>1, <1>3, <1>4, <1>6, <1>7, <1>8, <1>9, <1>10, <1>11

\* The calls to which a procedure comes that does not return.
LEMMA PlainlyLegal ==
    LET l == Anything IN
    /\ \A r \in Rocs, d \in Dacs : May(l, r, d)
    /\ {"power", "trims", "loop"} \subseteq l.does /\ "trims" \in l.does /\ "loop" \in l.does
    /\ \A t \in Selections : t \in l.selects
    /\ Channels \subseteq l.channels /\ 0 \in l.channels
    /\ \A r \in Rocs : ChannelOf(r) \in l.channels
    /\ Rocs \in SUBSET Rocs
  BY Zero, ChannelOfRoc DEF Anything, May

\* The commands at the prompt send what they asked for.
LEMMA SendingCommands ==
    \A p \in {pauses, welcome, probes, clocks, levels, modes, lines, pon, poff, supplies, hvon,
              hvoff, resets, addresses, selections, tbms, clk, delays, pgstop, pgtrig, pgloop,
              trgsel, triggers, seltbm, dac, vdig, cole, cold, pixe, arm, pixd, cal, cald, mask,
              meters, tbmget, dsize, dreset, dclose, dstart, dstop, select, rddac, setbits} :
        Sends(p)
<1>1. \A i : Legal(Anything, Rocs, i) => Plainly(Command(<<i>>))
  BY One, LegalCommand, PlainlyLegal DEF Plainly
<1>2. \A p \in {pauses, welcome, probes, clocks, levels, modes, lines, supplies, resets, addresses,
                selections, tbms, triggers} : Plainly(p)
  BY <1>1, Requests DEF pauses, welcome, probes, clocks, levels, modes, lines, supplies,
     resets, addresses, selections, tbms, triggers
<1>3. \A p \in {pon, poff, hvon, hvoff, delays, pgstop, pgtrig, pgloop} : Plainly(p)
  BY <1>1, PlainlyLegal, Stated DEF pon, poff, hvon, hvoff, delays, pgstop, pgtrig, pgloop
<1>4. \A p \in {meters, tbmget} : Plainly(p)
  BY One, Requests DEF meters, tbmget, Ask, Plainly
<1>5. \A p \in {clk, trgsel, seltbm, cole, cold, pixe, arm, cal, cald, mask} : Plainly(p)
  BY PlainlyLegal, LegalClk, LegalTrgsel, LegalSeltbm, LegalCole, LegalCold, LegalPixe, LegalArm,
     LegalCal, LegalCald, LegalMask DEF Plainly
<1>6. \A p \in {dsize, dreset, dclose, dstart, dstop} : Plainly(p)
  BY PlainlyLegal, LegalDsize, LegalDreset, LegalDclose, LegalDstart, LegalDstop DEF Plainly
<1>7. Plainly(pixd) /\ Plainly(setbits) /\ Plainly(select)
  BY PlainlyLegal, LegalPixd, LegalSetbits, LegalSelect DEF Plainly
<1>8. Plainly(dac) /\ Plainly(vdig) /\ Plainly(rddac)
  BY PlainlyLegal, LegalDac, LegalVdig, LegalRddac DEF Plainly
<1> QED BY <1>2, <1>3, <1>4, <1>5, <1>6, <1>7, <1>8, FlushingCommands, FlushingSends

\* So do the tests, and the steps of tunings, at whose end the code flushes.
LEMMA SendingTests ==
    /\ \A r \in Rocs : Sends(GetPixData(r)) /\ Sends(setcaldel(r)) /\ Sends(RocThrMap(r))
    /\ \A r \in Rocs, d \in Dacs : Sends(DacScanPix(r, d))
    /\ \A d \in Dacs : /\ Sends(calsdacOf(d)) /\ Sends(thrdacOf(d)) /\ Sends(modthrdacOf(d))
                       /\ Sends(dacscanroc(d)) /\ Sends(DacScanMod(d)) /\ Sends(daciOf(d))
    /\ \A p \in {fire, fire2, caldelmap, GetRocData, bbtest, gaindac, thrmapsc, scanvthr,
                 tdscan, onevst, tbmscan, tbmscant, modpixsc, ModThrMap, ModPixelAlive} :
           Sends(p)
    /\ \A period \in {1, 2} : Sends(takedataPeriod(period)) /\ Sends(modtdPeriod(period))
<1>1. \A r \in Rocs : Plainly(GetPixData(r)) /\ Plainly(setcaldel(r)) /\ Plainly(RocThrMap(r))
  BY PlainlyLegal, LegalGetPixData, LegalSetcaldel, LegalRocThrMap, Named DEF Plainly
<1>2. \A r \in Rocs, d \in Dacs : Plainly(DacScanPix(r, d))
  BY PlainlyLegal, LegalDacScanPix DEF Plainly
<1>3. \A d \in Dacs :
          /\ Plainly(calsdacOf(d)) /\ Plainly(thrdacOf(d)) /\ Plainly(modthrdacOf(d))
          /\ Plainly(dacscanroc(d)) /\ Plainly(DacScanMod(d)) /\ Plainly(daciOf(d))
  BY PlainlyLegal, LegalCalsdacOf, LegalThrdacOf, LegalModthrdacOf, LegalDacscanroc,
     LegalDacScanMod, LegalDaciOf DEF Plainly
<1>4. \A p \in {fire, fire2, caldelmap, GetRocData, bbtest, gaindac, thrmapsc, scanvthr} :
          Plainly(p)
  BY PlainlyLegal, LegalFire, LegalFire2, LegalCaldelmap, LegalGetRocData, LegalBbtest,
     LegalGaindac, LegalThrmapsc, LegalScanvthr DEF Plainly
<1>5. \A p \in {tdscan, onevst, tbmscan, tbmscant, modpixsc, ModThrMap, ModPixelAlive} :
          Plainly(p)
  BY PlainlyLegal, LegalTdscan, LegalOnevst, LegalTbmscan, LegalTbmscant, LegalModpixsc,
     LegalModThrMap, LegalModPixelAlive DEF Plainly
<1>6. \A period \in {1, 2} : Plainly(takedataPeriod(period)) /\ Plainly(modtdPeriod(period))
  BY PlainlyLegal, LegalTakedataPeriod, LegalModtdPeriod DEF Plainly
<1>7. \A r \in Rocs : Sends(GetPixData(r)) /\ Sends(setcaldel(r)) /\ Sends(RocThrMap(r))
  BY <1>1, FlushingTests, FlushingSends
<1>8. \A r \in Rocs, d \in Dacs : Sends(DacScanPix(r, d))
  BY <1>2, FlushingTests, FlushingSends
<1>9. \A d \in Dacs : /\ Sends(calsdacOf(d)) /\ Sends(thrdacOf(d)) /\ Sends(modthrdacOf(d))
                      /\ Sends(dacscanroc(d)) /\ Sends(DacScanMod(d)) /\ Sends(daciOf(d))
  BY <1>3, FlushingTests, FlushingSends
<1>10. \A p \in {fire, fire2, caldelmap, GetRocData, bbtest, gaindac, thrmapsc, scanvthr,
                 tdscan, onevst, tbmscan, tbmscant, modpixsc, ModThrMap, ModPixelAlive} :
           Sends(p)
  BY <1>4, <1>5, FlushingTests, FlushingSends
<1>11. \A period \in {1, 2} : Sends(takedataPeriod(period)) /\ Sends(modtdPeriod(period))
  BY <1>6, FlushingTests, FlushingSends
<1> QED BY <1>7, <1>8, <1>9, <1>10, <1>11

LEMMA SendingTunings ==
    /\ \A p \in {modtrimscale, modtrimstep, modtrimbits, modnoise, vthrcomp5, vthrcomp,
                 trim(FALSE), GetSdata, PowerDown, endOfChip, LoadTrims, MaskSelected, AtVcal} :
           Sends(p)
    /\ \A r \in Rocs : Sends(tunePHEnd(r))
    /\ \A d \in Dacs : Sends(Tried(d))
<1>1. \A p \in {modtrimscale, modtrimstep, modtrimbits, modnoise, GetSdata, PowerDown,
                LoadTrims, MaskSelected, AtVcal} : Plainly(p)
  BY PlainlyLegal, LegalModtrimscale, LegalModtrimstep, LegalModtrimbits, LegalModnoise,
     LegalGetSdata, LegalPowerDown, LegalLoadTrims, LegalMaskSelected, LegalAtVcal DEF Plainly
<1>2. Plainly(vthrcomp5) /\ Plainly(vthrcomp) /\ Plainly(trim(FALSE))
  BY PlainlyLegal, Named, Zero, LegalVthrcomp5, LegalVthrcomp, LegalTrim DEF Plainly
<1>3. \A r \in Rocs : Plainly(tunePHEnd(r))
  BY PlainlyLegal, One, Five, Join, LegalAtVcal, Controls, LegalGetPixData, LegalTried, Named,
     Copied, Shown, Stated, Requests DEF tunePHEnd, Plainly
<1>5. Plainly(endOfChip)
  BY PlainlyLegal, One, Join, Copied, Named, Shown, Variables, Requests, Zero
     DEF endOfChip, Plainly
<1>4. \A d \in Dacs : Plainly(Tried(d))
  BY PlainlyLegal, LegalTried DEF Plainly
<1> QED BY <1>1, <1>2, <1>3, <1>4, <1>5, FlushingTunings, FlushingSends

LEMMA SendsMore ==
    /\ \A p, q : Plainly(p) /\ Sends(q) => Sends(p \o q)
    /\ \A p, i : Plainly(p) /\ i.do \in Waits => Sends(p \o <<i>>)
    /\ \A a, b : Stays(<<a>>) /\ Stays(<<b>>) => Stays(<<a, b>>)
    /\ \A a, b : Sends(<<a>>) /\ Stays(<<b>>) => Sends(<<a, b>>)
    /\ \A a, b : Loose(<<a>>) /\ Sends(<<b>>) => Sends(<<a, b>>)
    /\ \A f : (\A k \in DOMAIN f : Loose(f[k])) => Loose(<<Either(f)>>)
    /\ \A p : Stays(p) => Stays(<<Maybe(p)>>)
<1>1. \A p, q : Plainly(p) /\ Sends(q) => Sends(p \o q)
  BY PlainlyLoose, SendsRules
<1>2. \A p, i : Plainly(p) /\ i.do \in Waits => Sends(p \o <<i>>)
  BY <1>1, WaitSends
<1>3. \A a, b : <<a, b>> = <<a>> \o <<b>>
  BY Pairs
<1>4. ASSUME NEW a, NEW b, Stays(<<a>>), Stays(<<b>>) PROVE Stays(<<a, b>>)
  <2>1. Stays(<<a>> \o <<b>>)
    BY <1>4, SendsRules
  <2> QED BY <1>3, <2>1, Zenon
<1>5. ASSUME NEW a, NEW b, Sends(<<a>>), Stays(<<b>>) PROVE Sends(<<a, b>>)
  <2>1. Sends(<<a>> \o <<b>>)
    BY <1>5, SendsRules
  <2> QED BY <1>3, <2>1, Zenon
<1>6. ASSUME NEW a, NEW b, Loose(<<a>>), Sends(<<b>>) PROVE Sends(<<a, b>>)
  <2>1. Sends(<<a>> \o <<b>>)
    BY <1>6, SendsRules
  <2> QED BY <1>3, <2>1, Zenon
<1>7. \A f : (\A k \in DOMAIN f : Loose(f[k])) => Loose(<<Either(f)>>)
  BY Chooses DEF Loose
<1>8. ASSUME NEW p, Stays(p) PROVE Stays(<<Maybe(p)>>)
  <2> DEFINE f == <<p, <<>>>>
  <2>1. \A k \in DOMAIN f : Stays(f[k])
    BY <1>8, SendsRules
  <2>2. Stays(<<Either(f)>>)
    <3> HIDE DEF f
    <3> QED BY <2>1, SendsRules
  <2> QED BY <2>2 DEF Maybe
<1> QED BY <1>1, <1>2, <1>4, <1>5, <1>6, <1>7, <1>8

\* A value of a DAC, or a channel, is chosen; each choice ends with a flush.
LEMMA SendingChoices ==
    /\ \A p \in {calsdac, thrdac, modthrdac, daci, takedata, modtd, dacscanrocCommand,
                 dopen, dreadm} : Sends(p)
    /\ Sends(<<AnyOf(Rocs, phdac)>>) /\ Sends(<<AnyOf(Rocs, effdac)>>)
    /\ Sends(dacscanmod({"Vcal"}))
<1>0. /\ \A f : (\A k \in DOMAIN f : Sends(f[k])) => Sends(<<Either(f)>>)
      /\ \A p : Sends(p) => Sends(<<Call(p)>>)
  BY SendsRules
<1>1. \A d \in Scannable : d \in Dacs
  BY DEF Scannable
<1>2. Sends(calsdac)
  BY <1>0, <1>1, SendingTests DEF calsdac, AnyOf
<1>3. Sends(thrdac)
  BY <1>0, <1>1, SendingTests DEF thrdac, AnyOf
<1>4. Sends(modthrdac)
  BY <1>0, <1>1, SendingTests DEF modthrdac, AnyOf
<1>5. Sends(daci)
  BY <1>0, <1>1, SendingTests DEF daci, AnyOf
<1>6. Sends(takedata)
  BY <1>0, <1>1, SendingTests DEF takedata, AnyOf
<1>7. Sends(modtd)
  BY <1>0, <1>1, SendingTests DEF modtd, AnyOf
<1>8. Sends(dacscanrocCommand)
  BY <1>0, <1>1, SendingTests DEF dacscanrocCommand, AnyOf
<1>9. Sends(dopen) /\ Sends(dreadm)
  <2>1. \A ch : Sends(<<Daq_Open(ch)>>) /\ Sends(<<Daq_Read(ch)>>)
    BY WaitSends DEF Daq_Open, Daq_Read, Waits
  <2> QED BY <1>0, <2>1 DEF dopen, dreadm, AnyOf
<1>10. ASSUME NEW r \in Rocs PROVE Sends(phdac(r)) /\ Sends(effdac(r))
  <2>1. \A d \in Scannable : Sends(<<Call(DacScanPix(r, d))>>)
    BY <1>0, <1>1, SendingTests
  <2>2. Sends(phdac(r))
    BY <1>0, <2>1 DEF phdac, AnyOf
  <2>3. Sends(effdac(r))
    BY <1>0, <2>1 DEF effdac, effvsdac, AnyOf
  <2> QED BY <2>2, <2>3
<1>11. Sends(<<AnyOf(Rocs, phdac)>>) /\ Sends(<<AnyOf(Rocs, effdac)>>)
  BY <1>0, <1>10 DEF AnyOf
<1>12. Sends(dacscanmod({"Vcal"}))
  <2>1. \A d \in {"Vcal"} : Sends(<<Call(DacScanMod(d))>>)
    BY <1>0, SendingTests, Named
  <2> QED BY <1>0, <2>1 DEF dacscanmod, AnyOf
<1> QED BY <1>2, <1>3, <1>4, <1>5, <1>6, <1>7, <1>8, <1>9, <1>11, <1>12

\* What only calls others, and what has assignments behind the last call
\* that waits.
LEMMA SendingCalls ==
    /\ \A p \in {caldel, effmap, phmap, calsmap, modthrmap, modmap, ModMap, geteffmap, sdata,
                 dread, information, readback, decoding, setia, optia, vthrcompi, trimbits} :
           Sends(p)
<1>0. /\ \A p : Sends(p) => Sends(<<Call(p)>>)
      /\ \A p : Sends(p) => Sends(Some(p))
  BY SendsRules
<1>1. Sends(caldel) /\ Sends(phmap) /\ Sends(calsmap) /\ Sends(geteffmap)
  BY <1>0, SendingTests, Zero DEF caldel, phmap, calsmap, geteffmap
<1>2. Sends(effmap) /\ Sends(modthrmap) /\ Sends(ModMap) /\ Sends(sdata)
  BY <1>0, <1>1, SendingTests, SendingTunings DEF effmap, modthrmap, ModMap, sdata
<1>3. Sends(modmap)
  BY <1>0, <1>2 DEF modmap
<1>4. \A ch : Sends(<<Daq_Read(ch)>>)
  BY WaitSends DEF Daq_Read, Waits
<1>5. Sends(<<Flush>>)
  BY WaitSends DEF Flush, Waits
<1>6. Sends(dread) /\ Sends(information)
  BY <1>0, <1>4, <1>5 DEF dread, information, Ask
<1>7. Sends(readback)
  <2> DEFINE p == <<Pg_Stop, Daq_Start(0), Again(<<Pg_Single>>), Daq_Stop(0)>>
  <2>1. Plainly(p)
    BY PlainlyLegal, Four, One, Stated, Channeled, Controls, Requests, Zero DEF Plainly, Pg_Single
  <2>2. Sends(p \o <<Daq_Read(0)>>)
    <3> HIDE DEF p
    <3> QED BY <2>1, <1>4, SendsMore
  <2>3. <<Pg_Stop, Daq_Start(0), Again(<<Pg_Single>>), Daq_Stop(0), Daq_Read(0)>>
            = p \o <<Daq_Read(0)>>
    OBVIOUS
  <2> QED BY <2>2, <2>3, Zenon DEF readback
<1>8. Sends(decoding)
  <2> DEFINE p == <<Daq_Start(0), Pg_Single, Daq_Stop(0)>>
             q == <<Daq_Start(0), Pg_Single, Daq_Stop(0), Daq_Read(0)>>
  <2>1. Plainly(p) /\ Plainly(<<Sig_SetDelay("scan")>>)
    BY PlainlyLegal, One, Three, Stated, Channeled, Requests, Zero DEF Plainly, Pg_Single
  <2>2. q = p \o <<Daq_Read(0)>>
    OBVIOUS
  <2>3. Sends(q)
    <3> HIDE DEF p, q
    <3> QED BY <2>1, <2>2, <1>4, SendsMore
  <2> HIDE DEF p, q
  <2>4. Sends(<<Sig_SetDelay("scan")>> \o Some(q))
    BY <1>0, <2>1, <2>3, SendsMore
  <2> QED BY <1>0, <2>4 DEF decoding, q
<1>9. Sends(setia)
  <2> DEFINE m == Maybe(SetBoth(0, "Vana", New) \o <<Flush>>)
             p == SetBoth(0, "Vana", New) \o <<Flush, Ask>>
             q == <<m, Ask>>
  <2>1. Plainly(p) /\ Plainly(q)
    BY One, Two, Join, Copied, Named, Shown, Zero, Requests, Controls, PlainlyLegal
       DEF Plainly, Ask
  <2>2. Flushes(p) /\ Flushes(q)
    <3>1. IsSeq(SetBoth(0, "Vana", New))
      BY StrungPieces
    <3>2. Flushes(<<Flush, Flush>>) /\ Flushes(<<m, Flush>>)
      BY FlushesLast, Zenon
    <3> HIDE DEF m
    <3> QED BY <3>1, <3>2, FlushesLast DEF Ask
  <2>3. <<m, Ask, Again(p)>> = q \o <<Again(p)>>
    OBVIOUS
  <2> HIDE DEF p, q
  <2>4. Sends(q) /\ Stays(<<Again(p)>>)
    BY <2>1, <2>2, FlushingSends, SendsRules
  <2>5. Sends(<<m, Ask, Again(p)>>)
    BY <2>3, <2>4, SendsRules
  <2> QED BY <2>5 DEF setia, p
<1>10. Sends(optia)
  BY <1>0, <1>9 DEF optia
<1>11. ASSUME NEW r \in Rocs PROVE Sends(vthrcompiOf(r))
  <2> DEFINE h == <<roc_I2cAddr(r)>> \o Arm \o <<Flush>>
                  \o Some(<<SetDAC("VthrComp", Scan), Flush, Ask>>) \o MaskRoc
             p == <<Flush, SetDAC("VthrComp", New), Flush>>
             c == SetCopy(r, "VthrComp", New)
             q == <<Flush, SetDAC("VthrComp", New), Flush, c>>
  <2>1. Plainly(h)
    BY One, Three, Join, Addressed, Shared, Stated, Named, Shown, Requests, Controls
       DEF Plainly, Ask
  <2>2. Plainly(p)
    BY Three, Stated, Named, Shown, Requests DEF Plainly
  <2>3. Flushes(p)
    BY FlushesLast, Zenon
  <2>4. q = p \o <<c>>
    OBVIOUS
  <2>5. Stays(<<c>>)
    BY WaitSends DEF SetCopy
  <2> HIDE DEF h, p, q, c
  <2>6. Sends(q)
    BY <2>2, <2>3, <2>4, <2>5, FlushingSends, SendsRules
  <2>7. Sends(h \o q)
    BY <2>1, <2>6, SendsMore
  <2> QED BY <2>7 DEF vthrcompiOf, h, q, c
<1>12. Sends(vthrcompi)
  <2>1. \A f : (\A k \in DOMAIN f : Sends(f[k])) => Sends(<<Either(f)>>)
    BY SendsRules
  <2> QED BY <1>11, <2>1 DEF vthrcompi, AnyOf
<1>13. Sends(trimbits)
  <2> DEFINE p == <<NewTrims(0), SetTrimValues(0), Flush>>
             c == Call(GetPixData(0))
             q == <<NewTrims(0), SetTrimValues(0), Flush, c>>
             a == roc_I2cAddr(0)
             g == Call(GetRocData)
             e == Again(Some(q))
  <2>1. Plainly(p) /\ Plainly(<<a>>)
    BY One, Three, Addressed, Requests, Zero, PlainlyLegal DEF Plainly
  <2>2. q = p \o <<c>>
    OBVIOUS
  <2>3. Sends(<<c>>) /\ Sends(<<g>>)
    BY <1>0, SendingTests, Zero
  <2>4. <<a, g, e>> = <<a, g>> \o <<e>>
    OBVIOUS
  <2> HIDE DEF p, q, c, a, g
  <2>5. Sends(q)
    BY <2>1, <2>2, <2>3, SendsMore
  <2>6. Stays(<<e>>)
    BY <1>0, <2>5, SendsRules
  <2> HIDE DEF e
  <2>7. Sends(<<a, g>>)
    BY <2>1, <2>3, SendsMore, PlainlyLoose
  <2>8. Sends(<<a, g, e>>)
    BY <2>4, <2>6, <2>7, SendsRules
  <2> QED BY <2>8 DEF trimbits, a, g, e, q, c
<1> QED BY <1>1, <1>2, <1>3, <1>6, <1>7, <1>8, <1>9, <1>10, <1>12, <1>13

\* One ROC at least is selected: a turn that sends is enough.
NotBehind(k) == {v \in Views : ~v.unsent \/ \E r \in v.roclist : k <= r}

LEMMA RoundSends == \A f : (\A r \in Rocs : Sends(f[r])) => Sends(<<EachRoc(f)>>)
<1> SUFFICES ASSUME NEW f, \A r \in Rocs : Sends(f[r]) PROVE Sends(<<EachRoc(f)>>)
  OBVIOUS
<1> DEFINE I == [k \in 0 .. MaxRoc + 1 |-> NotBehind(k)]
<1>1. MaxRoc \in Nat /\ Rocs = 0 .. MaxRoc
  BY CallsAssumption DEF Rocs
<1>2. \A r \in Rocs : I[r] = NotBehind(r) /\ I[r + 1] = NotBehind(r + 1)
  BY <1>1
<1>3. I[0] = NotBehind(0) /\ I[MaxRoc + 1] = NotBehind(MaxRoc + 1)
  BY <1>1
<1>4. \A v \in Views : v.roclist \subseteq Rocs /\ v.roclist # {}
  BY DEF Views, Selections
<1> HIDE DEF I
<1>5. Views \subseteq I[0]
  BY <1>1, <1>3, <1>4 DEF NotBehind
<1>6. I[MaxRoc + 1] \subseteq Flushed
  BY <1>1, <1>3, <1>4 DEF NotBehind, Flushed
<1>7. ASSUME NEW r \in Rocs
      PROVE  Triple(Views, {v \in I[r] : FALSE \/ r \in v.roclist}, f[r], I[r + 1], Flushed)
  <2>1. Triple(Views, Views, f[r], Flushed, Flushed)
    BY DEF Sends
  <2>2. \A v \in {u \in I[r] : FALSE \/ r \in u.roclist} : v \in Views
    BY <1>2 DEF NotBehind
  <2>3. Flushed \subseteq I[r + 1]
    BY <1>2 DEF NotBehind, Flushed
  <2> QED BY <2>1, <2>2, <2>3, Weaker
<1>8. ASSUME NEW r \in Rocs, NEW v \in I[r] \cap Views PROVE FALSE \/ r \in v.roclist \/ v \in I[r + 1]
  <2>1. CASE ~v.unsent
    BY <1>2, <2>1 DEF NotBehind
  <2>2. CASE v.unsent /\ r \notin v.roclist
    <3>1. PICK q \in v.roclist : r <= q
      BY <1>2, <2>2 DEF NotBehind
    <3>2. r + 1 <= q
      BY <1>1, <1>4, <2>2, <3>1
    <3> QED BY <1>2, <3>1, <3>2 DEF NotBehind
  <2> QED BY <1>2, <2>1, <2>2
<1>9. Triple(Views, I[0], <<[do |-> "each", of |-> f, roc |-> 0, all |-> FALSE]>>, I[MaxRoc + 1],
             Flushed)
  BY <1>7, <1>8, Turns
<1>10. Triple(Views, Views, <<[do |-> "each", of |-> f, roc |-> 0, all |-> FALSE]>>, Flushed, Flushed)
  BY <1>5, <1>6, <1>9, Weaker
<1> QED BY <1>10 DEF Sends, EachRoc

\* Loops over the selected ROCs, each turn of which ends with a flush.
LEMMA SendingRounds ==
    /\ Sends(modvthrcomp) /\ Sends(modvtrim) /\ Sends(setiamod) /\ Sends(optiamod)
    /\ Sends(rdtrim) /\ Sends(modcaldel) /\ Sends(thrmap) /\ Stays(pixt) /\ Stays(subtb)
<1>0. /\ \A f : (\A r \in Rocs : Stays(f[r])) => Stays(<<EveryRoc(f)>>) /\ Stays(<<EachRoc(f)>>)
      /\ \A p : Sends(p) => Sends(<<Call(p)>>) /\ Stays(p)
      /\ \A p : Plainly(p) /\ Flushes(p) => Sends(p)
  BY SendsRules, FlushingSends
<1>1. Plainly(AllTrims)
  BY PlainlyLegal, LegalAllTrims DEF Plainly
<1>2. Sends(modvthrcomp)
  <2> DEFINE s(r) == <<roc_I2cAddr(r), SetDAC("CtrlReg", Scan),
                       Again(<<SetDAC("VthrComp", Scan), Flush, Call(ThrPix(r, "Vcal"))>>)>>
             t(r) == <<Restore(r, "CtrlReg"), Flush>>
             b(r) == s(r) \o SetBoth(r, "VthrComp", New) \o t(r)
             f == [r \in Rocs |-> b(r)]
             c == Call(ModThrMap)
  <2>1. ASSUME NEW r \in Rocs PROVE Sends(b(r))
    <3>1. Plainly(s(r)) /\ Plainly(t(r)) /\ Plainly(SetBoth(r, "VthrComp", New))
      BY PlainlyLegal, Two, Three, Addressed, Stated, Named, Shown, Requests, Controls, Copied,
         LegalThrPix DEF Plainly
    <3>2. Flushes(t(r)) /\ IsSeq(s(r)) /\ IsSeq(SetBoth(r, "VthrComp", New))
      BY FlushesLast, Strung, StrungPieces, Zenon
    <3> HIDE DEF s, t
    <3>3. Plainly(b(r))
      BY <3>1, Join DEF Plainly
    <3>4. Flushes(b(r))
      BY <3>2, FlushesLast, Strung
    <3> QED BY <1>0, <3>3, <3>4
  <2> HIDE DEF b
  <2>2. Stays(<<EachRoc(f)>>)
    BY <1>0, <2>1
  <2> HIDE DEF f
  <2>3. Sends(<<c, EachRoc(f)>>)
    BY <1>0, <2>2, SendingTests, SendsMore
  <2>4. Sends(AllTrims \o <<c, EachRoc(f)>>)
    BY <1>1, <2>3, SendsMore
  <2> QED BY <2>4 DEF modvthrcomp, f, b, c
<1>3. Sends(modvtrim)
  <2> DEFINE s(r) == <<roc_I2cAddr(r), NewTrims(r), SetDAC("CtrlReg", Scan)>>
             u(r) == Some(<<SetDAC("Vtrim", Scan), Flush, Call(ThrPix(r, "Vcal"))>>)
             t(r) == <<Restore(r, "CtrlReg"), NewTrims(r)>>
             b(r) == s(r) \o u(r) \o SetBoth(r, "Vtrim", New) \o t(r) \o MaskPixel \o <<Flush>>
             f == [r \in Rocs |-> b(r)]
             c == Call(ModThrMap)
  <2>1. ASSUME NEW r \in Rocs PROVE Sends(b(r))
    <3>1. /\ Plainly(s(r)) /\ Plainly(u(r)) /\ Plainly(t(r))
          /\ Plainly(SetBoth(r, "Vtrim", New)) /\ Plainly(MaskPixel) /\ Plainly(<<Flush>>)
      BY PlainlyLegal, One, Two, Three, Addressed, Stated, Named, Shown, Requests, Controls, Copied,
         LegalThrPix, Shared DEF Plainly
    <3>2. /\ IsSeq(s(r)) /\ IsSeq(u(r)) /\ IsSeq(t(r)) /\ IsSeq(SetBoth(r, "Vtrim", New))
          /\ IsSeq(MaskPixel)
      BY Strung, StrungPieces, Zenon
    <3> HIDE DEF s, u, t
    <3>3. Plainly(b(r))
      BY <3>1, Join DEF Plainly
    <3>4. Flushes(b(r))
      BY <3>2, Strung, FlushesLast
    <3> QED BY <1>0, <3>3, <3>4
  <2> HIDE DEF b
  <2>2. Stays(<<EachRoc(f)>>)
    BY <1>0, <2>1
  <2> HIDE DEF f
  <2>3. Sends(<<c, EachRoc(f)>>)
    BY <1>0, <2>2, SendingTests, SendsMore
  <2>4. Sends(AllTrims \o <<c, EachRoc(f)>>)
    BY <1>1, <2>3, SendsMore
  <2> QED BY <2>4 DEF modvtrim, f, b, c
<1>4. Sends(setiamod)
  <2> DEFINE e == EveryRoc([r \in Rocs |-> <<roc_I2cAddr(r), SetDAC("Vana", Scan)>>])
             b(r) == <<roc_I2cAddr(r), Restore(r, "Vana"), Flush, Ask,
                       Again(<<SetDAC("Vana", New), Flush, Ask, SetCopy(r, "Vana", New)>>),
                       SetDAC("Vana", Scan), Flush>>
             z(r) == <<roc_I2cAddr(r), Restore(r, "Vana"), Flush>>
             f == EachRoc([r \in Rocs |-> b(r)])
             g == EachRoc([r \in Rocs |-> z(r)])
  <2>1. Plainly(<<e, Flush, Ask>>) /\ Flushes(<<e, Flush, Ask>>)
    <3>1. Legal(Anything, Rocs, e)
      BY Two, Addressed, Stated, Named, Shown, AllRounds
    <3>2. Flushes(<<e, Flush, Flush>>)
      BY FlushesLast, Zenon
    <3> HIDE DEF e
    <3> QED BY <3>1, <3>2, Three, Requests DEF Plainly, Ask
  <2>2. ASSUME NEW r \in Rocs PROVE Sends(b(r)) /\ Sends(z(r))
    <3>1. Plainly(b(r)) /\ Plainly(z(r))
      BY PlainlyLegal, Three, Four, Seven, Addressed, Stated, Named, Shown, Requests, Controls,
         Copied DEF Plainly, Ask
    <3>2. Flushes(b(r)) /\ Flushes(z(r))
      BY FlushesLast, Zenon
    <3> QED BY <1>0, <3>1, <3>2
  <2> HIDE DEF b, z
  <2>3. Stays(<<f>>) /\ Stays(<<g>>)
    BY <1>0, <2>2
  <2>4. <<e, Flush, Ask, f, g>> = <<e, Flush, Ask>> \o <<f, g>>
    <3> HIDE DEF e, f, g
    <3> QED OBVIOUS
  <2> HIDE DEF e, f, g
  <2>5. Stays(<<f, g>>)
    BY <2>3, SendsMore
  <2>6. Sends(<<e, Flush, Ask, f, g>>)
    BY <1>0, <2>1, <2>4, <2>5, SendsRules
  <2> QED BY <2>6 DEF setiamod, e, f, g, b, z
<1>5. Sends(optiamod)
  BY <1>0, <1>4 DEF optiamod
<1>6. ASSUME NEW r \in Rocs PROVE Sends(LoadTrim(r) \o <<Flush>>)
  <2>1. Plainly(LoadTrim(r)) /\ Plainly(<<Flush>>)
    BY PlainlyLegal, LegalLoadTrim, One, Requests DEF Plainly
  <2>2. IsSeq(LoadTrim(r))
    BY Strung DEF LoadTrim
  <2>3. Plainly(LoadTrim(r) \o <<Flush>>)
    BY <2>1, Join DEF Plainly
  <2> QED BY <1>0, <2>2, <2>3, FlushesLast
<1>7. Sends(rdtrim)
  BY <1>6, RoundSends DEF rdtrim
<1>8. Stays(pixt)
  <2>1. ASSUME NEW r \in Rocs PROVE Stays(<<OnRoc(r, LoadTrim(r) \o <<Flush>>)>>)
    <3> DEFINE pixel == LoadTrim(r) \o <<Flush>>
               f == [q \in Rocs |-> IF q = r THEN pixel ELSE <<>>]
    <3>1. Stays(pixel) /\ Stays(<<>>)
      BY <1>0, <1>6, SendsRules
    <3> HIDE DEF pixel
    <3>2. Stays(<<EachRoc(f)>>)
      BY <1>0, <3>1
    <3> QED BY <3>2 DEF OnRoc, pixel
  <2> DEFINE ways == [r \in Rocs |-> <<OnRoc(r, LoadTrim(r) \o <<Flush>>)>>]
  <2>2. \A k \in DOMAIN ways : Stays(ways[k])
    BY <2>1
  <2>3. pixt = <<Either(ways)>>
    BY DEF pixt, AnyOf
  <2> HIDE DEF ways
  <2> QED BY <2>2, <2>3, SendsRules
<1>9. Stays(subtb)
  <2>1. \A r \in Rocs : Stays(<<Maybe(<<NewTrims(r)>>)>>)
    BY WaitSends, SendsMore DEF NewTrims
  <2> QED BY <1>0, <2>1 DEF subtb
<1>10. Sends(modcaldel)
  BY <1>0, SendingTests, RoundSends DEF modcaldel
<1>11. Sends(thrmap)
  <2>1. ASSUME NEW r \in Rocs
        PROVE  Sends(<<roc_I2cAddr(r), SetDAC("CtrlReg", Scan), Call(RocThrMap(r)),
                       Restore(r, "CtrlReg"), Flush>>)
    <3>1. Plainly(<<roc_I2cAddr(r), SetDAC("CtrlReg", Scan), Call(RocThrMap(r)),
                    Restore(r, "CtrlReg"), Flush>>)
      BY Five, Addressed, Stated, Named, Shown, Requests, Controls, LegalRocThrMap, PlainlyLegal
         DEF Plainly
    <3> QED BY <1>0, <3>1, FlushesLast
  <2> QED BY <2>1, RoundSends DEF thrmap
<1> QED BY <1>2, <1>3, <1>4, <1>5, <1>7, <1>8, <1>9, <1>10, <1>11

\* Procedures that return early: what waited has been sent before.
LEMMA SendingReturns ==
    /\ Sends(upgrade) /\ Sends(showclk) /\ Sends(showctr) /\ Sends(showsda)
    /\ \A r \in Rocs : Sends(tunePH(r)) /\ Sends(tunePHmod(r))
    /\ Sends(tune) /\ Sends(modtune)
<1>0. /\ \A p, q : Loose(p) /\ Loose(q) => Loose(p \o q)
      /\ \A p, q : Loose(p) /\ Sends(q) => Sends(p \o q)
      /\ \A p, q : Sends(p) /\ Stays(q) => Sends(p \o q)
      /\ \A p : Sends(p) => Sends(<<Call(p)>>) /\ Stays(p) /\ Loose(p) /\ Sends(Some(p))
      /\ \A p : Plainly(p) => Loose(p)
      /\ \A p : Plainly(p) /\ Flushes(p) => Sends(p)
      /\ \A f : (\A r \in Rocs : Stays(f[r])) => Stays(<<EveryRoc(f)>>) /\ Stays(<<EachRoc(f)>>)
  BY SendsRules, PlainlyLoose, FlushingSends
<1>1. Stays(<<Return>>) /\ Stays(<<Maybe(<<Return>>)>>)
  BY SendsRules, SendsMore
<1>2. Sends(<<Flush>>)
  BY WaitSends DEF Flush, Waits
<1>3. Sends(upgrade)
  <2> DEFINE m == Maybe(<<Return>>)
             n == Maybe(<<Ask, Return>>)
             a == Again(<<Ask, n>>)
  <2>1. Stays(<<Ask>>) /\ Stays(<<m>>)
    BY <1>0, <1>1, <1>2 DEF Ask
  <2>2. Stays(<<n>>)
    <3>1. Stays(<<Ask, Return>>)
      BY <1>1, <2>1, SendsMore
    <3> QED BY <3>1, SendsMore
  <2> HIDE DEF m, n
  <2>3. Stays(<<a>>)
    <3>1. Stays(<<Ask, n>>)
      BY <2>1, <2>2, SendsMore
    <3> QED BY <3>1, SendsRules
  <2> HIDE DEF a
  <2>4. Sends(<<Flush, Send, Flush>>)
    <3>1. Plainly(<<Flush, Send, Flush>>)
      BY Three, Requests DEF Plainly
    <3> QED BY <1>0, <3>1, FlushesLast
  <2>5. Sends(<<Ask, m>>) /\ Stays(<<Ask, n>>) /\ Stays(<<a, m>>)
    BY <1>2, <2>1, <2>2, <2>3, SendsMore DEF Ask
  <2>6. Sends(<<Ask, m>> \o <<Ask, n>>)
    BY <1>0, <2>5
  <2>7. Sends((<<Ask, m>> \o <<Ask, n>>) \o <<a, m>>)
    BY <1>0, <2>5, <2>6
  <2>8. Sends(((<<Ask, m>> \o <<Ask, n>>) \o <<a, m>>) \o <<Ask, n>>)
    BY <1>0, <2>5, <2>7
  <2>9. Sends((((<<Ask, m>> \o <<Ask, n>>) \o <<a, m>>) \o <<Ask, n>>) \o <<Flush, Send, Flush>>)
    BY <1>0, <2>4, <2>8
  <2>10. <<Ask, m, Ask, n, a, m, Ask, n, Flush, Send, Flush>>
             = (((<<Ask, m>> \o <<Ask, n>>) \o <<a, m>>) \o <<Ask, n>>) \o <<Flush, Send, Flush>>
    OBVIOUS
  <2>11. Sends(<<Ask, m, Ask, n, a, m, Ask, n, Flush, Send, Flush>>)
    BY <2>9, <2>10, Zenon
  <2>12. Sends(UpdateDTB)
    BY <2>11 DEF UpdateDTB, m, n, a
  <2> QED BY <1>0, <2>12 DEF upgrade
<1>4. ASSUME NEW t, Plainly(t) PROVE Sends(Samples(t))
  <2> DEFINE h == <<Sig_SetDelay("scan"), Daq_Start(0)>>
             m == Maybe(<<Return>>)
             e == <<Daq_Stop(0), Daq_Read(0), m>>
             z == <<Sig_SetDelay("phase"), Flush>>
  <2>1. Plainly(h) /\ Plainly(<<Daq_Stop(0)>>) /\ Plainly(z)
    BY PlainlyLegal, One, Two, Stated, Channeled, Requests, Zero DEF Plainly
  <2>2. Sends(<<Daq_Read(0)>>)
    BY WaitSends DEF Daq_Read, Waits
  <2>3. Sends(<<Daq_Stop(0), Daq_Read(0)>>)
    BY <1>0, <2>1, <2>2, SendsMore
  <2>4. e = <<Daq_Stop(0), Daq_Read(0)>> \o <<m>>
    <3> HIDE DEF m
    <3> QED OBVIOUS
  <2>5. Flushes(z)
    BY FlushesLast, Zenon
  <2> HIDE DEF h, m, e, z
  <2>6. Sends(e)
    BY <1>0, <1>1, <2>3, <2>4 DEF m
  <2>7. Sends(h \o t \o e)
    BY <1>0, <1>4, <2>1, <2>6
  <2>8. Sends(Some(h \o t \o e) \o z)
    BY <1>0, <2>1, <2>5, <2>7
  <2> QED BY <2>8 DEF Samples, h, e, m, z
<1>5. Sends(showclk) /\ Sends(showctr) /\ Sends(showsda)
  <2>1. Plainly(<<Pg_Single>>) /\ Plainly(<<roc_Pix_Trim>>) /\ Plainly(<<Pg_Stop>>)
    BY One, Stated, Requests DEF Plainly, Pg_Single
  <2> QED BY <1>0, <1>4, <2>1 DEF showclk, showctr, showsda
<1>6. ASSUME NEW r \in Rocs PROVE Sends(tunePH(r)) /\ Sends(tunePHmod(r))
  <2> DEFINE c == Call(DacScanPix(r, "Vcal"))
             m == Maybe(<<Return>>)
             h == <<SetDAC("CtrlReg", Scan), Flush>>
  <2>1. Sends(<<c>>)
    BY <1>0, SendingTests, Named
  <2>2. /\ Plainly(tunePHScans(r)) /\ Plainly(tunePHPixels) /\ Plainly(tunePHmodPixels(r))
        /\ Plainly(h)
    BY LegalTunePHScans, LegalTunePHPixels, LegalTunePHmodPixels, PlainlyLegal, Two, Stated,
       Named, Shown, Requests DEF Plainly
  <2>3. Sends(tunePHEnd(r)) /\ Stays(<<>>) /\ Stays(<<m>>)
    BY <1>1, SendingTunings, SendsRules
  <2>4. <<SetDAC("CtrlReg", Scan), Flush, c>> = h \o <<c>>
    <3> HIDE DEF c
    <3> QED OBVIOUS
  <2> HIDE DEF c, m, h
  <2>5. Sends(<<c, m>>)
    BY <2>1, <2>3, SendsMore
  <2>6. Sends(<<c, m>> \o tunePHScans(r) \o tunePHPixels \o tunePHEnd(r))
    BY <1>0, <2>2, <2>3, <2>5
  <2>7. Sends(h \o <<c>>)
    BY <1>0, <2>1, <2>2
  <2>8. Sends((h \o <<c>>) \o (IF SeedResponds THEN <<>> ELSE <<m>>))
    BY <1>0, <2>3, <2>7
  <2>9. Sends((h \o <<c>>) \o (IF SeedResponds THEN <<>> ELSE <<m>>)
              \o tunePHScans(r) \o tunePHmodPixels(r) \o tunePHEnd(r))
    BY <1>0, <2>2, <2>3, <2>8
  <2>10. Sends(tunePH(r))
    BY <2>6 DEF tunePH, c, m
  <2>11. Sends(tunePHmod(r))
    BY <2>4, <2>9 DEF tunePHmod, c, m
  <2> QED BY <2>10, <2>11
<1>7. Sends(tune)
  BY <1>0, <1>6, Zero DEF tune
<1>8. Sends(modtune)
  <2> DEFINE e == EveryRoc([r \in Rocs |->
                      <<roc_I2cAddr(r), Restore(r, "PHOffset"), Restore(r, "PHScale"),
                        Restore(r, "Vcal"), Restore(r, "CtrlReg")>>])
             b == [r \in Rocs |-> <<roc_I2cAddr(r), Call(tunePHmod(r))>>]
             g == EveryRoc(b)
  <2>1. Plainly(SickPixels(<<SetDAC("CtrlReg", Scan)>>)) /\ Plainly(SickPixels(<<>>))
    BY PlainlyLegal, LegalSickPixels, NoCalls, One, Stated, Named, Shown DEF Plainly
  <2>2. Plainly(<<e, Flush>>) /\ Flushes(<<e, Flush>>)
    <3>1. Legal(Anything, Rocs, e)
      BY Five, Addressed, Stated, Named, Shown, AllRounds
    <3> HIDE DEF e
    <3>2. Flushes(<<e, Flush>>)
      BY FlushesLast, Zenon
    <3> QED BY <3>1, <3>2, Two, Requests DEF Plainly
  <2>3. ASSUME NEW r \in Rocs PROVE Stays(<<roc_I2cAddr(r), Call(tunePHmod(r))>>)
    <3>1. Plainly(<<roc_I2cAddr(r)>>)
      BY One, Addressed DEF Plainly
    <3> QED BY <1>0, <1>6, <3>1, SendsMore
  <2>4. \A r \in Rocs : Stays(b[r])
    BY <2>3
  <2> HIDE DEF b
  <2>5. Stays(<<g>>)
    BY <1>0, <2>4
  <2>6. <<e, Flush, g>> = <<e, Flush>> \o <<g>>
    <3> HIDE DEF e, g
    <3> QED OBVIOUS
  <2> HIDE DEF e, g
  <2>7. Sends(<<e, Flush, g>>)
    BY <1>0, <2>2, <2>5, <2>6
  <2>8. Sends(SickPixels(<<SetDAC("CtrlReg", Scan)>>) \o SickPixels(<<>>) \o <<e, Flush, g>>)
    BY <1>0, <2>1, <2>7
  <2> QED BY <2>8 DEF modtune, e, g, b
<1> QED BY <1>3, <1>5, <1>6, <1>7, <1>8

\* The tests of a chip and of a module.
LEMMA SendingSequences == Sends(oneroc) /\ Sends(bare) /\ Sends(mt)
<1>0. /\ \A p, q : Loose(p) /\ Loose(q) => Loose(p \o q)
      /\ \A p, q : Loose(p) /\ Sends(q) => Sends(p \o q)
      /\ \A p, q : Sends(p) /\ Stays(q) => Sends(p \o q)
      /\ \A p : Sends(p) => Sends(<<Call(p)>>) /\ Stays(p) /\ Loose(p) /\ Sends(Some(p))
      /\ \A p : Plainly(p) => Loose(p)
      /\ \A p : Plainly(p) /\ Flushes(p) => Sends(p)
      /\ \A f : (\A k \in DOMAIN f : Loose(f[k])) => Loose(<<Either(f)>>)
  BY SendsRules, SendsMore, PlainlyLoose, FlushingSends
<1>1. Stays(<<Return>>) /\ Stays(<<Maybe(<<Return>>)>>) /\ Loose(<<>>)
  BY SendsRules, SendsMore, NoCalls, <1>0 DEF Plainly
<1>2. Sends(<<Flush>>)
  BY WaitSends DEF Flush, Waits
<1>3. Sends(chip)
  <2> DEFINE m == Maybe(<<Return>>)
             k == Keep("ctl", 0, "CtrlReg")
             c == Call(setia)
             g == Call(geteffmap)
             t3 == <<Call(effvsdac(0, "Vcal")),
                     Again(SetBoth(0, "VthrComp", New)
                           \o <<Call(setcaldel(0)), Call(effvsdac(0, "Vcal"))>>)>>
  <2>1. Plainly(SetRange(0)) /\ Plainly(t3)
    BY Two, Join, Controls, Zero, Copied, Named, Shown, LegalSetRange, LegalEffvsdac,
       LegalSetcaldel, PlainlyLegal DEF Plainly
  <2>2. Stays(<<k>>) /\ Stays(<<m>>)
    BY <1>1, WaitSends DEF Keep
  <2>3. Sends(<<c>>) /\ Sends(<<g>>) /\ Sends(<<Call(tunePH(0))>>)
        /\ Sends(Some(<<Call(setcaldel(0))>>))
    BY <1>0, SendingCalls, SendingReturns, SendingTests, Zero
  <2>4. <<c, m, k>> = <<c, m>> \o <<k>>
    <3> HIDE DEF c, m, k
    <3> QED OBVIOUS
  <2> HIDE DEF c, m, k, g, t3
  <2>5. Sends(<<c, m, k>>)
    BY <1>0, <2>2, <2>3, <2>4, SendsMore
  <2>6. Stays(<<m, g>>)
    BY <1>0, <2>2, <2>3, SendsMore
  <2>7. Sends(<<c, m, k>> \o SetRange(0) \o Some(<<Call(setcaldel(0))>>))
    BY <1>0, <2>1, <2>3, <2>5
  <2>8. Sends(<<c, m, k>> \o SetRange(0) \o Some(<<Call(setcaldel(0))>>) \o <<m, g>>)
    BY <1>0, <2>6, <2>7
  <2>9. Loose(<<c, m, k>> \o SetRange(0) \o Some(<<Call(setcaldel(0))>>) \o <<m, g>>
              \o SetRange(0) \o t3 \o SetRange(0))
    BY <1>0, <2>1, <2>8
  <2>10. Sends(<<c, m, k>> \o SetRange(0) \o Some(<<Call(setcaldel(0))>>) \o <<m, g>>
               \o SetRange(0) \o t3 \o SetRange(0) \o <<Call(tunePH(0))>>)
    BY <1>0, <2>3, <2>9
  <2> QED BY <2>10 DEF chip, c, m, k, g, t3
<1>4. Sends(endOfChip) /\ Sends(PowerDown)
  BY SendingTunings
<1>5. Plainly(SetRange(0))
  BY Zero, Named, LegalSetRange, PlainlyLegal DEF Plainly
<1>6. Sends(oneroc)
  <2>1. Sends(<<Call(dacscanroc("Vcal"))>>)
    BY <1>0, SendingTests, Named
  <2>2. Sends(chip \o SetRange(0) \o <<Call(dacscanroc("Vcal"))>> \o endOfChip)
    BY <1>0, <1>3, <1>4, <1>5, <2>1
  <2> QED BY <2>2 DEF oneroc
<1>7. Sends(bare)
  <2> DEFINE H1 == SetRange(0) \o <<Call(dacscanroc("Vcal"))>>
             H2 == <<Call(dacscanroc("Vcal"))>>
             B(h) == (IF h = 1 THEN H1 ELSE <<>>) \o SetRange(0)
                     \o <<Call(dacdac("CalDel", "VthrComp"))>>
                     \o (IF h = 1 THEN H2 ELSE <<>>) \o <<Call(dacscanroc("VthrComp"))>>
             f == [h \in 1 .. 2 |-> B(h)]
  <2>1. Sends(H2) /\ Sends(<<Call(dacscanroc("VthrComp"))>>)
    BY <1>0, SendingTests, Named
  <2>2. Plainly(<<Call(dacdac("CalDel", "VthrComp"))>>)
    BY One, Controls, LegalDacdac, Named, Zero, PlainlyLegal DEF Plainly
  <2>3. Loose(H1)
    BY <1>0, <1>5, <2>1
  <2> HIDE DEF H1, H2
  <2>4. \A h \in 1 .. 2 : Loose(B(h))
    BY <1>0, <1>1, <1>5, <2>1, <2>2, <2>3
  <2> HIDE DEF B
  <2>5. \A h \in DOMAIN f : Loose(f[h])
    BY <2>4
  <2> HIDE DEF f
  <2>6. Sends(chip \o <<Either(f)>> \o endOfChip)
    BY <1>0, <1>3, <1>4, <2>5
  <2> QED BY <2>6 DEF bare, f, B, H1, H2
<1>8. Loose(mtBoard)
  <2> DEFINE h == <<Flush, Sig_SetDelay("new"), SetPhase("new"), Pon, Flush, Ask>>
             m == Maybe(<<Poff, Flush, Return>>)
             i == IF 4 \in Rocs THEN <<Maybe(<<roc_I2cAddr(0), Send, roc_I2cAddr(4)>>)>> ELSE <<>>
  <2>1. Plainly(h) /\ Plainly(i) /\ Plainly(<<Send, Flush>>)
    BY One, Two, Three, Six, NoCalls, Requests, Stated, Controls, Addressed, Zero, PlainlyLegal
       DEF Plainly, Ask
  <2>2. Flushes(h)
    BY FlushesLast, Zenon DEF Ask
  <2>3. <<Poff, Flush, Return>> = <<Poff, Flush>> \o <<Return>>
    OBVIOUS
  <2>4. Sends(<<Poff, Flush>>)
    <3>1. Plainly(<<Poff, Flush>>)
      BY Two, Stated, Requests, PlainlyLegal DEF Plainly
    <3> QED BY <1>0, <3>1, FlushesLast
  <2>5. Stays(<<m>>)
    <3>1. Sends(<<Poff, Flush, Return>>)
      BY <1>0, <1>1, <2>3, <2>4
    <3> QED BY <1>0, <3>1, SendsMore
  <2>6. <<Flush, Sig_SetDelay("new"), SetPhase("new"), Pon, Flush, Ask, m>> = h \o <<m>>
    <3> HIDE DEF m
    <3> QED OBVIOUS
  <2> HIDE DEF h, m, i
  <2>7. Sends(h \o <<m>>)
    BY <1>0, <2>1, <2>2, <2>5
  <2>8. Loose((h \o <<m>>) \o i \o <<Send, Flush>>)
    BY <1>0, <2>1, <2>7
  <2> QED BY <2>6, <2>8 DEF mtBoard, i, m
<1>9. Plainly(mtModule)
  <2>1. Legal(Anything, Rocs, Select(Rocs))
    BY Chosen, Zero, PlainlyLegal DEF Selections
  <2>2. \A k \in 1 .. Len(DacOrder) : Legal(Anything, Rocs, Call(SetDACallROCs(DacOrder[k])))
    BY LegalSetDACallROCs, Ordered, Controls, PlainlyLegal
  <2>3. Within(Anything, Rocs, EachDAC(SetDACallROCs))
    BY <2>2, EachDACLegal DEF EachDAC
  <2>4. Within(Anything, Rocs, ForChannels(LAMBDA ch : <<Daq_Open(ch), Daq_Stop(ch)>>))
    BY One, Two, NoCalls, Channeled, AllRounds DEF ForChannels
  <2>5. \A f : (\A r \in Rocs : Within(Anything, Rocs, f[r]))
              => Within(Anything, Rocs, <<Flush, EachRoc(f), Flush, HVon, Flush, Ask>>)
    BY Six, Requests, Stated, SelectedRounds, PlainlyLegal DEF Ask
  <2>6. Within(Anything, Rocs,
               <<Flush, EachRoc([r \in Rocs |-> <<roc_I2cAddr(r), roc_ClrCal, roc_Chip_Mask>>]),
                 Flush, HVon, Flush, Ask>>)
    BY <2>5, Three, Addressed, Requests
  <2> QED BY <2>1, <2>3, <2>4, <2>6, One, Join DEF mtModule, Plainly
<1>10. Sends(mt)
  <2> DEFINE u == <<Maybe(PowerDown \o <<Return>>)>>
             B1 == <<Call(setiamod)>> \o u \o <<Ask>> \o u
             B2 == <<Call(DacScanMod("VthrComp"))>>
             s == <<Call(GetSdata), Maybe(<<Call(GetSdata)>>)>>
             B(b) == (IF b = 1 THEN B1 ELSE <<>>) \o s \o mtCalDel \o u \o <<Call(ModMap)>>
                     \o (IF b = 1 THEN B2 ELSE <<>>)
             f == [b \in 1 .. 2 |-> B(b)]
  <2>1. Loose(u)
    <3> DEFINE q == PowerDown \o <<Return>>
               w == <<q, <<>>>>
    <3>1. Loose(q)
      BY <1>0, <1>1, <1>4
    <3> HIDE DEF q
    <3>2. \A k \in DOMAIN w : Loose(w[k])
      BY <1>1, <3>1
    <3>3. Loose(<<Either(w)>>)
      <4> HIDE DEF w
      <4> QED BY <1>0, <3>2
    <3> QED BY <3>3 DEF Maybe, q
  <2>2. Plainly(<<Ask>>) /\ Plainly(s) /\ Plainly(mtCalDel)
    BY One, Two, Requests, Controls, LegalGetSdata, LegalMtCalDel, PlainlyLegal, Named
       DEF Plainly, Ask
  <2>3. Sends(<<Call(setiamod)>>) /\ Sends(B2) /\ Sends(<<Call(ModMap)>>)
    BY <1>0, SendingRounds, SendingTests, SendingCalls, Named
  <2> HIDE DEF u
  <2>4. Loose(B1)
    BY <1>0, <2>1, <2>2, <2>3
  <2> HIDE DEF B1, B2, s
  <2>5. \A b \in 1 .. 2 : Loose(B(b))
    BY <1>0, <1>1, <2>1, <2>2, <2>3, <2>4
  <2> HIDE DEF B
  <2>6. \A b \in DOMAIN f : Loose(f[b])
    BY <2>5
  <2>7. /\ Plainly(<<Pg_Stop, Pg_Single, Flush>>) /\ Plainly(<<HVoff, Flush>>)
        /\ Plainly(CloseChannels) /\ Plainly(<<Poff, Flush>>) /\ Flushes(<<Poff, Flush>>)
    BY Two, Three, Stated, Requests, LegalCloseChannels, PlainlyLegal, FlushesLast
       DEF Plainly, Pg_Single
  <2> HIDE DEF f
  <2>8. Loose(mtBoard \o mtModule \o u \o <<Pg_Stop, Pg_Single, Flush>> \o <<Either(f)>>)
    BY <1>0, <1>8, <1>9, <2>1, <2>6, <2>7
  <2>9. Sends(mtBoard \o mtModule \o u \o <<Pg_Stop, Pg_Single, Flush>> \o <<Either(f)>>
              \o <<HVoff, Flush>> \o CloseChannels \o <<Poff, Flush>>)
    BY <1>0, <2>7, <2>8
  <2> QED BY <2>9 DEF mt, f, B, B1, B2, s, u
<1> QED BY <1>6, <1>7, <1>10

\* The table, but for the procedures that leave a request behind, and for
\* those that need not send anything.
Idle == {"pixt", "subtb"}

LEMMA TableSends ==
    TheTable => /\ \A c \in Commands \ (Unflushed \cup Idle) : Sends(Procedure[c])
                /\ \A c \in Idle : Stays(Procedure[c])
<1> SUFFICES ASSUME TheTable
             PROVE  /\ \A c \in Commands \ (Unflushed \cup Idle) : Sends(Procedure[c])
                    /\ \A c \in Idle : Stays(Procedure[c])
  OBVIOUS
<1>1. Commands = DOMAIN SetUp \cup DOMAIN OneRoc \cup DOMAIN SelectedRocs \cup DOMAIN AllRocs
  BY SMTT(30) DEF Commands, TheTable, TheProcedure, TheTests
<1>2. \A c \in DOMAIN SetUp :
          c \notin DOMAIN OneRoc /\ c \notin DOMAIN SelectedRocs /\ c \notin DOMAIN AllRocs
  BY DEF SetUp, OneRoc, SelectedRocs, AllRocs
<1>3. \A c \in DOMAIN OneRoc : c \notin DOMAIN SelectedRocs /\ c \notin DOMAIN AllRocs
  BY DEF OneRoc, SelectedRocs, AllRocs
<1>4. \A c \in DOMAIN SelectedRocs : c \notin DOMAIN AllRocs
  BY DEF SelectedRocs, AllRocs
<1>5. \A c \in DOMAIN SetUp : Procedure[c] = SetUp[c]
  BY SMTT(30), <1>2 DEF TheTable, TheProcedure, TheTests
<1>6. \A c \in DOMAIN OneRoc : Procedure[c] = OneRoc[c]
  BY SMTT(30), <1>2, <1>3 DEF TheTable, TheProcedure, TheTests
<1>7. \A c \in DOMAIN SelectedRocs : Procedure[c] = SelectedRocs[c]
  BY SMTT(30), <1>2, <1>3, <1>4 DEF TheTable, TheProcedure, TheTests
<1>8. \A c \in DOMAIN AllRocs : Procedure[c] = AllRocs[c]
  BY SMTT(30), <1>2, <1>3, <1>4 DEF TheTable, TheProcedure, TheTests
<1>9. Unflushed = TheUnflushed
  BY DEF TheTable
<1>10. Sends(rdtrim) /\ Sends(modcaldel) /\ Sends(thrmap)
  BY SendingRounds
<1>11. \A c \in DOMAIN SetUp \ (Unflushed \cup Idle) : Sends(SetUp[c])
  BY <1>9, <1>10, SendingCommands, SendingChoices, SendingCalls, SendingReturns
     DEF SetUp, TheUnflushed, Idle
<1>12. \A c \in DOMAIN OneRoc \ (Unflushed \cup Idle) : Sends(OneRoc[c])
  <2> DEFINE tests == {"tdscan", "onevst", "fire", "fire2", "caldelmap", "bbtest", "gaindac",
                       "thrmapsc", "scanvthr"}
             choices == {"takedata", "daci", "calsdac", "thrdac", "dacscanroc"}
             calls == {"caldel", "effmap", "phmap", "calsmap", "readback", "optia", "trimbits"}
             tunings == {"vthrcomp5", "vthrcomp", "tune", "oneroc", "bare", "thrmap"}
  <2>1. \A c \in tests : Sends(OneRoc[c])
    BY SendingTests DEF OneRoc
  <2>2. \A c \in choices : Sends(OneRoc[c])
    BY SendingChoices DEF OneRoc
  <2>3. \A c \in calls : Sends(OneRoc[c])
    BY SendingCalls DEF OneRoc
  <2>4. \A c \in tunings : Sends(OneRoc[c])
    BY <1>10, SendingTunings, SendingReturns, SendingSequences DEF OneRoc
  <2>6. Sends(OneRoc["trim"])
    <3>1. OneRoc["trim"] = trim(FALSE)
      BY DEF OneRoc
    <3> QED BY <3>1, SendingTunings
  <2>5. DOMAIN OneRoc \ (Unflushed \cup Idle)
            = tests \cup choices \cup calls \cup tunings \cup {"trim"}
    BY <1>9 DEF OneRoc, TheUnflushed, Idle
  <2> QED BY <2>1, <2>2, <2>3, <2>4, <2>5, <2>6
<1>13. \A c \in DOMAIN SelectedRocs \ (Unflushed \cup Idle) : Sends(SelectedRocs[c])
  BY <1>9, <1>10, SendingTests, SendingTunings, SendingChoices, SendingCalls, SendingRounds
     DEF SelectedRocs, TheUnflushed, Idle
<1>14. \A c \in DOMAIN AllRocs : Sends(AllRocs[c])
  BY SendingRounds, SendingReturns, SendingSequences DEF AllRocs
<1>15. \A c \in Idle : Stays(Procedure[c])
  <2>1. Procedure["pixt"] = pixt /\ Procedure["subtb"] = subtb
    BY SMTT(30) DEF TheTable, TheProcedure, TheTests, SetUp, OneRoc, SelectedRocs, AllRocs
  <2> QED BY <2>1, SendingRounds DEF Idle
<1> QED BY <1>1, <1>5, <1>6, <1>7, <1>8, <1>11, <1>12, <1>13, <1>14, <1>15

LEMMA CertainlySent ==
    \A C, A :
        /\ \A c \in C : Triple(Views, A, Procedure[c], Flushed, Flushed)
        /\ Beginning \cup (IF MaxCommands > 1 THEN Anytime ELSE {}) \subseteq A
        => Certain(C, [c \in C |-> Views], [c \in C |-> Flushed])
<1> SUFFICES ASSUME NEW C, NEW A, \A c \in C : Triple(Views, A, Procedure[c], Flushed, Flushed),
                    Beginning \cup (IF MaxCommands > 1 THEN Anytime ELSE {}) \subseteq A
             PROVE  Certain(C, [c \in C |-> Views], [c \in C |-> Flushed])
  OBVIOUS
<1>1. Beginning \cup (IF MaxCommands > 1 THEN Anytime ELSE {}) \subseteq Views
  BY DEF Beginning, Anytime
<1>2. \A c \in C : \A v \in Beginning \cup (IF MaxCommands > 1 THEN Anytime ELSE {}) :
          Runs(Views, Flushed, Flushed, Procedure[c], v)
  BY <1>1 DEF Triple
<1> QED BY <1>2 DEF Certain

\* At the end of a way on which all is flushed nothing waits.
LEMMA EndsFlushed ==
    \A C : TypeOK /\ OnTheWay(C, [c \in C |-> Views], [c \in C |-> Flushed]) /\ command \in C
        => (Done => ~unsent)
<1> SUFFICES ASSUME NEW C, TypeOK, OnTheWay(C, [c \in C |-> Views], [c \in C |-> Flushed]),
                    command \in C, Done
             PROVE  ~unsent
  OBVIOUS
<1>1. View \in Flushed
  BY DEF OnTheWay, Done
<1> QED BY <1>1, ViewIs DEF Flushed

\* Sent, for the commands of cmd.cpp as each is typed at a board that is set
\* up: but for those that the table names nothing they asked for is still in
\* the buffer of the USB when they are done.
THEOREM RequestsSent == TheTable /\ MaxCommands = 1 /\ Spec => []Sent
<1> DEFINE C == Commands \ Unflushed
           V == [c \in C |-> Views]
           B == [c \in C |-> Flushed]
<1>1. ASSUME TheTable, MaxCommands = 1 PROVE Certain(C, V, B)
  <2>1. Beginning \cup (IF MaxCommands > 1 THEN Anytime ELSE {}) \subseteq Flushed
    BY <1>1 DEF Beginning, Flushed
  <2>2. \A c \in C : Stays(Procedure[c])
    BY <1>1, TableSends, SendsRules
  <2>3. \A c \in C : Triple(Views, Flushed, Procedure[c], Flushed, Flushed)
    BY <2>2 DEF Stays
  <2> HIDE DEF C
  <2> QED BY <2>1, <2>3, CertainlySent
<1>2. TypeOK /\ OnTheWay(C, V, B) => (command \in C => (Done => ~unsent))
  BY EndsFlushed
<1>3. TypeOK /\ command \notin C => Sent
  BY DEF TypeOK, Sent, Done
<1> HIDE DEF V, B, C
<1>4. ASSUME TheTable, MaxCommands = 1 PROVE Spec => []Sent
  <2>1. Spec => []TypeOK
    BY <1>4, CommandsTyped
  <2>2. TypeOK /\ Init => OnTheWay(C, V, B)
    BY WayInit
  <2>3. TypeOK /\ TypeOK' /\ OnTheWay(C, V, B) /\ [Next]_vars => OnTheWay(C, V, B)'
    BY <1>1, <1>4, WayNext
  <2>4. TypeOK /\ OnTheWay(C, V, B) => Sent
    BY <1>2, <1>3 DEF Sent
  <2> QED BY <2>1, <2>2, <2>3, <2>4, PTL DEF Spec
<1> QED BY <1>4

\* Sent, for any numbers of commands and of exceptions: what a command before
\* has left in the buffer is sent too, but by pixt, which comes to no flush
\* when the ROC named is not selected, and by subtb, which works on modtrm only.
THEOREM BufferEmptied == TheTable /\ Spec => [](command \notin Idle => Sent)
<1> DEFINE C == Commands \ (Unflushed \cup Idle)
           V == [c \in C |-> Views]
           B == [c \in C |-> Flushed]
           Emptied == command \notin Idle => Sent
<1>1. ASSUME TheTable PROVE Certain(C, V, B)
  <2>1. Beginning \cup (IF MaxCommands > 1 THEN Anytime ELSE {}) \subseteq Views
    BY DEF Beginning, Anytime
  <2>2. \A c \in C : Triple(Views, Views, Procedure[c], Flushed, Flushed)
    BY <1>1, TableSends DEF Sends
  <2> HIDE DEF C
  <2> QED BY <2>1, <2>2, CertainlySent
<1>2. TypeOK /\ OnTheWay(C, V, B) => (command \in C => (Done => ~unsent))
  BY EndsFlushed
<1>3. TypeOK /\ command \notin C => Emptied
  BY DEF TypeOK, Sent, Done
<1>4. TypeOK /\ OnTheWay(C, V, B) => Emptied
  <2> HIDE DEF C, V, B
  <2> QED BY <1>2, <1>3 DEF Sent
<1> HIDE DEF V, B, C, Emptied
<1>5. ASSUME TheTable PROVE Spec => []Emptied
  <2>1. Spec => []TypeOK
    BY <1>5, CommandsTyped
  <2>2. TypeOK /\ Init => OnTheWay(C, V, B)
    BY WayInit
  <2>3. TypeOK /\ TypeOK' /\ OnTheWay(C, V, B) /\ [Next]_vars => OnTheWay(C, V, B)'
    BY <1>1, <1>5, WayNext
  <2> QED BY <1>4, <2>1, <2>2, <2>3, PTL DEF Spec
<1> QED BY <1>5 DEF Emptied
=============================================================================
