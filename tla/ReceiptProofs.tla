---------------------------- MODULE ReceiptProofs ----------------------------
(***************************************************************************)
(* Proofs about module Receipt, for texts, buffers and pipes of any size.   *)
(*                                                                          *)
(* Accounted is the first inductive invariant: per stream, what its sink    *)
(* took, what the stream holds and what the call has left add up to what was*)
(* given.  Telling is the second: a stream that is pointed at the null      *)
(* device has spoilt the exit code, or is about to.  Reporting is the third:*)
(* what a verdict's exit code says of the receipt, at each place of a run.  *)
(***************************************************************************)
EXTENDS Receipt, SequenceTheorems, TLAPS

LineNames == {"refusal", "not_written", "note", "usage", "error"}
Texts == {"receipt", "caller"} \union LineNames
Units == Texts \X Nat

-----------------------------------------------------------------------------
(* Sequences.                                                               *)

\* An element moves from the front of one sequence to the end of another.
LEMMA MoveElement ==
  ASSUME NEW S, NEW g \in Seq(S), NEW h \in Seq(S), NEW l \in Seq(S), h # <<>>
  PROVE  /\ Append(g, Head(h)) \in Seq(S) /\ Tail(h) \in Seq(S)
         /\ Append(g, Head(h)) \o Tail(h) \o l = g \o h \o l
  OBVIOUS

LEMMA MoveElementOn ==
  ASSUME NEW S, NEW g \in Seq(S), NEW h \in Seq(S), h # <<>>
  PROVE  Append(g, Head(h)) \o <<>> \o Tail(h) = g \o <<>> \o h
<1>1. \A x \in Seq(S) : x \o <<>> = x
  OBVIOUS
<1>2. Append(g, Head(h)) \in Seq(S)
  OBVIOUS
<1>3. Append(g, Head(h)) \o Tail(h) = g \o h
  OBVIOUS
<1>4. QED
  BY <1>1, <1>2, <1>3

\* Text is a sequence of units.
LEMMA TextIsUnits ==
  ASSUME NEW t \in Texts
  PROVE  Text(t) \in Seq(Units)
<1>1. Size(t) \in Nat
  BY SizesAssumption DEF Size
<1>2. QED
  BY <1>1 DEF Text, Units

-----------------------------------------------------------------------------
(* The account of every unit.                                               *)

Types ==
  /\ held \in [Streams -> Seq(Units)] /\ got \in [Streams -> Seq(Units)]
  /\ given \in [Streams -> Seq(Units)] /\ left \in Seq(Units)
  /\ on \in Streams /\ fd \in [Streams -> {Null, Shut, 1, 2}]
  /\ says \in Seq(LineNames)
  /\ left # <<>> => stage \in {"drain", "write"}
  /\ raw /\ stage = "write" => held[on] = <<>>

Account == Types /\ InOrder

\* What a step that moves no unit leaves alone.
StillThere == UNCHANGED <<fd, held, got, given, on, left>>

LEMMA StillInOrder ==
  ASSUME Account, StillThere PROVE InOrder'
BY DEF Account, InOrder, StillThere

\* A unit out of a buffer.
LEMMA HeldMoves ==
  ASSUME Account, NEW s \in Streams, TakeHeld(s), UNCHANGED <<fd, given, on, left>>
  PROVE  /\ held' \in [Streams -> Seq(Units)] /\ got' \in [Streams -> Seq(Units)]
         /\ \A x \in Streams : Len(held'[x]) <= Len(held[x])
         /\ InOrder'
<1>1. held[s] \in Seq(Units) /\ got[s] \in Seq(Units) /\ held[s] # <<>> /\ left \in Seq(Units)
  BY DEF TakeHeld, Account, Types
<1>2. held' = [held EXCEPT ![s] = Tail(held[s])]
  BY DEF TakeHeld
<1>3. held' \in [Streams -> Seq(Units)]
  BY <1>1, <1>2, MoveElement DEF Account, Types
<1>l. \A x \in Streams : Len(held'[x]) <= Len(held[x])
  <2>1. Len(Tail(held[s])) <= Len(held[s]) /\ \A x \in Streams : Len(held[x]) \in Nat
    BY <1>1, HeadTailProperties DEF Account, Types
  <2>2. QED
    BY <1>2, <2>1 DEF Account, Types
<1>4. CASE fd[s] = Null
  <2>1. got' = got
    BY <1>4 DEF TakeHeld, Take
  <2>2. \A x \in Streams : x # s => held'[x] = held[x]
    BY <1>2 DEF Account, Types
  <2>3. ASSUME NEW x \in Streams, fd[x] \in {1, 2}
        PROVE  got'[x] \o held'[x] \o (IF on = x THEN left ELSE <<>>) = given[x]
    <3>1. x # s
      BY <1>4, <2>3 DEF Null
    <3>2. QED
      BY <2>1, <2>2, <2>3, <3>1 DEF Account, InOrder
  <2>4. QED
    BY <1>3, <1>l, <2>1, <2>3 DEF InOrder, Account, Types
<1>5. CASE fd[s] # Null
  <2>1. got' = [got EXCEPT ![s] = Append(got[s], Head(held[s]))]
    BY <1>5 DEF TakeHeld, Take
  <2>2. got' \in [Streams -> Seq(Units)]
    BY <1>1, <2>1, MoveElement DEF Account, Types
  <2>3. ASSUME NEW x \in Streams, fd[x] \in {1, 2}
        PROVE  got'[x] \o held'[x] \o (IF on = x THEN left ELSE <<>>) = given[x]
    <3> DEFINE l == IF on = x THEN left ELSE <<>>
    <3>1. l \in Seq(Units)
      BY <1>1
    <3>2. got[x] \o held[x] \o l = given[x]
      BY <2>3 DEF Account, InOrder
    <3>3. CASE x = s
      <4>1. got'[x] = Append(got[s], Head(held[s])) /\ held'[x] = Tail(held[s])
        BY <1>2, <2>1, <3>3 DEF Account, Types
      <4> HIDE DEF l
      <4>2. got'[x] \o held'[x] \o l = got[s] \o held[s] \o l
        <5>1. \A z \in Seq(Units) :
                Append(got[s], Head(held[s])) \o Tail(held[s]) \o z = got[s] \o held[s] \o z
          <6> DEFINE h == held[s]
                     g == got[s]
          <6>1. h \in Seq(Units) /\ g \in Seq(Units) /\ h # <<>>
            BY <1>1
          <6> HIDE DEF h, g
          <6>2. \A z \in Seq(Units) : Append(g, Head(h)) \o Tail(h) \o z = g \o h \o z
            BY <6>1, MoveElement
          <6>3. QED
            BY <6>2 DEF h, g
        <5>2. QED
          BY <3>1, <4>1, <5>1
      <4>3. QED
        BY <3>2, <3>3, <4>2 DEF l
    <3>4. CASE x # s
      BY <1>2, <2>1, <3>2, <3>4 DEF Account, Types
    <3>5. QED
      BY <3>3, <3>4
  <2>4. QED
    BY <1>3, <1>l, <2>2, <2>3 DEF InOrder
<1>6. QED
  BY <1>4, <1>5

\* A unit out of the call, past an empty buffer.
LEMMA LeftMoves ==
  ASSUME Account, left # <<>>, held[on] = <<>>, Take(on, Head(left)), left' = Tail(left),
         UNCHANGED <<fd, given, on, held>>
  PROVE  /\ got' \in [Streams -> Seq(Units)] /\ left' \in Seq(Units)
         /\ InOrder'
<1>1. got[on] \in Seq(Units) /\ left \in Seq(Units) /\ on \in Streams
  BY DEF Account, Types
<1>2. left' \in Seq(Units)
  BY <1>1, MoveElement
<1>3. CASE fd[on] = Null
  <2>1. got' = got
    BY <1>3 DEF Take
  <2>2. ASSUME NEW x \in Streams, fd[x] \in {1, 2}
        PROVE  got'[x] \o held[x] \o (IF on = x THEN left' ELSE <<>>) = given[x]
    <3>1. x # on
      BY <1>3, <2>2 DEF Null
    <3>2. QED
      BY <2>1, <2>2, <3>1 DEF Account, InOrder
  <2>3. QED
    BY <1>2, <2>1, <2>2 DEF InOrder, Account, Types
<1>4. CASE fd[on] # Null
  <2>1. got' = [got EXCEPT ![on] = Append(got[on], Head(left))]
    BY <1>4 DEF Take
  <2>2. got' \in [Streams -> Seq(Units)]
    BY <1>1, <2>1, MoveElement DEF Account, Types
  <2>3. ASSUME NEW x \in Streams, fd[x] \in {1, 2}
        PROVE  got'[x] \o held[x] \o (IF on = x THEN left' ELSE <<>>) = given[x]
    <3>1. got[x] \o held[x] \o (IF on = x THEN left ELSE <<>>) = given[x]
      BY <2>3 DEF Account, InOrder
    <3>2. CASE x = on
      <4>1. got'[x] = Append(got[on], Head(left))
        BY <2>1, <3>2 DEF Account, Types
      <4>2. Append(got[on], Head(left)) \o <<>> \o Tail(left) = got[on] \o <<>> \o left
        BY <1>1, MoveElementOn
      <4>3. QED
        BY <3>1, <3>2, <4>1, <4>2
    <3>3. CASE x # on
      BY <2>1, <3>1, <3>3 DEF Account, Types
    <3>4. QED
      BY <3>2, <3>3
  <2>4. QED
    BY <1>2, <2>2, <2>3 DEF InOrder
<1>5. QED
  BY <1>3, <1>4

\* Both parts of a text that is cut in two are texts.
LEMMA Parts ==
  ASSUME NEW h \in Seq(Units), NEW l \in Seq(Units), NEW n \in 0..Len(l)
  PROVE  /\ SubSeq(l, 1, n) \in Seq(Units) /\ SubSeq(l, n + 1, Len(l)) \in Seq(Units)
         /\ h \o SubSeq(l, 1, n) \in Seq(Units)
<1>1. SubSeq(l, 1, n) \in Seq(Units) /\ SubSeq(l, n + 1, Len(l)) \in Seq(Units)
  OBVIOUS
<1>2. QED
  BY <1>1, ConcatProperties, Zenon

\* Four texts, grouped in another way.
LEMMA Regroup ==
  \A g, h, a, b \in Seq(Units) : g \o (h \o a) \o b = g \o h \o (a \o b)
<1> TAKE g, h, a, b \in Seq(Units)
<1>1. (g \o h) \o a = g \o (h \o a)
  BY SMT
<1>2. PICK c : c = g \o h
  OBVIOUS
<1>3. c \in Seq(Units)
  BY <1>2
<1>4. (c \o a) \o b = c \o (a \o b)
  BY <1>3, SMT
<1>5. QED
  BY <1>1, <1>2, <1>4, Zenon

\* And nothing of it is lost.
LEMMA CutInTwo ==
  \A g, h, l \in Seq(Units) : \A n \in 0..Len(l) :
    g \o (h \o SubSeq(l, 1, n)) \o SubSeq(l, n + 1, Len(l)) = g \o h \o l
<1> TAKE g, h, l \in Seq(Units)
<1> TAKE n \in 0..Len(l)
<1>1. SubSeq(l, 1, n) \in Seq(Units) /\ SubSeq(l, n + 1, Len(l)) \in Seq(Units)
  OBVIOUS
<1>2. SubSeq(l, 1, n) \o SubSeq(l, n + 1, Len(l)) = l
  <2>1. Len(l) \in Nat
    OBVIOUS
  <2>2. 1 \in 1..(Len(l) + 1) /\ n \in (1 - 1)..Len(l) /\ Len(l) \in n..Len(l)
    BY <2>1
  <2>3. SubSeq(l, 1, n) \o SubSeq(l, n + 1, Len(l)) = SubSeq(l, 1, Len(l))
    BY <2>2, ConcatAdjacentSubSeq
  <2>4. QED
    BY <2>3, SubSeqFull
<1>3. g \o (h \o SubSeq(l, 1, n)) \o SubSeq(l, n + 1, Len(l))
        = g \o h \o (SubSeq(l, 1, n) \o SubSeq(l, n + 1, Len(l)))
  <2>1. \A a, b \in Seq(Units) : g \o (h \o a) \o b = g \o h \o (a \o b)
    BY Regroup
  <2>2. QED
    BY <1>1, <2>1, Zenon
<1>4. QED
  BY <1>2, <1>3, Zenon

LEMMA CutAnywhere ==
  ASSUME NEW l \in Seq(Units), NEW n \in 0..Len(l)
  PROVE  \A x, y \in Seq(Units) :
           x \o (y \o SubSeq(l, 1, n)) \o SubSeq(l, n + 1, Len(l)) = x \o y \o l
<1>1. TAKE x, y \in Seq(Units)
<1>2. QED
  BY CutInTwo, ZenonT(40)

\* The buffer takes n units of the call.
LEMMA BufferTakes ==
  ASSUME Account, NEW n \in 0..Len(left), UNCHANGED <<fd, got, given, on>>,
         held' = [held EXCEPT ![on] = @ \o SubSeq(left, 1, n)],
         left' = SubSeq(left, n + 1, Len(left))
  PROVE  /\ held' \in [Streams -> Seq(Units)] /\ left' \in Seq(Units)
         /\ InOrder'
<1>1. got[on] \in Seq(Units) /\ held[on] \in Seq(Units) /\ left \in Seq(Units) /\ on \in Streams
  BY DEF Account, Types
<1> DEFINE g == got[on]
           h == held[on]
<1>2. g \in Seq(Units) /\ h \in Seq(Units)
  BY <1>1
<1> HIDE DEF g, h
<1>3. /\ h \o SubSeq(left, 1, n) \in Seq(Units) /\ SubSeq(left, n + 1, Len(left)) \in Seq(Units)
      /\ g \o (h \o SubSeq(left, 1, n)) \o SubSeq(left, n + 1, Len(left)) = g \o h \o left
  <2>1. n \in 0..Len(left)
    OBVIOUS
  <2>2. h \o SubSeq(left, 1, n) \in Seq(Units) /\ SubSeq(left, n + 1, Len(left)) \in Seq(Units)
    BY <1>1, <1>2, <2>1, Parts
  <2>3. g \o (h \o SubSeq(left, 1, n)) \o SubSeq(left, n + 1, Len(left)) = g \o h \o left
    <3>1. left \in Seq(Units)
      BY <1>1
    <3>2. \A x, y \in Seq(Units) :
            x \o (y \o SubSeq(left, 1, n)) \o SubSeq(left, n + 1, Len(left)) = x \o y \o left
      BY <2>1, <3>1, CutAnywhere
    <3>3. QED
      BY <1>2, <3>2, Zenon
  <2>4. QED
    BY <2>2, <2>3
<1>4. held' = [held EXCEPT ![on] = h \o SubSeq(left, 1, n)]
  BY DEF h
<1>5. held' \in [Streams -> Seq(Units)]
  BY <1>3, <1>4 DEF Account, Types
<1>6. ASSUME NEW x \in Streams, fd[x] \in {1, 2}
      PROVE  got[x] \o held'[x] \o (IF on = x THEN left' ELSE <<>>) = given[x]
  <2>1. got[x] \o held[x] \o (IF on = x THEN left ELSE <<>>) = given[x]
    BY <1>6 DEF Account, InOrder
  <2>2. CASE x = on
    <3>1. held'[x] = h \o SubSeq(left, 1, n) /\ got[x] = g /\ held[x] = h
      BY <1>1, <1>4, <2>2 DEF Account, Types, g, h
    <3>2. QED
      BY <1>3, <2>1, <2>2, <3>1
  <2>3. CASE x # on
    BY <1>4, <2>1, <2>3 DEF Account, Types
  <2>4. QED
    BY <2>2, <2>3
<1>7. QED
  BY <1>3, <1>5, <1>6 DEF InOrder

\* A call for a text begins when no other is under way.
LEMMA CallBegins ==
  ASSUME Account, left = <<>>, NEW s \in Streams, NEW t \in Texts, Call(s, t),
         UNCHANGED <<fd, held, got>>
  PROVE  /\ given' \in [Streams -> Seq(Units)] /\ left' \in Seq(Units)
         /\ InOrder'
<1>1. /\ given' = [given EXCEPT ![s] = given[s] \o Text(t)] /\ on' = s /\ left' = Text(t)
      /\ Text(t) \in Seq(Units)
  BY TextIsUnits DEF Call
<1>2. given' \in [Streams -> Seq(Units)]
  BY <1>1 DEF Account, Types
<1>3. ASSUME NEW x \in Streams, fd[x] \in {1, 2}
      PROVE  got[x] \o held[x] \o (IF on' = x THEN left' ELSE <<>>) = given'[x]
  <2>1. got[x] \o held[x] \o <<>> = given[x]
    BY <1>3 DEF Account, InOrder
  <2>2. got[x] \in Seq(Units) /\ held[x] \in Seq(Units)
    BY DEF Account, Types
  <2>3. CASE x = s
    <3>1. given'[x] = given[x] \o Text(t)
      BY <1>1, <2>3 DEF Account, Types
    <3>2. got[x] \o held[x] = given[x]
      <4> DEFINE gh == got[x] \o held[x]
      <4>1. gh \in Seq(Units)
        BY <2>2
      <4>2. \A q \in Seq(Units) : q \o <<>> = q
        OBVIOUS
      <4>3. QED
        BY <2>1, <4>1, <4>2
    <3>3. QED
      BY <1>1, <2>3, <3>1, <3>2
  <2>4. CASE x # s
    BY <1>1, <2>1, <2>4 DEF Account, Types
  <2>5. QED
    BY <2>3, <2>4
<1>4. QED
  BY <1>1, <1>2, <1>3 DEF InOrder

\* The lines that a command has to say.
LEMMA LinesAreNames ==
  ASSUME NEW o \in Outcomes, outcome = o PROVE Lines \in Seq(LineNames)
<1>1. /\ <<>> \in Seq(LineNames) /\ <<"refusal">> \in Seq(LineNames)
      /\ <<"not_written">> \in Seq(LineNames) /\ <<"note">> \in Seq(LineNames)
      /\ <<"usage", "error">> \in Seq(LineNames)
  BY DEF LineNames
<1>2. outcome \in Verdicts \union {"refused", "unwritten", "notrun", "usage"}
  BY OutcomesAssumption
<1>3. CASE outcome \in Verdicts
  BY <1>1, <1>3 DEF Lines, Verdicts
<1>4. CASE outcome = "refused"
  BY <1>1, <1>4 DEF Lines, Verdicts
<1>5. CASE outcome = "unwritten"
  BY <1>1, <1>5 DEF Lines, Verdicts
<1>6. CASE outcome = "notrun"
  BY <1>1, <1>6 DEF Lines, Verdicts
<1>7. CASE outcome = "usage"
  BY <1>1, <1>7 DEF Lines, Verdicts
<1>8. QED
  BY <1>2, <1>3, <1>4, <1>5, <1>6, <1>7

\* The invariant of the account, and of what the outcome may be.
Bounded == \A s \in Streams : Len(held[s]) <= BufferSize
Accounted == Account /\ Bounded /\ outcome \in Outcomes

\* The account holds throughout.
THEOREM AlwaysAccounted == Spec => []Accounted
<1>1. Init => Accounted
  <2> SUFFICES ASSUME Init PROVE Accounted
    OBVIOUS
  <2>1. PICK w \in Worlds : fd = w.fd /\ held = [s \in Streams |-> Caller(w.caller, s)] /\ given = held
    BY DEF Init
  <2>2. \A s \in Streams : Caller(w.caller, s) \in Seq(Units)
    BY TextIsUnits DEF Caller, Texts
  <2>3. held \in [Streams -> Seq(Units)] /\ fd \in [Streams -> {Null, Shut, 1, 2}]
    BY <2>1, <2>2, WorldsAssumption
  <2>4. got = [s \in Streams |-> <<>>] /\ left = <<>> /\ on \in Streams /\ says = <<>>
    BY DEF Init, Streams
  <2>5. Types
    <3>1. got \in [Streams -> Seq(Units)] /\ left \in Seq(Units) /\ says \in Seq(LineNames)
      BY <2>4
    <3>2. stage = "command"
      BY DEF Init
    <3>3. QED
      BY <2>1, <2>3, <2>4, <3>1, <3>2 DEF Types
  <2>l. Bounded
    <3>1. Len(<<>>) = 0 /\ Len([i \in 1..1 |-> <<"caller", i>>]) = 1
      OBVIOUS
    <3>2. Text("caller") = [i \in 1..1 |-> <<"caller", i>>]
      BY DEF Text, Size
    <3>3. \A s \in Streams : Len(Caller(w.caller, s)) \in {0, 1}
      BY <3>1, <3>2 DEF Caller
    <3>4. BufferSize \in Nat /\ BufferSize >= 1
      BY SizesAssumption
    <3>5. ASSUME NEW s \in Streams PROVE Len(held[s]) <= BufferSize
      <4>1. held[s] = Caller(w.caller, s)
        BY <2>1
      <4>2. \A k \in {0, 1} : k <= BufferSize
        BY <3>4
      <4>3. Len(held[s]) \in {0, 1}
        BY <3>3, <4>1, Zenon
      <4>4. QED
        BY <4>2, <4>3, Zenon
    <3>6. QED
      BY <3>5 DEF Bounded
  <2>6. ASSUME NEW s \in Streams
        PROVE  got[s] \o held[s] \o (IF on = s THEN left ELSE <<>>) = given[s]
    <3>1. held[s] \in Seq(Units)
      BY <2>3
    <3>2. \A q \in Seq(Units) : <<>> \o q \o <<>> = q
      OBVIOUS
    <3>3. QED
      BY <2>1, <2>4, <3>1, <3>2
  <2>7. QED
    BY <2>5, <2>l, <2>6 DEF Accounted, Account, InOrder, Init
<1>2. Accounted /\ [Next]_vars => Accounted'
  <2> SUFFICES ASSUME Accounted, [Next]_vars PROVE Accounted'
    OBVIOUS
  <2> USE DEF Accounted
  <2>0. held' = held => Bounded'
    BY DEF Bounded
  <2>1. CASE /\ StillThere /\ says' \in Seq(LineNames) /\ outcome' = outcome
             /\ left # <<>> => stage' \in {"drain", "write"}
             /\ raw' /\ stage' = "write" => held[on] = <<>>
    BY <2>1, <2>0, StillInOrder DEF Account, Types, StillThere
  <2>2. ASSUME NEW s \in Streams, TakeHeld(s),
               UNCHANGED <<fd, given, on, left, says, outcome, stage, raw>>,
               ~(raw /\ stage = "write")
        PROVE  Accounted'
    <3>1. \A x \in Streams : Len(held[x]) \in Nat /\ Len(held'[x]) \in Nat
      BY <2>2, HeldMoves, SMTT(30) DEF Account, Types
    <3>2. Bounded'
      BY <2>2, <3>1, HeldMoves, SizesAssumption DEF Bounded
    <3>3. QED
      BY <2>2, <3>2, HeldMoves DEF Account, Types
  <2>3. CASE FlushUnit \/ SettleUnit \/ \E s \in Streams : LastUnit(s)
    BY <2>2, <2>3 DEF FlushUnit, SettleUnit, LastUnit, Streams, Account, Types
  <2>4. CASE RawUnit
    <3>1. held[on] = <<>>
      BY <2>4 DEF RawUnit, Account, Types
    <3>2. QED
      BY <2>4, <2>0, <3>1, LeftMoves DEF RawUnit, Account, Types
  <2>5. CASE BufferRest
    <3>1. Len(left) \in 0..Len(left) /\ left \in Seq(Units)
      BY DEF Account, Types
    <3>2. SubSeq(left, 1, Len(left)) = left /\ SubSeq(left, Len(left) + 1, Len(left)) = <<>>
      BY <3>1, SubSeqFull, SubSeqEmpty
    <3>3. /\ held' = [held EXCEPT ![on] = @ \o SubSeq(left, 1, Len(left))]
          /\ left' = SubSeq(left, Len(left) + 1, Len(left))
          /\ UNCHANGED <<fd, raw, got, given, on, says, outcome, stage>> /\ ~raw
      BY <2>5, <3>2 DEF BufferRest, connections
    <3>4. held' \in [Streams -> Seq(Units)] /\ left' \in Seq(Units) /\ InOrder'
      BY <3>1, <3>3, BufferTakes
    <3>5. Bounded'
      <4>1. held' = [held EXCEPT ![on] = held[on] \o left] /\ Len(held[on]) + Len(left) <= BufferSize
        BY <2>5 DEF BufferRest, Fits
      <4>2. Len(held[on] \o left) = Len(held[on]) + Len(left)
        BY <3>1 DEF Account, Types
      <4>3. QED
        BY <4>1, <4>2 DEF Bounded, Account, Types
    <3>6. QED
      BY <2>5, <3>2, <3>3, <3>4, <3>5 DEF Account, Types, BufferRest
  <2>6. CASE BufferUnit
    <3>1. CASE held[on] # <<>>
      BY <2>2, <2>6, <3>1 DEF BufferUnit, Account, Types
    <3>2. CASE held[on] = <<>>
      BY <2>6, <2>0, <3>2, LeftMoves DEF BufferUnit, Account, Types
    <3>3. QED
      BY <3>1, <3>2
  <2>7. CASE BufferBlocked
    <3> DEFINE n == BufferSize - Len(held[on])
    <3>1. Len(held[on]) \in Nat /\ Len(left) \in Nat /\ Len(held[on]) <= BufferSize
      BY DEF Account, Types, Bounded
    <3>2. n \in 0..Len(left) /\ n \in Nat
      BY <2>7, <3>1, SizesAssumption DEF BufferBlocked, Fits
    <3>3. /\ held' = [held EXCEPT ![on] = @ \o SubSeq(left, 1, n)]
          /\ left' = SubSeq(left, n + 1, Len(left)) /\ left # <<>> /\ stage = "write"
          /\ UNCHANGED <<fd, raw, got, given, on, says, outcome, stage>> /\ ~raw
      BY <2>7 DEF BufferBlocked, connections
    <3> HIDE DEF n
    <3>4. held' \in [Streams -> Seq(Units)] /\ left' \in Seq(Units) /\ InOrder'
      BY <3>2, <3>3, BufferTakes
    <3>5. Bounded'
      <4>1. Len(SubSeq(left, 1, n)) = n /\ SubSeq(left, 1, n) \in Seq(Units)
        BY <3>2 DEF Account, Types
      <4>2. Len(held[on] \o SubSeq(left, 1, n)) = Len(held[on]) + n
        BY <4>1 DEF Account, Types
      <4>3. Len(held[on]) + n <= BufferSize
        BY <3>1, SizesAssumption DEF n
      <4>4. QED
        BY <3>3, <4>2, <4>3 DEF Bounded, Account, Types
    <3>6. QED
      BY <3>3, <3>4, <3>5 DEF Account, Types
  <2>8. CASE Failed
    <3>1. /\ left' = <<>> /\ fd' = [fd EXCEPT ![on] = Null] /\ stage' = "failed"
          /\ UNCHANGED <<outcome, raw, held, got, given, on, says>>
      BY <2>8 DEF Failed
    <3>2. fd' \in [Streams -> {Null, Shut, 1, 2}]
      BY <3>1 DEF Account, Types
    <3>3. ASSUME NEW x \in Streams, fd'[x] \in {1, 2}
          PROVE  got[x] \o held[x] \o (IF on = x THEN left' ELSE <<>>) = given[x]
      <4>1. x # on /\ fd[x] \in {1, 2}
        BY <3>1, <3>3 DEF Account, Types, Null
      <4>2. QED
        BY <4>1 DEF Account, InOrder
    <3>4. InOrder'
      BY <3>1, <3>3 DEF InOrder
    <3>5. QED
      BY <2>0, <3>1, <3>2, <3>4 DEF Account, Types
  <2>9. CASE Command
    <3>1. /\ says' = Lines /\ stage = "command" /\ left = <<>>
          /\ UNCHANGED <<outcome, raw, fd, held, got>>
      BY <2>9 DEF Command, connections, Account, Types
    <3>2. says' \in Seq(LineNames)
      BY <3>1, LinesAreNames
    <3>3. CASE HasReceipt /\ fd["out"] # Shut
      <4>1. Call("out", "receipt")
        BY <2>9, <3>3 DEF Command
      <4>2. on' = "out" /\ stage' = "drain"
        BY <4>1 DEF Call
      <4>3. /\ given' \in [Streams -> Seq(Units)] /\ left' \in Seq(Units) /\ InOrder'
        BY <3>1, <4>1, CallBegins DEF Streams, Texts
      <4>4. QED
        BY <2>0, <3>1, <3>2, <4>2, <4>3 DEF Account, Types, Streams
    <3>4. CASE ~(HasReceipt /\ fd["out"] # Shut)
      <4>1. /\ stage' \in {"say", "failed"} /\ UNCHANGED <<given, left>> /\ on' \in Streams
        BY <2>9, <3>4 DEF Command, Account, Types, Streams
      <4>2. InOrder'
        BY <3>1, <4>1 DEF Account, InOrder
      <4>3. QED
        BY <2>0, <3>1, <3>2, <4>1, <4>2 DEF Account, Types
    <3>5. QED
      BY <3>3, <3>4
  <2>10. CASE Say
    <3>1. /\ says # <<>> /\ says' = Tail(says) /\ stage = "say" /\ left = <<>>
          /\ UNCHANGED <<outcome, raw, fd, held, got>>
      BY <2>10 DEF Say, connections, Account, Types
    <3>2. says' \in Seq(LineNames) /\ Head(says) \in Texts
      BY <3>1 DEF Account, Types, Texts
    <3>3. CASE fd["err"] = Shut
      <4> DEFINE text == Text(Head(says))
      <4>2. text \in Seq(Units)
        BY <3>2, TextIsUnits
      <4>1. /\ given' = [given EXCEPT !["err"] = given["err"] \o text]
            /\ UNCHANGED <<on, left, stage>>
        BY <2>10, <3>3 DEF Say
      <4> HIDE DEF text
      <4>3. given' \in [Streams -> Seq(Units)]
        <5>1. \A p, q \in Seq(Units) : p \o q \in Seq(Units)
          OBVIOUS
        <5>2. given["err"] \in Seq(Units) /\ given \in [Streams -> Seq(Units)]
          BY DEF Account, Types, Streams
        <5> DEFINE longer == given["err"] \o text
        <5>3. longer \in Seq(Units)
          BY <4>2, <5>1, <5>2, Zenon
        <5>4. given' = [given EXCEPT !["err"] = longer]
          BY <4>1
        <5> HIDE DEF longer
        <5>5. QED
          BY <5>2, <5>3, <5>4
      <4>4. ASSUME NEW x \in Streams, fd[x] \in {1, 2} PROVE given'[x] = given[x]
        BY <3>3, <4>1, <4>4 DEF Account, Types, Shut
      <4>5. InOrder'
        BY <3>1, <4>1, <4>4 DEF Account, InOrder
      <4>6. QED
        BY <2>0, <3>1, <3>2, <4>1, <4>3, <4>5 DEF Account, Types
    <3>4. CASE fd["err"] # Shut
      <4>1. Call("err", Head(says))
        BY <2>10, <3>4 DEF Say
      <4>2. on' = "err" /\ stage' = "drain"
        BY <4>1 DEF Call
      <4>3. /\ given' \in [Streams -> Seq(Units)] /\ left' \in Seq(Units) /\ InOrder'
        BY <3>1, <3>2, <4>1, CallBegins DEF Streams
      <4>4. QED
        BY <2>0, <3>1, <3>2, <4>2, <4>3 DEF Account, Types, Streams
    <3>5. QED
      BY <3>3, <3>4
  <2>11. CASE SettleFailed
    <3>1. /\ fd' = [fd EXCEPT !["err"] = Null] /\ stage' = "end" /\ left = <<>>
          /\ UNCHANGED <<outcome, raw, held, got, given, on, left, says>>
      BY <2>11 DEF SettleFailed, Account, Types
    <3>2. fd' \in [Streams -> {Null, Shut, 1, 2}]
      BY <3>1 DEF Account, Types
    <3>3. \A x \in Streams : fd'[x] \in {1, 2} => fd[x] \in {1, 2}
      BY <3>1 DEF Account, Types, Null
    <3>4. InOrder'
      BY <3>1, <3>3 DEF Account, InOrder
    <3>5. QED
      BY <2>0, <3>1, <3>2, <3>4 DEF Account, Types
  <2>12. CASE \/ Drained \/ Blocked \/ Written \/ WaitWritable \/ Flushed \/ CallDone
    BY <2>1, <2>12 DEF Drained, Blocked, Written, WaitWritable, Flushed, CallDone,
                       connections, StillThere, Account, Types
  <2>13. CASE \/ LineFailed \/ Lost \/ Settled \/ Exit \/ Readers
              \/ (\E s \in Streams : LastFailed(s)) \/ UNCHANGED vars
    BY <2>1, <2>13 DEF LineFailed, Lost, Settled, Exit, Readers, Read, Leave, LastFailed,
                       connections, vars, StillThere, Account, Types
  <2>14. CASE ReceiptFailed
    <3>1. says' = <<"not_written">> /\ stage' = "say" /\ StillThere /\ left = <<>>
          /\ UNCHANGED <<outcome, raw>>
      BY <2>14 DEF ReceiptFailed, connections, StillThere, Account, Types
    <3>2. says' \in Seq(LineNames)
      BY <3>1 DEF LineNames
    <3>3. QED
      BY <2>1, <3>1, <3>2
  <2>15. QED
    BY <2>3, <2>4, <2>5, <2>6, <2>7, <2>8, <2>9, <2>10, <2>11, <2>12, <2>13, <2>14
    DEF Next, WriteAll, Main
<1>3. QED
  BY <1>1, <1>2, PTL DEF Spec

\* No unit is lost, doubled or moved between a stream and its sink, whatever
\* the sizes, the sinks and the readers.
THEOREM NothingIsLost == Spec => []InOrder
<1>1. Accounted => InOrder
  BY DEF Accounted, Account
<1>2. QED
  BY <1>1, AlwaysAccounted, PTL

-----------------------------------------------------------------------------
(* Who is told what.                                                        *)

Before == stage = "command" => \A s \in Streams : fd[s] # Null

\* A stream at the null device, a line nobody could read, a code that says so.
Spoilt ==
  /\ \A s \in Streams : fd[s] = Null => rc = 74 \/ lost \/ (stage = "failed" /\ on = s)
  /\ \A s \in Streams : fd[s] = Shut => lost \/ (got[s] = <<>> /\ given[s] = <<>>)
  /\ stage = "end" /\ lost => rc = 74

\* The codes that a lost line leaves alone are EX_IOERR already.
Coded ==
  /\ outcome \in {"unwritten", "notrun"} /\ stage # "command" => rc = 74
  /\ outcome \in Verdicts /\ (says # <<>> \/ on = "err") => rc = 74

Answered ==
  exit # 256 => /\ stage = "end"
                /\ exit \in {0, 1, 2} => /\ exit = rc
                                         /\ \A s \in Streams : held[s] = <<>>

Telling == Before /\ Spoilt /\ Coded /\ Answered

\* The inductive invariant of who is told what holds throughout.
THEOREM AlwaysTelling == Spec => []Telling
<1>1. Init => Telling
  <2> SUFFICES ASSUME Init PROVE Telling
    OBVIOUS
  <2>1. PICK w \in Worlds : fd = w.fd /\ held = [s \in Streams |-> Caller(w.caller, s)] /\ given = held
    BY DEF Init
  <2>2. \A s \in Streams : fd[s] # Null
    BY <2>1, WorldsAssumption DEF Null, Shut
  <2>3. ASSUME NEW s \in Streams, fd[s] = Shut PROVE got[s] = <<>> /\ given[s] = <<>>
    <3>1. s \notin w.caller
      BY <2>1, <2>3, WorldsAssumption
    <3>2. QED
      BY <2>1, <3>1 DEF Init, Caller
  <2>4. QED
    BY <2>2, <2>3 DEF Init, Telling, Before, Spoilt, Coded, Answered
<1>2. Telling /\ Accounted /\ [Next]_vars => Telling'
  <2> SUFFICES ASSUME Telling, Accounted, [Next]_vars PROVE Telling'
    OBVIOUS
  <2>t. /\ on \in Streams /\ fd \in [Streams -> {Null, Shut, 1, 2}]
        /\ got \in [Streams -> Seq(Units)] /\ given \in [Streams -> Seq(Units)]
        /\ outcome \in Outcomes
        /\ outcome \in Verdicts \union {"refused", "unwritten", "notrun", "usage"}
    BY OutcomesAssumption DEF Accounted, Account, Types
  <2> USE DEF Telling
  <2>1. ASSUME NEW s \in Streams, TakeHeld(s), stage # "command",
               UNCHANGED <<outcome, raw, fd, given, on, left, stage, waiting, says, lost, rc, exit>>,
               exit = 256
        PROVE  Telling'
    BY <2>1, <2>t DEF TakeHeld, Take, Takes, Before, Spoilt, Coded, Answered, Null, Shut
  <2>2. CASE FlushUnit \/ SettleUnit \/ \E s \in Streams : LastUnit(s)
    <3>1. exit = 256 /\ stage # "command"
      BY <2>2 DEF FlushUnit, SettleUnit, LastUnit, Answered
    <3>2. /\ \E s \in Streams : TakeHeld(s)
          /\ UNCHANGED <<outcome, raw, fd, given, on, left, stage, waiting, says, lost, rc, exit>>
      BY <2>2, <2>t DEF FlushUnit, SettleUnit, LastUnit, Streams
    <3>3. QED
      BY <2>1, <3>1, <3>2
  <2>3. CASE RawUnit \/ BufferUnit \/ BufferRest \/ BufferBlocked
    <3>1. exit = 256 /\ stage = "write"
      BY <2>3 DEF RawUnit, BufferUnit, BufferRest, BufferBlocked, Answered
    <3>2. /\ \A s \in Streams : fd[s] = Shut => got'[s] = got[s]
          /\ UNCHANGED <<outcome, fd, given, on, stage, says, lost, rc, exit>>
      BY <2>3, <2>t DEF RawUnit, BufferUnit, BufferRest, BufferBlocked, connections,
                        TakeHeld, Take, Takes, Null, Shut
    <3>3. QED
      BY <3>1, <3>2 DEF Before, Spoilt, Coded, Answered
  <2>4. CASE \/ Drained \/ Blocked \/ Written \/ WaitWritable \/ Flushed \/ CallDone
             \/ Readers \/ UNCHANGED vars
    <3>1. /\ UNCHANGED <<outcome, fd, held, got, given, on, says, lost, rc, exit>>
          /\ stage' = stage \/ (stage' \notin {"command", "failed", "end"} /\ stage \in {"drain", "write", "flush", "written"})
      BY <2>4 DEF Drained, Blocked, Written, WaitWritable, Flushed, CallDone, Readers, Read,
                  Leave, connections, vars
    <3>2. QED
      BY <3>1 DEF Before, Spoilt, Coded, Answered
  <2>5. CASE Failed
    <3>1. /\ stage \in {"drain", "flush", "write"} /\ stage' = "failed"
          /\ fd' = [fd EXCEPT ![on] = Null]
          /\ UNCHANGED <<outcome, held, got, given, on, says, lost, rc, exit>>
      BY <2>5 DEF Failed, Writing
    <3>2. QED
      BY <2>t, <3>1 DEF Before, Spoilt, Coded, Answered, Null, Shut
  <2>6. CASE Command
    <3>1. /\ stage = "command" /\ stage' \in {"say", "failed", "drain"}
          /\ rc' = Code /\ says' = Lines
          /\ UNCHANGED <<outcome, fd, held, got, lost, exit>>
          /\ \A s \in Streams : fd[s] = Shut => given'[s] = given[s]
          /\ HasReceipt => on' = "out"
      BY <2>6, <2>t DEF Command, Call, connections, Streams
    <3>2. outcome \in Verdicts => HasReceipt /\ Lines = <<>>
      BY DEF HasReceipt, Lines, Verdicts
    <3>3. outcome \in {"unwritten", "notrun"} => Code = 74
      BY DEF Code
    <3>4. QED
      BY <3>1, <3>2, <3>3 DEF Before, Spoilt, Coded, Answered
  <2>7. CASE Say
    <3>1. /\ stage = "say" /\ stage' \in {"say", "drain"} /\ says # <<>>
          /\ UNCHANGED <<outcome, fd, held, got, rc, exit>> /\ (lost => lost')
          /\ \A s \in Streams : fd[s] = Shut => lost' \/ given'[s] = given[s]
      BY <2>7, <2>t DEF Say, Call, connections, Streams
    <3>2. QED
      BY <3>1 DEF Before, Spoilt, Coded, Answered
  <2>8. CASE ReceiptFailed
    BY <2>8 DEF ReceiptFailed, connections, Before, Spoilt, Coded, Answered
  <2>9. CASE LineFailed
    <3>1. /\ stage = "failed" /\ on = "err" /\ stage' = "say"
          /\ lost' = (lost \/ outcome = "usage")
          /\ rc' = IF outcome = "refused" THEN 74 ELSE rc
          /\ UNCHANGED <<outcome, fd, held, got, given, on, says, exit>>
      BY <2>9 DEF LineFailed, connections
    <3>2. rc' = 74 \/ lost'
      BY <2>t, <3>1 DEF Coded
    <3>3. QED
      BY <3>1, <3>2 DEF Before, Spoilt, Coded, Answered
  <2>10. CASE Lost \/ Settled
    BY <2>10 DEF Lost, Settled, connections, Before, Spoilt, Coded, Answered
  <2>11. CASE SettleFailed
    <3>1. /\ stage = "say" /\ stage' = "end" /\ rc' = 74
          /\ fd' = [fd EXCEPT !["err"] = Null]
          /\ UNCHANGED <<outcome, held, got, given, on, says, lost, exit>>
      BY <2>11 DEF SettleFailed
    <3>2. QED
      BY <2>t, <3>1 DEF Before, Spoilt, Coded, Answered, Null, Shut, Streams
  <2>12. CASE Exit \/ \E s \in Streams : LastFailed(s)
    BY <2>12 DEF Exit, LastFailed, connections, Before, Spoilt, Coded, Answered
  <2>13. QED
    BY <2>2, <2>3, <2>4, <2>5, <2>6, <2>7, <2>8, <2>9, <2>10, <2>11, <2>12
    DEF Next, WriteAll, Main
<1>3. QED
  BY <1>1, <1>2, AlwaysAccounted, PTL DEF Spec

\* Whatever the sizes, the streams and the readers: an exit code other than
\* EX_IOERR and 120 comes after all that the run had to say was taken.
THEOREM WhoReadsIsTold == Spec => []OthersAreTold
<1>1. Telling /\ Accounted => OthersAreTold
  <2> SUFFICES ASSUME Telling, Accounted, exit \in {0, 1, 2}, NEW s \in Streams
               PROVE  fd[s] # Null /\ got[s] = given[s]
    BY DEF OthersAreTold
  <2>1. stage = "end" /\ exit = rc /\ held[s] = <<>>
    BY DEF Telling, Answered
  <2>2. ~lost /\ fd[s] # Null
    BY <2>1 DEF Telling, Spoilt
  <2>3. CASE fd[s] = Shut
    BY <2>2, <2>3 DEF Telling, Spoilt
  <2>4. CASE fd[s] # Shut
    <3>1. fd[s] \in {1, 2} /\ left = <<>> /\ got[s] \in Seq(Units)
      BY <2>1, <2>2, <2>4 DEF Accounted, Account, Types
    <3>2. got[s] \o <<>> \o <<>> = given[s]
      BY <2>1, <3>1 DEF Accounted, Account, InOrder
    <3>3. \A q \in Seq(Units) : q \o <<>> \o <<>> = q
      OBVIOUS
    <3>4. QED
      BY <2>2, <3>1, <3>2, <3>3
  <2>5. QED
    BY <2>3, <2>4
<1>2. QED
  BY <1>1, AlwaysAccounted, AlwaysTelling, PTL

-----------------------------------------------------------------------------
(* What an exit code says of the receipt.                                  *)

\* The receipt is somewhere in a sequence of units.
Within(g) == Text("receipt") \in {SubSeq(g, i, i + ReceiptSize - 1) :
                                   i \in 1..(Len(g) - ReceiptSize + 1)}

\* What stdout is given: what a caller left there, then the receipt.
Bare(g)  == g \in {<<>>, Text("caller")}
Whole(g) == \E c \in {<<>>, Text("caller")} : g = c \o Text("receipt")

LEMMA ReceiptText ==
  /\ ReceiptSize \in Nat \ {0}
  /\ Text("receipt") \in Seq(Units) /\ Len(Text("receipt")) = ReceiptSize
  /\ \A i \in 1..ReceiptSize : Text("receipt")[i] = <<"receipt", i>>
  /\ Text("caller") \in Seq(Units) /\ Len(Text("caller")) = 1
  /\ Text("caller")[1] = <<"caller", 1>>
<1>1. ReceiptSize \in Nat \ {0} /\ Size("receipt") = ReceiptSize /\ Size("caller") = 1
  BY SizesAssumption DEF Size
<1>2. Text("receipt") = [i \in 1..ReceiptSize |-> <<"receipt", i>>]
  BY <1>1 DEF Text
<1>3. Text("caller") = [i \in 1..1 |-> <<"caller", i>>]
  BY <1>1 DEF Text
<1>4. Text("receipt") \in Seq(Units) /\ Text("caller") \in Seq(Units)
  BY TextIsUnits DEF Texts
<1>5. Len(Text("receipt")) = ReceiptSize
  BY <1>1, <1>2
<1>6. Len(Text("caller")) = 1
  BY <1>3
<1>7. QED
  BY <1>1, <1>2, <1>3, <1>4, <1>5, <1>6

\* The last unit of the receipt is the last that stdout is given, and only there.
LEMMA LastUnitIsLast ==
  ASSUME NEW g, Bare(g) \/ Whole(g)
  PROVE  /\ g \in Seq(Units)
         /\ \A k \in 1..Len(g) : g[k] = <<"receipt", ReceiptSize>> => k = Len(g)
<1> DEFINE T == Text("receipt")
           C == Text("caller")
<1>1. /\ T \in Seq(Units) /\ Len(T) = ReceiptSize /\ ReceiptSize \in Nat \ {0}
      /\ \A i \in 1..ReceiptSize : T[i] = <<"receipt", i>>
      /\ C \in Seq(Units) /\ Len(C) = 1 /\ C[1] = <<"caller", 1>>
  BY ReceiptText
<1> HIDE DEF T, C
<1>2. CASE g = <<>>
  BY <1>2
<1>3. CASE g = C
  BY <1>1, <1>3
<1>4. CASE g = <<>> \o T
  <2>1. g = T
    BY <1>1, <1>4
  <2>2. QED
    BY <1>1, <2>1
<1>5. CASE g = C \o T
  <2>1. /\ g \in Seq(Units) /\ Len(g) = 1 + ReceiptSize /\ g[1] = C[1]
        /\ \A k \in 2..Len(g) : g[k] = T[k - 1]
    <3>1. /\ C \o T \in Seq(Units) /\ Len(C \o T) = Len(C) + Len(T)
          /\ \A k \in 1..(Len(C) + Len(T)) :
               (C \o T)[k] = IF k <= Len(C) THEN C[k] ELSE T[k - Len(C)]
      BY <1>1, ConcatProperties, Zenon
    <3>2. 1 \in 1..(1 + ReceiptSize) /\ 2..(1 + ReceiptSize) \subseteq 1..(1 + ReceiptSize)
      BY <1>1
    <3>3. \A k \in 2..(1 + ReceiptSize) : ~(k <= 1)
      OBVIOUS
    <3>4. g[1] = C[1] /\ \A k \in 2..(1 + ReceiptSize) : g[k] = T[k - 1]
      BY <1>1, <1>5, <3>1, <3>2, <3>3
    <3>5. QED
      BY <1>1, <1>5, <3>1, <3>4
  <2>2. ASSUME NEW k \in 1..Len(g), g[k] = <<"receipt", ReceiptSize>> PROVE k = Len(g)
    <3>1. k # 1
      BY <1>1, <2>1, <2>2
    <3>2. k - 1 \in 1..ReceiptSize /\ k \in 2..Len(g)
      BY <1>1, <2>1, <3>1
    <3>3. <<"receipt", k - 1>> = <<"receipt", ReceiptSize>>
      BY <1>1, <2>1, <2>2, <3>2
    <3>4. QED
      BY <1>1, <2>1, <3>2, <3>3
  <2>3. QED
    BY <2>1, <2>2
<1>6. QED
  BY <1>2, <1>3, <1>4, <1>5 DEF Bare, Whole, T, C

\* A sink that did not take all that stdout was given has no whole receipt.
LEMMA CutShort ==
  ASSUME NEW g \in Seq(Units), NEW w \in Seq(Units), w # <<>>,
         Bare(g \o w) \/ Whole(g \o w)
  PROVE  ~Within(g)
<1> SUFFICES ASSUME NEW i \in 1..(Len(g) - ReceiptSize + 1),
                    Text("receipt") = SubSeq(g, i, i + ReceiptSize - 1)
             PROVE  FALSE
  BY DEF Within
<1> DEFINE k == i + ReceiptSize - 1
<1>1. /\ ReceiptSize \in Nat \ {0} /\ Len(g) \in Nat /\ Len(w) \in Nat \ {0}
      /\ Text("receipt")[ReceiptSize] = <<"receipt", ReceiptSize>>
  <2>1. Len(w) \in Nat \ {0}
    BY EmptySeq
  <2>2. Len(g) \in Nat
    OBVIOUS
  <2>3. ReceiptSize \in Nat \ {0} /\ ReceiptSize \in 1..ReceiptSize
    <3>1. ReceiptSize \in Nat \ {0}
      BY SizesAssumption
    <3>2. QED
      BY <3>1
  <2>4. QED
    BY <2>1, <2>2, <2>3, ReceiptText, Zenon
<1>2. i \in 1..Len(g) /\ k \in i..Len(g) /\ k \in 1..Len(g) /\ k - i + 1 = ReceiptSize
  BY <1>1
<1>3. SubSeq(g, i, k)[ReceiptSize] = g[k]
  BY <1>1, <1>2, SMTT(30)
<1>4. g[k] = <<"receipt", ReceiptSize>>
  BY <1>1, <1>3
<1>5. (g \o w)[k] = g[k] /\ Len(g \o w) = Len(g) + Len(w)
  BY <1>2
<1>6. k = Len(g \o w)
  <2>1. \A j \in 1..Len(g \o w) : (g \o w)[j] = <<"receipt", ReceiptSize>> => j = Len(g \o w)
    BY LastUnitIsLast
  <2>2. k \in 1..Len(g \o w)
    BY <1>1, <1>2, <1>5
  <2>3. (g \o w)[k] = <<"receipt", ReceiptSize>>
    BY <1>4, <1>5
  <2>4. QED
    BY <2>1, <2>2, <2>3, Zenon
<1>7. QED
  BY <1>1, <1>2, <1>5, <1>6

\* All that stdout is given for a verdict holds the receipt.
LEMMA WholeHoldsIt ==
  ASSUME NEW g, Whole(g) PROVE Within(g)
<1> DEFINE T == Text("receipt")
<1>1. T \in Seq(Units) /\ Len(T) = ReceiptSize /\ ReceiptSize \in Nat \ {0}
  BY ReceiptText
<1>2. PICK c \in {<<>>, Text("caller")} : g = c \o T
  BY DEF Whole
<1>3. c \in Seq(Units)
  <2>1. Text("caller") \in Seq(Units) /\ <<>> \in Seq(Units)
    BY ReceiptText, EmptySeq
  <2>2. QED
    BY <2>1
<1> HIDE DEF T
<1>4. SubSeq(g, Len(c) + 1, Len(c) + ReceiptSize) = T
  BY <1>1, <1>2, <1>3
<1>5. /\ Len(c) + 1 \in 1..(Len(g) - ReceiptSize + 1)
      /\ Len(c) + 1 + ReceiptSize - 1 = Len(c) + ReceiptSize
  BY <1>1, <1>2, <1>3
<1>6. QED
  BY <1>4, <1>5 DEF Within, T

\* Stdout is gone and its sink has no whole receipt.
Dropped == fd["out"] \in {Null, Shut} /\ ~ReceiptWhole

\* For a verdict: stdout was given its receipt, unless the code says otherwise;
\* a call for it that failed, a lost line, and EX_IOERR come of a receipt that
\* was cut short, or of a stderr that could not take a caller's text; and so
\* does an exit code that is not the command's.
Reporting ==
  /\ fd["out"] = Shut => got["out"] = <<>>
  /\ stage = "command" => Bare(given["out"]) /\ ~lost /\ rc = 0 /\ exit = 256
  /\ outcome \in Verdicts =>
       /\ stage # "command" =>
            /\ rc \in {Code, 74}
            /\ \/ Whole(given["out"])
               \/ Bare(given["out"]) /\ (rc = 74 \/ (stage = "failed" /\ on = "out"))
       /\ (stage = "failed" /\ on = "out") \/ lost => Dropped
       /\ rc = 74 => \/ Dropped
                     \/ stage = "end" /\ fd["err"] = Null /\ got["err"] # given["err"]
       /\ exit # 256 =>
            exit = rc \/ (exit = 120 /\ (~ReceiptWhole \/ got["err"] # given["err"]))

\* What a sink that is gone took does not change.
LEMMA GoneTakesNothing ==
  ASSUME Account, NEW s \in Streams, NEW u, Take(s, u), NEW t \in Streams,
         fd[t] \in {Null, Shut}
  PROVE  got'[t] = got[t]
<1>1. fd[s] = Null \/ fd[s] \in {1, 2}
  BY DEF Take, Takes
<1>2. CASE fd[s] = Null
  BY <1>2 DEF Take
<1>3. CASE fd[s] \in {1, 2}
  <2>1. s # t /\ fd[s] # Null
    BY <1>3 DEF Null, Shut
  <2>2. got' = [got EXCEPT ![s] = Append(@, u)]
    BY <2>1 DEF Take
  <2>3. QED
    BY <2>1, <2>2 DEF Account, Types
<1>4. QED
  BY <1>1, <1>2, <1>3

\* The sequences of an account.
LEMMA SameUnits ==
  ASSUME NEW g \in Seq(Units), NEW h \in Seq(Units), NEW l \in Seq(Units)
  PROVE  /\ h \o l \in Seq(Units) /\ g \o h \o l = g \o (h \o l)
         /\ h # <<>> \/ l # <<>> => h \o l # <<>>
         /\ h # <<>> => g # g \o h \o <<>>
  OBVIOUS

\* Of a verdict's run the code is 0 or 1, and there is nothing to say at first.
LEMMA VerdictCode ==
  ASSUME outcome \in Verdicts
  PROVE  Code \in {0, 1} /\ HasReceipt /\ Lines = <<>>
BY DEF Code, HasReceipt, Lines, Verdicts

\* A stream that still holds something has not passed on all it was given.
LEMMA HeldIsMissing ==
  ASSUME Account, left = <<>>, NEW s \in Streams, fd[s] \in {1, 2}, held[s] # <<>>
  PROVE  /\ got[s] # given[s]
         /\ s = "out" /\ (Bare(given["out"]) \/ Whole(given["out"])) => ~ReceiptWhole
<1>1. /\ got[s] \in Seq(Units) /\ held[s] \in Seq(Units) /\ <<>> \in Seq(Units)
      /\ got[s] \o held[s] \o <<>> = given[s]
  <2>1. got[s] \in Seq(Units) /\ held[s] \in Seq(Units)
    BY DEF Account, Types
  <2>2. got[s] \o held[s] \o (IF on = s THEN left ELSE <<>>) = given[s]
    BY DEF Account, InOrder
  <2>3. QED
    BY <2>1, <2>2, EmptySeq
<1>2. got[s] # given[s]
  BY <1>1, SameUnits
<1>3. got[s] \o held[s] = given[s]
  <2>1. \A x \in Seq(Units) : x \o <<>> = x
    OBVIOUS
  <2>2. got[s] \o held[s] \in Seq(Units)
    BY <1>1, ConcatProperties, Zenon
  <2>3. QED
    BY <1>1, <2>1, <2>2, Zenon
<1>4. ASSUME s = "out", Bare(given["out"]) \/ Whole(given["out"]) PROVE ~ReceiptWhole
  <2>1. ~Within(got[s])
    BY <1>1, <1>3, <1>4, CutShort, Zenon
  <2>2. QED
    BY <1>4, <2>1 DEF Within, ReceiptWhole
<1>5. QED
  BY <1>2, <1>4

\* The inductive invariant of what an exit code says of the receipt.
THEOREM AlwaysReporting == Spec => []Reporting
<1>1. Init => Reporting
  <2> SUFFICES ASSUME Init PROVE Reporting
    OBVIOUS
  <2>1. given["out"] \in {<<>>, Text("caller")} /\ got["out"] = <<>>
    BY DEF Init, Caller, Streams
  <2>2. QED
    BY <2>1 DEF Init, Reporting, Bare
<1>2. Accounted /\ Telling /\ Reporting /\ [Next]_vars => Reporting'
  <2> SUFFICES ASSUME Accounted, Telling, Reporting, [Next]_vars PROVE Reporting'
    OBVIOUS
  <2>a. /\ Account /\ outcome \in Outcomes /\ on \in Streams
        /\ fd \in [Streams -> {Null, Shut, 1, 2}]
        /\ got \in [Streams -> Seq(Units)] /\ given \in [Streams -> Seq(Units)]
        /\ held \in [Streams -> Seq(Units)] /\ left \in Seq(Units)
        /\ left # <<>> => stage \in {"drain", "write"}
        /\ outcome' = outcome => Code' = Code
    BY DEF Accounted, Account, Types, Code
  <2>b. Streams = {"out", "err"} /\ "out" \in Streams /\ "err" \in Streams
    BY DEF Streams
  <2>c. /\ exit # 256 => stage = "end"
        /\ outcome \in Verdicts /\ (says # <<>> \/ on = "err") => rc = 74
    BY DEF Telling, Answered, Coded
  <2>d. got'["out"] = got["out"] => (ReceiptWhole' <=> ReceiptWhole)
    BY DEF ReceiptWhole
  <2>e. given'["out"] = given["out"] => /\ Bare(given["out"])' <=> Bare(given["out"])
                                        /\ Whole(given["out"])' <=> Whole(given["out"])
    BY DEF Bare, Whole
  \* A unit moves.
  <2>1. ASSUME stage # "command", exit = 256,
               UNCHANGED <<outcome, fd, given, on, stage, lost, rc, exit>>,
               \A t \in Streams : fd[t] \in {Null, Shut} => got'[t] = got[t]
        PROVE  Reporting'
    BY <2>1, <2>a, <2>b, <2>d, <2>e DEF Reporting, Dropped
  <2>2. CASE FlushUnit \/ SettleUnit \/ \E s \in Streams : LastUnit(s)
    <3>1. PICK s \in Streams : TakeHeld(s)
      BY <2>2, <2>a, <2>b DEF FlushUnit, SettleUnit, LastUnit
    <3>2. \A t \in Streams : fd[t] \in {Null, Shut} => got'[t] = got[t]
      BY <2>a, <3>1, GoneTakesNothing DEF TakeHeld
    <3>3. /\ stage # "command" /\ exit = 256
          /\ UNCHANGED <<outcome, fd, given, on, stage, lost, rc, exit>>
      BY <2>2, <2>c DEF FlushUnit, SettleUnit, LastUnit
    <3>4. QED
      BY <2>1, <3>2, <3>3
  <2>3. CASE RawUnit \/ BufferUnit \/ BufferRest \/ BufferBlocked
    <3>1. got' = got \/ \E u : Take(on, u)
      BY <2>3 DEF RawUnit, BufferUnit, BufferRest, BufferBlocked, TakeHeld
    <3>2. \A t \in Streams : fd[t] \in {Null, Shut} => got'[t] = got[t]
      BY <2>a, <3>1, GoneTakesNothing
    <3>3. /\ stage # "command" /\ exit = 256
          /\ UNCHANGED <<outcome, fd, given, on, stage, lost, rc, exit>>
      BY <2>3, <2>c DEF RawUnit, BufferUnit, BufferRest, BufferBlocked, connections
    <3>4. QED
      BY <2>1, <3>2, <3>3
  <2>4. CASE \/ Drained \/ Blocked \/ Written \/ WaitWritable \/ Flushed \/ CallDone
             \/ Settled \/ Readers \/ UNCHANGED vars
    <3>1. /\ UNCHANGED <<outcome, fd, got, given, on, lost, rc, exit>>
          /\ stage' = stage \/ (stage \notin {"command", "failed", "end"}
                                /\ stage' \notin {"command", "failed"})
      BY <2>4 DEF Drained, Blocked, Written, WaitWritable, Flushed, CallDone, Settled,
                  Readers, Read, Leave, connections, vars
    <3>2. exit # 256 => stage = "end"
      BY <2>c
    <3>3. QED
      BY <2>a, <2>d, <2>e, <3>1, <3>2 DEF Reporting, Dropped
  <2>5. CASE Failed
    <3>1. /\ stage \in {"drain", "flush", "write"} /\ stage' = "failed"
          /\ fd' = [fd EXCEPT ![on] = Null]
          /\ UNCHANGED <<outcome, got, given, on, lost, rc, exit>>
          /\ held[on] # <<>> \/ left # <<>>
          /\ fd[on] \in {1, 2}
      BY <2>5 DEF Failed, Writing, Broken
    <3>2. ASSUME outcome \in Verdicts, on = "out" PROVE ~ReceiptWhole
      <4> DEFINE w == held[on] \o left
      <4>1. /\ w \in Seq(Units) /\ w # <<>> /\ got[on] \in Seq(Units)
            /\ got[on] \o held[on] \o left = got[on] \o w
        BY <2>a, <3>1, SameUnits
      <4>2. got[on] \o held[on] \o left = given[on]
        BY <2>a, <3>1 DEF Account, InOrder
      <4>3. Bare(given[on]) \/ Whole(given[on])
        BY <3>1, <3>2 DEF Reporting
      <4> HIDE DEF w
      <4>4. ~Within(got[on])
        BY <4>1, <4>2, <4>3, CutShort, Zenon
      <4>5. QED
        BY <3>2, <4>4 DEF Within, ReceiptWhole
    <3>3. /\ on = "out" => fd'["out"] = Null /\ fd'["err"] = fd["err"]
          /\ on = "err" => fd'["err"] = Null /\ fd'["out"] = fd["out"]
          /\ fd["err"] = Null => fd'["err"] = Null
      BY <2>a, <2>b, <3>1
    <3>4. exit = 256
      BY <2>c, <3>1
    <3>5. on \in {"out", "err"}
      BY <2>a, <2>b
    <3>6. QED
      BY <2>a, <2>c, <2>d, <2>e, <3>1, <3>2, <3>3, <3>4, <3>5 DEF Reporting, Dropped, Null, Shut
  <2>6. CASE Command
    <3>1. /\ stage = "command" /\ rc' = Code /\ UNCHANGED <<outcome, fd, got, lost, exit>>
      BY <2>6 DEF Command, connections
    <3>2. /\ Bare(given["out"]) /\ ~lost /\ exit = 256
      BY <3>1 DEF Reporting
    <3>3. stage' # "command"
      BY <2>6 DEF Command, Call
    <3>4. ASSUME outcome \in Verdicts, fd["out"] = Shut
          PROVE  Dropped' /\ stage' = "failed" /\ on' = "out" /\ given' = given
      <4>1. stage' = "failed" /\ on' = "out" /\ given' = given
        BY <2>6, <3>4, VerdictCode DEF Command
      <4>2. got["out"] = <<>>
        BY <3>4 DEF Reporting
      <4>3. ~ReceiptWhole
        <5>1. ReceiptSize \in Nat \ {0} /\ Len(<<>>) = 0
          BY SizesAssumption
        <5>2. 1..(0 - ReceiptSize + 1) = {}
          BY <5>1
        <5>3. QED
          BY <4>2, <5>1, <5>2 DEF ReceiptWhole
      <4>4. QED
        BY <2>d, <3>1, <3>4, <4>1, <4>3 DEF Dropped
    <3>5. ASSUME outcome \in Verdicts, fd["out"] # Shut
          PROVE  Whole(given["out"])' /\ stage' = "drain"
      <4>1. Call("out", "receipt")
        BY <2>6, <3>5, VerdictCode DEF Command
      <4>2. given'["out"] = given["out"] \o Text("receipt") /\ stage' = "drain"
        BY <2>a, <2>b, <4>1 DEF Call
      <4>3. QED
        BY <3>2, <4>2 DEF Bare, Whole
    <3>6. outcome \in Verdicts => Code \in {0, 1}
      BY VerdictCode
    <3>7. QED
      BY <2>a, <2>e, <3>1, <3>2, <3>3, <3>4, <3>5, <3>6 DEF Reporting
  <2>7. CASE Say
    <3>1. /\ stage = "say" /\ says # <<>> /\ stage' \in {"say", "drain"}
          /\ UNCHANGED <<outcome, fd, got, rc, exit>> /\ given'["out"] = given["out"]
      BY <2>7, <2>a, <2>b DEF Say, Call, connections
    <3>2. exit = 256
      BY <2>c, <3>1
    <3>3. outcome \in Verdicts => rc = 74 /\ Dropped
      BY <2>c, <3>1 DEF Reporting
    <3>4. Dropped' <=> Dropped
      BY <2>d, <3>1 DEF Dropped
    <3>5. QED
      BY <2>a, <2>e, <3>1, <3>2, <3>3, <3>4 DEF Reporting
  <2>8. CASE ReceiptFailed
    <3>1. /\ stage = "failed" /\ on = "out" /\ rc' = 74 /\ stage' = "say"
          /\ UNCHANGED <<outcome, fd, got, given, on, lost, exit>>
      BY <2>8 DEF ReceiptFailed, connections
    <3>2. exit = 256
      BY <2>c, <3>1
    <3>3. Dropped' <=> Dropped
      BY <2>d, <3>1 DEF Dropped
    <3>4. QED
      BY <2>a, <2>e, <3>1, <3>2, <3>3 DEF Reporting
  <2>9. CASE LineFailed
    <3>1. /\ stage = "failed" /\ on = "err" /\ stage' = "say"
          /\ lost' = (lost \/ outcome = "usage")
          /\ rc' = IF outcome = "refused" THEN 74 ELSE rc
          /\ UNCHANGED <<outcome, fd, got, given, on, exit>>
      BY <2>9 DEF LineFailed, connections
    <3>2. exit = 256
      BY <2>c, <3>1
    <3>3. Dropped' <=> Dropped
      BY <2>d, <3>1 DEF Dropped
    <3>4. outcome \in Verdicts => (lost' <=> lost) /\ rc' = rc
      BY <3>1 DEF Verdicts
    <3>5. QED
      BY <2>a, <2>e, <3>1, <3>2, <3>3, <3>4 DEF Reporting
  <2>10. CASE Lost
    <3>1. /\ stage = "say" /\ lost /\ rc' = 74 /\ stage' = "end"
          /\ UNCHANGED <<outcome, fd, got, given, on, lost, exit>>
      BY <2>10 DEF Lost, connections
    <3>2. exit = 256
      BY <2>c, <3>1
    <3>3. Dropped' <=> Dropped
      BY <2>d, <3>1 DEF Dropped
    <3>4. QED
      BY <2>a, <2>e, <3>1, <3>2, <3>3 DEF Reporting
  <2>11. CASE SettleFailed
    <3>1. /\ stage = "say" /\ stage' = "end" /\ rc' = 74 /\ held["err"] # <<>>
          /\ fd' = [fd EXCEPT !["err"] = Null] /\ fd["err"] \in {1, 2} /\ ~lost
          /\ UNCHANGED <<outcome, got, given, on, lost, exit>>
      BY <2>11 DEF SettleFailed, Broken, WouldBlock
    <3>2. exit = 256
      BY <2>c, <3>1
    <3>3. got["err"] # given["err"]
      BY <2>a, <2>b, <3>1, HeldIsMissing
    <3>4. fd'["err"] = Null /\ fd'["out"] = fd["out"]
      BY <2>a, <2>b, <3>1
    <3>5. Dropped' <=> Dropped
      BY <2>d, <3>1, <3>4 DEF Dropped
    <3>6. QED
      BY <2>a, <2>e, <3>1, <3>2, <3>3, <3>4, <3>5 DEF Reporting
  <2>12. CASE Exit
    <3>1. /\ stage = "end" /\ exit' = rc
          /\ UNCHANGED <<outcome, fd, got, given, on, lost, rc, stage>>
      BY <2>12 DEF Exit, connections
    <3>2. QED
      BY <2>a, <2>d, <2>e, <3>1 DEF Reporting, Dropped
  <2>13. ASSUME NEW s \in Streams, LastFailed(s) PROVE Reporting'
    <3>1. /\ stage = "end" /\ exit' = 120 /\ held[s] # <<>> /\ fd[s] \in {1, 2}
          /\ UNCHANGED <<outcome, fd, got, given, on, lost, rc, stage>>
      BY <2>13 DEF LastFailed, Broken, WouldBlock, connections
    <3>2. left = <<>>
      BY <2>a, <3>1
    <3>3. outcome \in Verdicts => ~ReceiptWhole \/ got["err"] # given["err"]
      <4>1. CASE s = "err"
        BY <2>a, <3>1, <3>2, <4>1, HeldIsMissing
      <4>2. CASE s = "out"
        <5>1. outcome \in Verdicts => Bare(given["out"]) \/ Whole(given["out"])
          BY <3>1 DEF Reporting
        <5>2. QED
          BY <2>a, <3>1, <3>2, <4>2, <5>1, HeldIsMissing
      <4>3. QED
        BY <2>b, <4>1, <4>2
    <3>4. QED
      BY <2>a, <2>d, <2>e, <3>1, <3>3 DEF Reporting, Dropped
  <2>14. QED
    BY <2>2, <2>3, <2>4, <2>5, <2>6, <2>7, <2>8, <2>9, <2>10, <2>11, <2>12, <2>13
    DEF Next, WriteAll, Main
<1>3. QED
  BY <1>1, <1>2, AlwaysAccounted, AlwaysTelling, PTL DEF Spec

\* Whatever the sizes, streams and readers: a verdict's exit code comes only
\* after the whole receipt was taken, and does come when it was, unless stderr
\* could not take what a caller had left there.
THEOREM ExitSpeaksOfTheReceipt == Spec => []ExitTellsTheReceipt
<1>1. Accounted /\ Telling /\ Reporting /\ OthersAreTold => ExitTellsTheReceipt
  <2> SUFFICES ASSUME Accounted, Telling, Reporting, OthersAreTold,
                      exit # 256, outcome \in Verdicts
               PROVE  /\ exit \in {0, 1} => ReceiptWhole
                      /\ ReceiptWhole /\ got["err"] = given["err"] => exit = Code
    BY DEF ExitTellsTheReceipt
  <2>1. stage = "end"
    BY DEF Telling, Answered
  <2>2. /\ rc \in {Code, 74} /\ (Whole(given["out"]) \/ rc = 74)
        /\ exit = rc \/ (exit = 120 /\ (~ReceiptWhole \/ got["err"] # given["err"]))
        /\ rc = 74 => ~ReceiptWhole \/ got["err"] # given["err"]
    BY <2>1 DEF Reporting, Dropped
  <2>3. ASSUME exit \in {0, 1} PROVE ReceiptWhole
    <3>1. got["out"] = given["out"] /\ Whole(given["out"])
      BY <2>2, <2>3 DEF OthersAreTold, Streams
    <3>2. QED
      BY <3>1, WholeHoldsIt DEF Within, ReceiptWhole
  <2>4. QED
    BY <2>2, <2>3
<1>2. QED
  BY <1>1, AlwaysAccounted, AlwaysTelling, AlwaysReporting, WhoReadsIsTold, PTL
=============================================================================
