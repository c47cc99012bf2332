-------------------------- MODULE DisclosureProofs --------------------------
(***************************************************************************)
(* Proofs about modules Disclosure, Records and Reading, for every         *)
(* presentation, every Merkle tree and every bound.                        *)
(*                                                                         *)
(* Deep ties a walk's place on the stack to its depth and lets only the    *)
(* innermost one lie beyond the bound; Asked says that whoever waits for a *)
(* disclosed value has met its digest; Counted that the census lists what  *)
(* was met, each digest once.                                              *)
(*                                                                         *)
(* What resolves is stated by a relation: Expands says that a node has a   *)
(* value, by a derivation whose every pair of a node and a value follows   *)
(* from earlier ones.  Traced keeps such a derivation of all that the walks*)
(* on the stack have gathered, and of the value that the last one returned;*)
(* Counting adds that the census has every digest in it.  Where none is    *)
(* hidden, whatever else a holder may show derives no more: so a record    *)
(* keeps its reference, and an original its terms (module Records).        *)
(*                                                                         *)
(* RetoldInv compares the stack with the recursion of module Expansion:    *)
(* each walk has gathered what the recursion gathers of the places before  *)
(* it, the census is what its walks had met when they began, with that, and*)
(* if the payload fits the rest of its census is still to come.  So a walk *)
(* that is refused was of no payload that fits.  What fits expands, so that*)
(* what is shown of expansions holds of what the recursion gives.          *)
(*                                                                         *)
(* At each depth a fold up an account tree has the hash of the prefix there*)
(* exactly if the tree holds the value (FoldFollows).  A level of a seal   *)
(* tree is made of blocks of a power of two leaves, which are the trees    *)
(* that splitting makes (LevelsHalve), and the way up from a leaf is grown *)
(* with the tree (WaysUpLead).                                             *)
(***************************************************************************)
EXTENDS Reading, FiniteSetTheorems, SequenceTheorems, WellFoundedInduction, TLAPS

Fields == {"node", "depth", "at", "out"}

\* Sequences, whatever they hold.
Sequence(s) == \E S : s \in Seq(S)

Deep ==
  /\ Sequence(stack)
  /\ \A n \in 1..Len(stack) : stack[n].depth = n /\ DOMAIN stack[n] = Fields
  /\ \A n \in 1..Len(stack) : n < Len(stack) => n <= MAX_JSON_DEPTH

Known(f) == Digest(f) # Nothing => Digest(f) \in seen /\ Digest(f) \in DOMAIN by_digest

Asked ==
  \A n \in 1..Len(stack) : n < Len(stack) \/ value # <<>> => Known(stack[n])

Counted == Sequence(encountered) /\ MetOnce

\* Nothing is walked before the table is made.
Early == phase = "index" => stack = <<>> /\ value = <<>> /\ used = {}

Inv == TypeOK /\ Deep /\ Asked /\ Counted /\ Early

-----------------------------------------------------------------------------
(* Stacks.                                                                  *)

\* A walk more on top.
LEMMA Pushed ==
  ASSUME NEW s, Sequence(s), NEW f
  PROVE  /\ Sequence(Append(s, f)) /\ Len(s) \in Nat
         /\ Len(Append(s, f)) = Len(s) + 1
         /\ \A n \in 1..(Len(s) + 1) : Append(s, f)[n] = IF n = Len(s) + 1 THEN f ELSE s[n]
<1>1. PICK S : s \in Seq(S)
  BY DEF Sequence
<1>2. s \in Seq(S \union {f}) /\ Append(s, f) \in Seq(S \union {f})
  BY <1>1
<1>3. QED
  BY <1>2 DEF Sequence

\* The innermost walk gone.
LEMMA Popped ==
  ASSUME NEW s, Sequence(s), s # <<>>
  PROVE  LET b == SubSeq(s, 1, Len(s) - 1)
         IN /\ Sequence(b) /\ Len(s) \in Nat \ {0} /\ Len(b) = Len(s) - 1
            /\ \A n \in 1..Len(b) : b[n] = s[n]
<1>1. PICK S : s \in Seq(S)
  BY DEF Sequence
<1>2. Len(s) \in Nat \ {0}
  BY <1>1
<1>3. SubSeq(s, 1, Len(s) - 1) \in Seq(S)
  BY <1>1, <1>2
<1>4. Len(SubSeq(s, 1, Len(s) - 1)) = Len(s) - 1
  <2>1. Len(s) - 1 \in Int /\ \A i \in 1..(Len(s) - 1) : s[i] \in S
    BY <1>1, <1>2
  <2>2. Len(SubSeq(s, 1, Len(s) - 1)) = IF 1 <= Len(s) - 1 THEN (Len(s) - 1) - 1 + 1 ELSE 0
    BY <2>1, SubSeqProperties
  <2>3. QED
    BY <1>2, <2>2
<1>5. \A n \in 1..(Len(s) - 1) : SubSeq(s, 1, Len(s) - 1)[n] = s[n]
  BY <1>1, <1>2, SubSeqProperties
<1> DEFINE b == SubSeq(s, 1, Len(s) - 1)
<1> HIDE DEF b
<1>6. Sequence(b)
  BY <1>3 DEF Sequence, b
<1>7. Len(b) = Len(s) - 1 /\ \A n \in 1..(Len(s) - 1) : b[n] = s[n]
  BY <1>4, <1>5 DEF b
<1>8. QED
  BY <1>2, <1>6, <1>7 DEF b

\* The innermost walk replaced.
LEMMA Replaced ==
  ASSUME NEW s, Sequence(s), s # <<>>, NEW f
  PROVE  LET r == Append(SubSeq(s, 1, Len(s) - 1), f)
         IN /\ Sequence(r) /\ Len(s) \in Nat \ {0} /\ Len(r) = Len(s)
            /\ \A n \in 1..Len(s) : r[n] = IF n = Len(s) THEN f ELSE s[n]
<1> DEFINE b == SubSeq(s, 1, Len(s) - 1)
<1>1. /\ Sequence(b) /\ Len(s) \in Nat \ {0} /\ Len(b) = Len(s) - 1
      /\ \A n \in 1..Len(b) : b[n] = s[n]
  BY Popped
<1>2. /\ Sequence(Append(b, f)) /\ Len(Append(b, f)) = Len(b) + 1
      /\ \A n \in 1..(Len(b) + 1) : Append(b, f)[n] = IF n = Len(b) + 1 THEN f ELSE b[n]
  BY <1>1, Pushed
<1> HIDE DEF b
<1>3. QED
  BY <1>1, <1>2 DEF b

-----------------------------------------------------------------------------
(* One lemma per way a step changes the stack.                              *)

\* A child's walk begins: its parent is within the bound.
LEMMA Begins ==
  ASSUME Inv, Walking, ~TooDeep(Top), Top.node.t # "leaf",
         NEW n, stack' = Append(stack, Walk(n, Top.depth + 1))
  PROVE  Deep'
<1>1. Sequence(stack) /\ stack # <<>>
  BY DEF Inv, Deep, Walking
<1>2. Len(stack) \in Nat \ {0}
  BY <1>1, Popped
<1>3. Top.depth = Len(stack) /\ Len(stack) <= MAX_JSON_DEPTH
  BY <1>2, DepthAssumption DEF Top, TooDeep, Inv, Deep
<1> DEFINE w == Walk(n, Top.depth + 1)
<1>4. w.depth = Len(stack) + 1 /\ DOMAIN w = Fields
  BY <1>3 DEF Walk, Fields
<1> HIDE DEF w
<1>5. /\ Sequence(stack') /\ Len(stack') = Len(stack) + 1
      /\ \A k \in 1..(Len(stack) + 1) : stack'[k] = IF k = Len(stack) + 1 THEN w ELSE stack[k]
  BY <1>1, Pushed DEF w
<1>6. QED
  BY <1>2, <1>3, <1>4, <1>5 DEF Inv, Deep

\* The innermost walk moves on, its depth as it was.
LEMMA MovesOn ==
  ASSUME Deep, stack # <<>>, NEW f, f.depth = Top.depth, DOMAIN f = DOMAIN Top,
         stack' = Append(Below, f)
  PROVE  /\ Deep' /\ Len(stack') = Len(stack) /\ Len(stack) \in Nat \ {0}
         /\ \A n \in 1..Len(stack) : n < Len(stack) => stack'[n] = stack[n]
         /\ stack'[Len(stack)] = f
<1>1. Sequence(stack)
  BY DEF Deep
<1>2. /\ Sequence(stack') /\ Len(stack) \in Nat \ {0} /\ Len(stack') = Len(stack)
      /\ \A n \in 1..Len(stack) : stack'[n] = IF n = Len(stack) THEN f ELSE stack[n]
  BY <1>1, Replaced DEF Below
<1>3. QED
  BY <1>2 DEF Deep, Top

\* The innermost walk ends.
LEMMA EndsWalk ==
  ASSUME Deep, stack # <<>>, stack' = Below
  PROVE  /\ Deep' /\ Len(stack') = Len(stack) - 1 /\ Len(stack) \in Nat \ {0}
         /\ \A n \in 1..Len(stack') : stack'[n] = stack[n]
<1>1. Sequence(stack)
  BY DEF Deep
<1>2. /\ Sequence(stack') /\ Len(stack) \in Nat \ {0} /\ Len(stack') = Len(stack) - 1
      /\ \A n \in 1..Len(stack') : stack'[n] = stack[n]
  BY <1>1, Popped DEF Below
<1>3. QED
  BY <1>2 DEF Deep

\* The innermost walk is one.
LEMMA TopIsAWalk ==
  ASSUME Deep, stack # <<>>
  PROVE  DOMAIN Top = Fields
<1>1. Len(stack) \in Nat \ {0}
  BY Popped DEF Deep
<1>2. QED
  BY <1>1 DEF Deep, Top

\* A digest is met for the first time.
LEMMA MeetsOnce ==
  ASSUME Counted, NEW d, d \notin seen, Meet(d)
  PROVE  Counted'
<1>1. /\ Sequence(encountered) /\ seen = {encountered[i] : i \in 1..Len(encountered)}
      /\ \A i, j \in 1..Len(encountered) : encountered[i] = encountered[j] => i = j
  BY DEF Counted, MetOnce
<1>2. /\ encountered' = Append(encountered, d) /\ seen' = seen \union {d}
  BY DEF Meet
<1>3. /\ Sequence(encountered') /\ Len(encountered) \in Nat
      /\ Len(encountered') = Len(encountered) + 1
      /\ \A n \in 1..(Len(encountered) + 1) :
           encountered'[n] = IF n = Len(encountered) + 1 THEN d ELSE encountered[n]
  BY <1>1, <1>2, Pushed
<1>4. \A i \in 1..Len(encountered) : encountered[i] # d
  BY <1>1
<1>5. \A i, j \in 1..Len(encountered') : encountered'[i] = encountered'[j] => i = j
  BY <1>1, <1>3, <1>4
<1>6. seen' = {encountered'[i] : i \in 1..Len(encountered')}
  BY <1>1, <1>2, <1>3
<1>7. QED
  BY <1>3, <1>5, <1>6 DEF Counted, MetOnce

-----------------------------------------------------------------------------
(* The invariant.                                                           *)

\* A step that moves no walk and meets no digest.
LEMMA NothingMoves ==
  ASSUME Inv, UNCHANGED <<by_digest, stack, value, seen, encountered>>
  PROVE  Deep' /\ Asked' /\ Counted'
<1>1. Deep' /\ Counted'
  BY DEF Inv, Deep, Counted, MetOnce
<1>2. Asked'
  <2> SUFFICES ASSUME NEW n \in 1..Len(stack'), n < Len(stack') \/ value' # <<>>
               PROVE  Known(stack[n])'
    BY DEF Asked
  <2>1. Known(stack[n])
    BY DEF Inv, Asked
  <2>2. QED
    BY <2>1 DEF Known, Digest, Asks
<1>3. QED
  BY <1>1, <1>2

\* Whoever walks a child asks for no digest.
LEMMA ChildrenAreNotAsked ==
  ASSUME NEW f, Child(f) # Nothing
  PROVE  Digest(f) = Nothing /\ f.node.t # "leaf"
<1>1. CASE f.node.t = "object" /\ ~(f.at > Len(f.node.members))
  BY <1>1 DEF Digest, Asks
<1>2. CASE ~(f.node.t = "object" /\ ~(f.at > Len(f.node.members)))
  BY <1>2 DEF Child
<1>3. QED
  BY <1>1, <1>2

\* Neither does a leaf.
LEMMA LeavesAskNothing ==
  ASSUME NEW f, Digest(f) # Nothing
  PROVE  f.node.t # "leaf"
BY DEF Digest, Asks

\* Inv is inductive: the shape, the depth and the census hold throughout.
THEOREM Always == Spec => []Inv
<1>1. Init => Inv
  <2> SUFFICES ASSUME Init PROVE Inv
    OBVIOUS
  <2>1. Sequence(<<>>) /\ Len(<<>>) = 0
    BY DEF Sequence
  <2>2. QED
    BY <2>1 DEF Init, Inv, TypeOK, Indexes, Deep, Asked, Counted, MetOnce, Early
<1>2. Inv /\ [Next]_vars => Inv'
  <2> SUFFICES ASSUME Inv, [Next]_vars PROVE Inv'
    OBVIOUS
  <2> USE DEF Inv
  <2>1. CASE Index
    <3>1. CASE phase' = "refused" /\ UNCHANGED <<by_digest, stack>>
      <4>1. Deep' /\ Asked' /\ Counted'
        BY <2>1, <3>1, NothingMoves DEF Index
      <4>2. TypeOK' /\ Early'
        BY <2>1, <3>1 DEF Index, TypeOK, Indexes, Early
      <4>3. QED
        BY <4>1, <4>2
    <3>2. CASE /\ DOMAIN by_digest' = {token.disclosures[i].digest : i \in Indexes}
               /\ stack' = <<Walk(token.payload, 1)>> /\ phase' = "walk"
      <4> DEFINE w == Walk(token.payload, 1)
      <4>1. w.depth = 1 /\ DOMAIN w = Fields
        BY DEF Walk, Fields
      <4> HIDE DEF w
      <4>2. stack' = <<w>>
        BY <3>2 DEF w
      <4>3. Sequence(stack') /\ Len(stack') = 1 /\ stack'[1] = w
        <5>1. <<w>> \in Seq({w}) /\ Len(<<w>>) = 1 /\ <<w>>[1] = w
          OBVIOUS
        <5>2. QED
          BY <4>2, <5>1 DEF Sequence
      <4>4. phase = "index" /\ UNCHANGED <<token, value, seen, encountered, used>>
        BY <2>1 DEF Index
      <4>5. Deep'
        BY <4>1, <4>3 DEF Deep
      <4>6. Asked'
        BY <4>3, <4>4 DEF Asked, Early
      <4>7. TypeOK' /\ Early' /\ Counted'
        BY <3>2, <4>4 DEF TypeOK, Indexes, Early, Counted, MetOnce
      <4>8. QED
        BY <4>5, <4>6, <4>7
    <3>3. QED
      BY <2>1, <3>1, <3>2 DEF Index
  <2>2. CASE Refuse
    <3>1. Deep' /\ Asked' /\ Counted'
      BY <2>2, NothingMoves DEF Refuse
    <3>2. TypeOK' /\ Early'
      BY <2>2 DEF Refuse, TypeOK, Indexes, Early
    <3>3. QED
      BY <3>1, <3>2
  <2>3. CASE YieldChild
    <3>1. /\ Walking /\ ~Refused(Top) /\ Child(Top) # Nothing
          /\ stack' = Append(stack, Walk(Child(Top), Top.depth + 1))
          /\ UNCHANGED <<token, by_digest, value, seen, encountered, used, phase>>
      BY <2>3 DEF YieldChild
    <3>2. Digest(Top) = Nothing /\ Top.node.t # "leaf"
      BY <3>1, ChildrenAreNotAsked
    <3>3. Deep'
      BY <3>1, <3>2, Begins DEF Refused
    <3>4. /\ Len(stack) \in Nat /\ Len(stack') = Len(stack) + 1
          /\ \A n \in 1..Len(stack) : stack'[n] = stack[n]
      BY <3>1, Pushed DEF Deep
    <3>5. Asked'
      <4> SUFFICES ASSUME NEW n \in 1..Len(stack'), n < Len(stack')
                   PROVE  Known(stack[n])'
        BY <3>1 DEF Asked, Walking
      <4>1. n \in 1..Len(stack) /\ stack'[n] = stack[n] /\ (n = Len(stack) \/ n < Len(stack))
        BY <3>4
      <4>2. Known(stack[n])
        BY <3>2, <4>1 DEF Asked, Known, Digest, Asks, Top
      <4>3. QED
        BY <3>1, <4>1, <4>2 DEF Known, Digest, Asks
    <3>6. TypeOK' /\ Early' /\ Counted'
      BY <3>1 DEF Walking, TypeOK, Indexes, Early, Counted, MetOnce
    <3>7. QED
      BY <3>3, <3>5, <3>6
  <2>4. CASE YieldDisclosed
    <3> DEFINE d == Digest(Top)
    <3>1. /\ Walking /\ ~Refused(Top) /\ d # Nothing /\ d \in DOMAIN by_digest /\ Meet(d)
          /\ stack' = Append(stack, Walk(by_digest[d].value, Top.depth + 1))
          /\ UNCHANGED <<token, by_digest, value, used, phase>>
      BY <2>4 DEF YieldDisclosed, DisclosedDepth
    <3>2. d \notin seen /\ seen' = seen \union {d}
      BY <3>1 DEF Refused, Misplaced, Meet
    <3>3. Deep'
      BY <3>1, LeavesAskNothing, Begins DEF Refused
    <3>4. /\ Len(stack) \in Nat /\ Len(stack') = Len(stack) + 1
          /\ \A n \in 1..Len(stack) : stack'[n] = stack[n]
      BY <3>1, Pushed DEF Deep
    <3>5. Asked'
      <4> SUFFICES ASSUME NEW n \in 1..Len(stack'), n < Len(stack')
                   PROVE  Known(stack[n])'
        BY <3>1 DEF Asked, Walking
      <4>1. n \in 1..Len(stack) /\ stack'[n] = stack[n] /\ (n = Len(stack) \/ n < Len(stack))
        BY <3>4
      <4>0. by_digest' = by_digest /\ seen' = seen \union {d}
        BY <3>1, <3>2
      <4>2. CASE n = Len(stack)
        <5>1. stack'[n] = Top /\ d \in DOMAIN by_digest
          BY <3>1, <4>1, <4>2 DEF Top
        <5>2. QED
          BY <4>0, <5>1 DEF Known, Digest, Asks
      <4>3. CASE n < Len(stack)
        <5>1. Known(stack[n]) /\ stack'[n] = stack[n]
          BY <4>1, <4>3 DEF Asked
        <5>2. QED
          BY <4>0, <5>1 DEF Known, Digest, Asks
      <4>4. QED
        BY <4>1, <4>2, <4>3
    <3> HIDE DEF d
    <3>6. TypeOK' /\ Early'
      BY <3>1, <3>2 DEF Walking, TypeOK, Indexes, Early
    <3>7. Counted'
      BY <3>1, <3>2, MeetsOnce
    <3>8. QED
      BY <3>3, <3>5, <3>6, <3>7
  <2>5. CASE Skip
    <3> DEFINE d == Digest(Top)
    <3>1. /\ Walking /\ ~Refused(Top) /\ Meet(d) /\ d # Nothing
          /\ stack' = Append(Below, Advanced)
          /\ UNCHANGED <<token, by_digest, value, used, phase>>
      BY <2>5 DEF Skip
    <3>2. d \notin seen /\ seen' = seen \union {d}
      BY <3>1 DEF Refused, Misplaced, Meet
    <3>3. Advanced.depth = Top.depth /\ DOMAIN Advanced = DOMAIN Top
      BY <3>1, TopIsAWalk DEF Advanced, Walking, Fields
    <3>4. /\ Deep' /\ Len(stack') = Len(stack) /\ Len(stack) \in Nat \ {0}
          /\ \A n \in 1..Len(stack) : n < Len(stack) => stack'[n] = stack[n]
      BY <3>1, <3>3, MovesOn DEF Walking
    <3> HIDE DEF d
    <3>5. Asked'
      <4> SUFFICES ASSUME NEW n \in 1..Len(stack'), n < Len(stack')
                   PROVE  Known(stack[n])'
        BY <3>1 DEF Asked, Walking
      <4>1. n \in 1..Len(stack) /\ n < Len(stack) /\ stack'[n] = stack[n]
        BY <3>4
      <4>2. Known(stack[n])
        BY <4>1 DEF Asked
      <4>3. QED
        BY <3>1, <3>2, <4>1, <4>2 DEF Known, Digest, Asks
    <3>6. TypeOK' /\ Early'
      BY <3>1, <3>2 DEF Walking, TypeOK, Indexes, Early
    <3>7. Counted'
      BY <3>1, <3>2, MeetsOnce
    <3>8. QED
      BY <3>4, <3>5, <3>6, <3>7
  <2>6. CASE Return
    <3>1. /\ Walking /\ stack' = Below
          /\ UNCHANGED <<token, by_digest, seen, encountered, used, phase>>
      BY <2>6 DEF Return
    <3>2. /\ Deep' /\ Len(stack') = Len(stack) - 1 /\ Len(stack) \in Nat \ {0}
          /\ \A n \in 1..Len(stack') : stack'[n] = stack[n]
      BY <3>1, EndsWalk DEF Walking
    <3>3. Asked'
      <4> SUFFICES ASSUME NEW n \in 1..Len(stack') PROVE Known(stack[n])'
        BY DEF Asked
      <4>1. n \in 1..Len(stack) /\ n < Len(stack) /\ stack'[n] = stack[n]
        BY <3>2
      <4>2. Known(stack[n])
        BY <4>1 DEF Asked
      <4>3. QED
        BY <3>1, <4>1, <4>2 DEF Known, Digest, Asks
    <3>4. TypeOK' /\ Early' /\ Counted'
      BY <3>1 DEF Walking, TypeOK, Indexes, Early, Counted, MetOnce
    <3>5. QED
      BY <3>2, <3>3, <3>4
  <2>7. CASE Take
    <3>1. PICK f : /\ stack' = Append(Below, f)
                   /\ f = IF Top.node.t = "list" THEN [Advanced EXCEPT !.out = Append(@, Returned)]
                          ELSE [Advanced EXCEPT !.out = Put(@, Key(Top), Returned)]
      BY <2>7 DEF Take
    <3>2. /\ phase = "walk" /\ value # <<>> /\ stack # <<>> /\ value' = <<>>
          /\ used' = IF Digest(Top) = Nothing THEN used ELSE used \union {Digest(Top)}
          /\ UNCHANGED <<token, by_digest, seen, encountered, phase>>
      BY <2>7 DEF Take
    <3>3. f.depth = Top.depth /\ DOMAIN f = DOMAIN Top
      BY <3>1, <3>2, TopIsAWalk DEF Advanced, Fields
    <3>4. /\ Deep' /\ Len(stack') = Len(stack) /\ Len(stack) \in Nat \ {0}
          /\ \A n \in 1..Len(stack) : n < Len(stack) => stack'[n] = stack[n]
      BY <3>1, <3>2, <3>3, MovesOn
    <3>5. Known(Top)
      BY <3>2, <3>4 DEF Asked, Top
    <3>6. Asked'
      <4> SUFFICES ASSUME NEW n \in 1..Len(stack'), n < Len(stack')
                   PROVE  Known(stack[n])'
        BY <3>2 DEF Asked
      <4>1. n \in 1..Len(stack) /\ n < Len(stack) /\ stack'[n] = stack[n]
        BY <3>4
      <4>2. Known(stack[n])
        BY <4>1 DEF Asked
      <4>3. QED
        BY <3>2, <4>1, <4>2 DEF Known, Digest, Asks
    <3>7. TypeOK' /\ Early' /\ Counted'
      <4> DEFINE d == Digest(Top)
      <4>1. /\ used' = IF d = Nothing THEN used ELSE used \union {d}
            /\ d # Nothing => d \in seen /\ d \in DOMAIN by_digest
        BY <3>2, <3>5 DEF Known
      <4> HIDE DEF d
      <4>2. TypeOK'
        BY <3>2, <4>1 DEF TypeOK, Indexes
      <4>3. Early' /\ Counted'
        BY <3>2 DEF Early, Counted, MetOnce
      <4>4. QED
        BY <4>2, <4>3
    <3>8. QED
      BY <3>4, <3>6, <3>7
  <2>8. CASE Finish
    <3>1. Deep' /\ Asked' /\ Counted'
      BY <2>8, NothingMoves DEF Finish
    <3>2. TypeOK' /\ Early'
      BY <2>8 DEF Finish, TypeOK, Indexes, Early
    <3>3. QED
      BY <3>1, <3>2
  <2>9. CASE UNCHANGED vars
    <3>1. Deep' /\ Asked' /\ Counted'
      BY <2>9, NothingMoves DEF vars
    <3>2. TypeOK' /\ Early'
      BY <2>9 DEF vars, TypeOK, Indexes, Early
    <3>3. QED
      BY <3>1, <3>2
  <2>10. QED
    BY <2>1, <2>2, <2>3, <2>4, <2>5, <2>6, <2>7, <2>8, <2>9 DEF Next
<1>3. QED
  BY <1>1, <1>2, PTL DEF Spec

-----------------------------------------------------------------------------
(* What it gives.                                                           *)

LEMMA InvNests ==
  ASSUME Inv
  PROVE  StackIsDepth
<1>1. Len(stack) \in Nat
  BY Pushed DEF Inv, Deep
<1>2. CASE Len(stack) > 1
  <2>1. Len(stack) - 1 <= MAX_JSON_DEPTH
    BY <1>1, <1>2 DEF Inv, Deep
  <2>2. QED
    BY <1>1, <2>1, DepthAssumption DEF Inv, Deep, StackIsDepth
<1>3. CASE ~(Len(stack) > 1)
  BY <1>1, <1>3, DepthAssumption DEF Inv, Deep, StackIsDepth
<1>4. QED
  BY <1>2, <1>3

\* Whatever is presented, a walk lies on the stack where its depth says, and no
\* more than MAX_JSON_DEPTH + 1 of them.
THEOREM Nesting == Spec => []StackIsDepth
<1>1. Inv => StackIsDepth
  BY InvNests
<1>2. QED
  BY <1>1, Always, PTL

\* Whatever is presented, no digest is counted twice, and none that is met is
\* left out of the census.
THEOREM OneMeeting == Spec => []MetOnce
<1>1. Inv => MetOnce
  BY DEF Inv, Counted
<1>2. QED
  BY <1>1, Always, PTL

\* Whatever is presented, a disclosure is used only where its digest was met.
THEOREM Shape == Spec => []TypeOK
<1>1. Inv => TypeOK
  BY DEF Inv
<1>2. QED
  BY <1>1, Always, PTL

-----------------------------------------------------------------------------
(* What a node expands to over a table T of disclosures by their digest.    *)

\* The places among the first m that show something.
Here(T, n, m) == {i \in 1..m : Shown(T, n, i)}

\* S, pairs of a node and a value, has it that n expands to v.
Gives(S, n, v) == [node |-> Plain(n), value |-> v] \in S

\* out is the items shown in the first m places of n, expanded as S says, in order.
Kept(T, n, m, out, S) ==
  /\ Sequence(out)
  /\ \E at \in [1..Len(out) -> Here(T, n, m)] :
       /\ \A i, j \in 1..Len(out) : i < j => at[i] < at[j]
       /\ \A p \in Here(T, n, m) : \E i \in 1..Len(out) : at[i] = p
       /\ \A i \in 1..Len(out) : Gives(S, Within(T, n, at[i]), out[i])

\* out is what the first m places of n show, each under a name of its own.
Claims(T, n, m, out, S) ==
  /\ out = [k \in DOMAIN out |-> out[k]]
  /\ DOMAIN out = {Name(T, n, i) : i \in Here(T, n, m)}
  /\ \A i, j \in Here(T, n, m) : Name(T, n, i) = Name(T, n, j) => i = j
  /\ \A i \in Here(T, n, m) : Gives(S, Within(T, n, i), out[Name(T, n, i)])

Gathered(T, n, m, out, S) ==
  /\ \A i \in 1..m : Fits(T, n, i)
  /\ n.t = "list" => Kept(T, n, m, out, S)
  /\ n.t = "object" => Claims(T, n, m, out, S)

\* v is n with every digest replaced, if S is right about what is in n.
Follows(T, n, v, S) ==
  \/ n.t = "leaf" /\ v = n
  \/ \E out : /\ Gathered(T, n, Places(n), out, S)
              /\ \/ n.t = "list" /\ v = List(out)
                 \/ /\ n.t = "object" /\ n.sd # NotAList
                    /\ v = [t |-> "object", members |-> out]

\* A derivation is a sequence of pairs of which each follows from those before it.
Before(D, i) == {D[j] : j \in 1..(i - 1)}
Pairs(D) == {D[j] : j \in 1..Len(D)}
Derivation(T, D) ==
  /\ Sequence(D)
  /\ \A i \in 1..Len(D) : /\ D[i] = [node |-> D[i].node, value |-> D[i].value]
                          /\ Follows(T, D[i].node, D[i].value, Before(D, i))

Expands(T, n, v) == \E D : Derivation(T, D) /\ Gives(Pairs(D), n, v)

\* The digests at the first m places of n are in M.
Met(M, n, m) == \A i \in 1..m : DigestAt(n, i) # Nothing => DigestAt(n, i) \in M

\* A node expands to v, and no digest is met on the way but those in M.
ExpandsIn(T, n, v, M) ==
  \E D : /\ Derivation(T, D) /\ Gives(Pairs(D), n, v)
         /\ \A p \in Pairs(D) : Met(M, p.node, Places(p.node))

-----------------------------------------------------------------------------
(* Derivations grow.                                                        *)

LEMMA Monotone ==
  ASSUME NEW T, NEW n, NEW m, NEW out, NEW S, NEW R, S \subseteq R
  PROVE  Gathered(T, n, m, out, S) => Gathered(T, n, m, out, R)
<1>1. \A x, v : Gives(S, x, v) => Gives(R, x, v)
  BY DEF Gives
<1>2. Kept(T, n, m, out, S) => Kept(T, n, m, out, R)
  BY <1>1 DEF Kept
<1>3. Claims(T, n, m, out, S) => Claims(T, n, m, out, R)
  BY <1>1 DEF Claims
<1>4. QED
  BY <1>2, <1>3 DEF Gathered

LEMMA Derives ==
  ASSUME NEW T, NEW D, Derivation(T, D), NEW n, NEW v, Follows(T, n, v, Pairs(D))
  PROVE  LET E == Append(D, [node |-> n, value |-> v])
         IN Derivation(T, E) /\ Pairs(E) = Pairs(D) \union {[node |-> n, value |-> v]}
<1> DEFINE p == [node |-> n, value |-> v]
           E == Append(D, p)
<1>1. Sequence(D)
  BY DEF Derivation
<1>0. p.node = n /\ p.value = v /\ p = [node |-> p.node, value |-> p.value]
  OBVIOUS
<1> HIDE DEF p
<1>2. /\ Sequence(E) /\ Len(D) \in Nat /\ Len(E) = Len(D) + 1
      /\ \A i \in 1..(Len(D) + 1) : E[i] = IF i = Len(D) + 1 THEN p ELSE D[i]
  BY <1>1, Pushed
<1> HIDE DEF E
<1>3. Pairs(E) = Pairs(D) \union {p}
  BY <1>2 DEF Pairs
<1>4. ASSUME NEW i \in 1..Len(E)
      PROVE  /\ E[i] = [node |-> E[i].node, value |-> E[i].value]
             /\ Follows(T, E[i].node, E[i].value, Before(E, i))
  <2>1. CASE i = Len(D) + 1
    <3>1. Before(E, i) = Pairs(D) /\ E[i] = p
      BY <1>2, <2>1 DEF Before, Pairs
    <3>2. QED
      BY <1>0, <3>1
  <2>2. CASE i # Len(D) + 1
    <3>1. i \in 1..Len(D) /\ E[i] = D[i]
      BY <1>2, <2>2
    <3>2. Before(E, i) = Before(D, i)
      BY <1>2, <3>1 DEF Before
    <3>3. QED
      BY <3>1, <3>2 DEF Derivation
  <2>3. QED
    BY <2>1, <2>2
<1>5. Derivation(T, E)
  BY <1>2, <1>4 DEF Derivation
<1>6. QED
  BY <1>3, <1>5 DEF E, p

\* Nothing is gathered at first.
LEMMA GatheredFirst ==
  ASSUME NEW T, NEW n, NEW S
  PROVE  Gathered(T, n, 0, <<>>, S)
<1>1. Here(T, n, 0) = {} /\ Sequence(<<>>) /\ Len(<<>>) = 0
  BY DEF Here, Sequence
<1>2. Kept(T, n, 0, <<>>, S)
  <2> DEFINE at == [i \in {} |-> 1]
  <2>1. at \in [1..Len(<<>>) -> Here(T, n, 0)]
    BY <1>1
  <2>2. QED
    BY <1>1, <2>1 DEF Kept
<1>3. Claims(T, n, 0, <<>>, S)
  <2>1. <<>> = [k \in DOMAIN <<>> |-> <<>>[k]] /\ DOMAIN <<>> = {}
    OBVIOUS
  <2>2. QED
    BY <1>1, <2>1 DEF Claims
<1>4. QED
  BY <1>2, <1>3 DEF Gathered

\* The places up to m, and m.
LEMMA OneMore ==
  ASSUME NEW T, NEW n, NEW m \in Nat \ {0}
  PROVE  /\ Shown(T, n, m) => Here(T, n, m) = Here(T, n, m - 1) \union {m}
         /\ ~Shown(T, n, m) => Here(T, n, m) = Here(T, n, m - 1)
         /\ \A i \in Here(T, n, m - 1) : i \in Nat /\ i < m
<1>1. 1..m = (1..(m - 1)) \union {m} /\ \A i \in 1..(m - 1) : i \in Nat /\ i < m
  OBVIOUS
<1>2. QED
  BY <1>1 DEF Here

\* A place that shows nothing adds nothing.
LEMMA GatheredAsBefore ==
  ASSUME NEW T, NEW n, NEW m \in Nat \ {0}, NEW out, NEW S,
         Gathered(T, n, m - 1, out, S), ~Shown(T, n, m)
  PROVE  Gathered(T, n, m, out, S)
<1>1. Here(T, n, m) = Here(T, n, m - 1)
  BY OneMore
<1>2. Fits(T, n, m)
  BY DEF Fits, Shown
<1>3. \A i \in 1..m : Fits(T, n, i)
  <2>1. \A i \in 1..m : i \in 1..(m - 1) \/ i = m
    OBVIOUS
  <2>2. QED
    BY <1>2, <2>1 DEF Gathered
<1>4. Kept(T, n, m - 1, out, S) => Kept(T, n, m, out, S)
  BY <1>1 DEF Kept
<1>5. Claims(T, n, m - 1, out, S) => Claims(T, n, m, out, S)
  BY <1>1 DEF Claims
<1>6. QED
  BY <1>3, <1>4, <1>5 DEF Gathered

\* An item that is shown is added to a list,
LEMMA KeptMore ==
  ASSUME NEW T, NEW n, NEW m \in Nat \ {0}, NEW out, NEW S,
         Kept(T, n, m - 1, out, S), Shown(T, n, m),
         NEW v, Gives(S, Within(T, n, m), v)
  PROVE  Kept(T, n, m, Append(out, v), S)
<1> DEFINE H == Here(T, n, m - 1)
           G == Here(T, n, m)
           o == Append(out, v)
           l == Len(out)
           W(p) == Within(T, n, p)
<1>1. G = H \union {m} /\ \A i \in H : i \in Nat /\ i < m
  BY OneMore
<1>2. /\ Sequence(o) /\ l \in Nat /\ Len(o) = l + 1
      /\ \A i \in 1..(l + 1) : o[i] = IF i = l + 1 THEN v ELSE out[i]
  BY Pushed DEF Kept
<1>3. PICK at \in [1..l -> H] :
        /\ \A i, j \in 1..l : i < j => at[i] < at[j]
        /\ \A p \in H : \E i \in 1..l : at[i] = p
        /\ \A i \in 1..l : Gives(S, W(at[i]), out[i])
  BY DEF Kept
<1>4. Gives(S, W(m), v)
  OBVIOUS
<1> HIDE DEF H, G, o, l, W
<1> DEFINE to == [i \in 1..(l + 1) |-> IF i = l + 1 THEN m ELSE at[i]]
<1>5. to \in [1..(l + 1) -> G]
  BY <1>1, <1>2, <1>3
<1>6. /\ to[l + 1] = m /\ \A i \in 1..l : to[i] = at[i] /\ at[i] \in H
      /\ \A i \in 1..(l + 1) : i = l + 1 \/ i \in 1..l
  BY <1>2, <1>3
<1> HIDE DEF to
<1>7. \A i, j \in 1..(l + 1) : i < j => to[i] < to[j]
  <2> SUFFICES ASSUME NEW i \in 1..(l + 1), NEW j \in 1..(l + 1), i < j
               PROVE  to[i] < to[j]
    OBVIOUS
  <2>1. i \in 1..l /\ to[i] = at[i] /\ at[i] \in H
    BY <1>2, <1>6
  <2>2. CASE j = l + 1
    BY <1>1, <1>6, <2>1, <2>2
  <2>3. CASE j \in 1..l
    BY <1>3, <1>6, <2>1, <2>3
  <2>4. QED
    BY <1>6, <2>2, <2>3
<1>8. \A p \in G : \E i \in 1..(l + 1) : to[i] = p
  <2> SUFFICES ASSUME NEW p \in G PROVE \E i \in 1..(l + 1) : to[i] = p
    OBVIOUS
  <2>0. l + 1 \in 1..(l + 1) /\ \A i \in 1..l : i \in 1..(l + 1)
    BY <1>2
  <2>1. CASE p = m
    BY <1>6, <2>0, <2>1
  <2>2. CASE p \in H
    <3>1. PICK i \in 1..l : at[i] = p
      BY <1>3, <2>2
    <3>2. QED
      BY <1>6, <2>0, <3>1
  <2>3. QED
    BY <1>1, <2>1, <2>2
<1>9. \A i \in 1..(l + 1) : Gives(S, W(to[i]), o[i])
  <2> SUFFICES ASSUME NEW i \in 1..(l + 1) PROVE Gives(S, W(to[i]), o[i])
    OBVIOUS
  <2>1. CASE i = l + 1
    BY <1>2, <1>4, <1>6, <2>1
  <2>2. CASE i # l + 1
    <3>1. i \in 1..l /\ to[i] = at[i] /\ o[i] = out[i]
      BY <1>2, <1>6, <2>2
    <3>2. QED
      BY <1>3, <3>1
  <2>3. QED
    BY <2>1, <2>2
<1>10. QED
  BY <1>2, <1>5, <1>7, <1>8, <1>9 DEF Kept, G, o, W

\* and a member or a disclosed property to an object that has none of its name.
LEMMA ClaimsMore ==
  ASSUME NEW T, NEW n, NEW m \in Nat \ {0}, NEW out, NEW S,
         Claims(T, n, m - 1, out, S), Shown(T, n, m), Name(T, n, m) \notin DOMAIN out,
         NEW v, Gives(S, Within(T, n, m), v)
  PROVE  Claims(T, n, m, Put(out, Name(T, n, m), v), S)
<1> DEFINE H == Here(T, n, m - 1)
           G == Here(T, n, m)
           k == Name(T, n, m)
           o == Put(out, k, v)
           W(p) == Within(T, n, p)
           K(p) == Name(T, n, p)
<1>1. G = H \union {m} /\ k = K(m) /\ Gives(S, W(m), v)
  BY OneMore
<1>2. /\ DOMAIN out = {K(i) : i \in H} /\ k \notin DOMAIN out
      /\ \A i, j \in H : K(i) = K(j) => i = j
      /\ \A i \in H : Gives(S, W(i), out[K(i)])
  BY DEF Claims
<1>3. /\ o = [x \in DOMAIN o |-> o[x]] /\ DOMAIN o = DOMAIN out \union {k}
      /\ o[k] = v /\ \A x \in DOMAIN out : x # k => o[x] = out[x]
  BY DEF Put
<1> HIDE DEF H, G, k, o, W, K
<1>4. DOMAIN o = {K(i) : i \in G}
  BY <1>1, <1>2, <1>3
<1>5. \A i \in H : K(i) \in DOMAIN out /\ K(i) # k
  BY <1>2
<1>6. \A i, j \in G : K(i) = K(j) => i = j
  BY <1>1, <1>2, <1>5
<1>7. \A i \in G : Gives(S, W(i), o[K(i)])
  <2> SUFFICES ASSUME NEW i \in G PROVE Gives(S, W(i), o[K(i)])
    OBVIOUS
  <2>1. CASE i = m
    BY <1>1, <1>3, <2>1
  <2>2. CASE i \in H
    <3>1. o[K(i)] = out[K(i)]
      BY <1>3, <1>5, <2>2
    <3>2. QED
      BY <1>2, <2>2, <3>1
  <2>3. QED
    BY <1>1, <2>1, <2>2
<1>8. QED
  BY <1>3, <1>4, <1>6, <1>7 DEF Claims, G, k, o, W, K

\* One place more is gathered.
LEMMA GatheredMore ==
  ASSUME NEW T, NEW n, n.t \in {"list", "object"}, NEW m \in Nat \ {0}, NEW out, NEW S,
         Gathered(T, n, m - 1, out, S), Shown(T, n, m), Fits(T, n, m),
         n.t = "object" => Name(T, n, m) \notin DOMAIN out,
         NEW v, Gives(S, Within(T, n, m), v)
  PROVE  Gathered(T, n, m,
                  IF n.t = "list" THEN Append(out, v) ELSE Put(out, Name(T, n, m), v), S)
<1>1. \A i \in 1..m : Fits(T, n, i)
  <2>1. \A i \in 1..m : i \in 1..(m - 1) \/ i = m
    OBVIOUS
  <2>2. QED
    BY <2>1 DEF Gathered
<1>2. CASE n.t = "list"
  <2>1. Kept(T, n, m, Append(out, v), S)
    BY <1>2, KeptMore DEF Gathered
  <2>2. QED
    BY <1>1, <1>2, <2>1 DEF Gathered
<1>3. CASE n.t = "object"
  <2>1. Claims(T, n, m, Put(out, Name(T, n, m), v), S)
    BY <1>3, ClaimsMore DEF Gathered
  <2>2. QED
    BY <1>1, <1>3, <2>1 DEF Gathered
<1>4. QED
  BY <1>2, <1>3

-----------------------------------------------------------------------------
(* The walks on the stack are a derivation in the making.                   *)

\* A node as the walk sees it.
Shaped(n) ==
  /\ n.t \in {"leaf", "list", "object"} /\ Places(n) \in Nat
  /\ n.t = "list" =>
       /\ Len(n.items) \in Nat /\ \A i \in 1..Len(n.items) : n.items[i] \in Nodes
  /\ n.t = "object" =>
       /\ Len(n.members) \in Nat /\ \A i \in 1..Len(n.members) : n.members[i].v \in Nodes
       /\ \A i, j \in 1..Len(n.members) : n.members[i].k = n.members[j].k => i = j
       /\ n.sd # NotAList =>
            Len(n.sd) \in Nat /\ \A i \in 1..Len(n.sd) : n.sd[i] # Nothing

\* f has gathered the places that it has passed.
Frame(T, f, S) ==
  /\ Shaped(f.node) /\ f.at \in 1..(Places(f.node) + 1)
  /\ Gathered(T, f.node, f.at - 1, f.out, S)

\* f can take the value of what stands at its place, and what that is.
Waits(T, f) ==
  /\ f.at \in 1..Places(f.node) /\ Shown(T, f.node, f.at) /\ Fits(T, f.node, f.at)
  /\ f.node.t \in {"list", "object"}
  /\ f.node.t = "object" => Name(T, f.node, f.at) \notin DOMAIN f.out
Wanted(T, f) == Plain(Within(T, f.node, f.at))

\* What the (n + 1)-th walk on s is of, or the last value.
Goal(T, s, p, n) == IF n = 0 THEN Plain(p) ELSE Wanted(T, s[n])

Tracing(T, s, v, p, D) ==
  /\ Derivation(T, D)
  /\ \A n \in 1..Len(s) : Frame(T, s[n], Pairs(D)) /\ s[n].node = Goal(T, s, p, n - 1)
  /\ \A n \in 1..Len(s) : n < Len(s) \/ v # <<>> => Waits(T, s[n])
  /\ v # <<>> => [node |-> Goal(T, s, p, Len(s)), value |-> v[1]] \in Pairs(D)

\* What has been passed, or derived, has its digests in M.
Counting(s, D, M) ==
  /\ \A p \in Pairs(D) : Met(M, p.node, Places(p.node))
  /\ \A n \in 1..Len(s) : Met(M, s[n].node, s[n].at - 1)

\* The table is the one of the disclosures presented.
IsTable(T, ds) ==
  /\ DOMAIN T = {ds[i].digest : i \in DOMAIN ds}
  /\ \A i \in DOMAIN ds : T[ds[i].digest] = ds[i] /\ ds[i].form # "malformed"

Tabled ==
  /\ token \in Presentations
  /\ phase \in {"walk", "resolved"} => IsTable(by_digest, token.disclosures)

Traced ==
  phase \in {"walk", "resolved"} =>
    \E D : Tracing(by_digest, stack, value, token.payload, D) /\ Counting(stack, D, seen)

\* Nothing that was presented is left over.
Used == phase = "resolved" => DOMAIN by_digest \subseteq used

LEMMA NodesAreShaped ==
  ASSUME NEW n \in Nodes
  PROVE  Shaped(Plain(n))
<1>1. CASE n.t = "placeholder"
  <2> DEFINE ms == <<[k |-> "...", v |-> Leaf(n.digest)]>>
  <2>1. Plain(n) = [t |-> "object", members |-> ms, sd |-> <<>>]
    BY <1>1 DEF Plain, Object
  <2>2. Len(ms) = 1 /\ ms[1].v \in Nodes /\ Len(<<>>) = 0
    BY <1>1, NodesAssumption
  <2> DEFINE q == Plain(n)
  <2>3. q.t = "object" /\ q.members = ms /\ q.sd = <<>>
    BY <2>1
  <2> HIDE DEF ms, q
  <2>4. Places(q) \in Nat
    BY <2>2, <2>3 DEF Places
  <2>5. \A i \in 1..Len(q.members) : i = 1
    <3>1. Len(q.members) = 1
      BY <2>2, <2>3
    <3>2. QED
      BY <3>1
  <2>6. Shaped(q)
    BY <2>2, <2>3, <2>4, <2>5 DEF Shaped
  <2>7. QED
    BY <2>6 DEF q
<1>2. CASE n.t # "placeholder"
  <2>1. Plain(n) = n
    BY <1>2 DEF Plain
  <2>2. n.t \in {"leaf", "list", "object"}
    BY <1>2, NodesAssumption
  <2>3. /\ n.t = "list" =>
             Len(n.items) \in Nat /\ \A i \in 1..Len(n.items) : n.items[i] \in Nodes
        /\ n.t = "object" =>
             /\ Len(n.members) \in Nat
             /\ \A i \in 1..Len(n.members) : n.members[i].v \in Nodes
             /\ \A i, j \in 1..Len(n.members) : n.members[i].k = n.members[j].k => i = j
             /\ n.sd # NotAList =>
                  Len(n.sd) \in Nat /\ \A i \in 1..Len(n.sd) : n.sd[i] # Nothing
    BY NodesAssumption
  <2>4. Places(n) \in Nat
    <3>1. /\ n.t = "list" => Len(n.items) \in Nat
          /\ n.t = "object" =>
               Len(n.members) \in Nat /\ (n.sd # NotAList => Len(n.sd) \in Nat)
      BY <2>3
    <3> DEFINE a == Len(n.members)
               b == IF n.sd = NotAList THEN 0 ELSE Len(n.sd)
    <3>2. n.t = "object" => a \in Nat /\ b \in Nat
      BY <3>1
    <3> HIDE DEF a, b
    <3>3. Places(n) = IF n.t = "list" THEN Len(n.items) ELSE IF n.t = "object" THEN a + b ELSE 0
      BY DEF Places, a, b
    <3>4. n.t = "object" => a + b \in Nat
      BY <3>2
    <3>5. QED
      BY <3>1, <3>3, <3>4
  <2>5. Shaped(n)
    BY <2>2, <2>3, <2>4 DEF Shaped
  <2>6. QED
    BY <2>1, <2>5
<1>3. QED
  BY <1>1, <1>2

\* A walk begins.
LEMMA FrameFirst ==
  ASSUME NEW T, NEW n \in Nodes, NEW depth, NEW S
  PROVE  Frame(T, Walk(n, depth), S) /\ Walk(n, depth).node = Plain(n)
<1> DEFINE p == Plain(n)
           w == Walk(n, depth)
<1>1. w.node = p /\ w.at = 1 /\ w.out = <<>>
  BY DEF Walk
<1>2. Shaped(p) /\ Gathered(T, p, 0, <<>>, S)
  BY NodesAreShaped, GatheredFirst
<1> HIDE DEF w, p
<1>3. 1 \in 1..(Places(p) + 1) /\ 1 - 1 = 0
  BY <1>2 DEF Shaped
<1>4. Frame(T, w, S)
  BY <1>1, <1>2, <1>3 DEF Frame
<1>5. QED
  BY <1>1, <1>4 DEF w, p

\* A walk on top of one that waits for it.
LEMMA TracesPush ==
  ASSUME NEW T, NEW s, NEW p, NEW D, Sequence(s), s # <<>>,
         Tracing(T, s, <<>>, p, D), Waits(T, s[Len(s)]),
         NEW n \in Nodes, Plain(n) = Wanted(T, s[Len(s)]), NEW depth
  PROVE  Tracing(T, Append(s, Walk(n, depth)), <<>>, p, D)
<1> DEFINE w == Walk(n, depth)
           r == Append(s, w)
           l == Len(s)
<1>1. Frame(T, w, Pairs(D)) /\ w.node = Plain(n)
  BY FrameFirst
<1>0. l \in Nat \ {0}
  BY Popped
<1> HIDE DEF w
<1>2. /\ Len(r) = l + 1
      /\ \A k \in 1..(l + 1) : r[k] = IF k = l + 1 THEN w ELSE s[k]
  BY Pushed
<1> HIDE DEF r, l
<1>3. \A k \in 0..l : Goal(T, r, p, k) = Goal(T, s, p, k)
  <2> SUFFICES ASSUME NEW k \in 0..l PROVE Goal(T, r, p, k) = Goal(T, s, p, k)
    OBVIOUS
  <2>1. CASE k = 0
    BY <2>1 DEF Goal
  <2>2. CASE k # 0
    <3>1. k \in 1..(l + 1) /\ k # l + 1
      BY <1>0, <2>2
    <3>2. r[k] = s[k]
      BY <1>2, <3>1
    <3>3. QED
      BY <2>2, <3>2 DEF Goal
  <2>3. QED
    BY <2>1, <2>2
<1>4. ASSUME NEW k \in 1..Len(r)
      PROVE  Frame(T, r[k], Pairs(D)) /\ r[k].node = Goal(T, r, p, k - 1)
  <2>1. CASE k = l + 1
    <3>1. Goal(T, s, p, l) = Plain(n)
      BY <1>0 DEF Goal, l
    <3>2. QED
      BY <1>0, <1>1, <1>2, <1>3, <2>1, <3>1
  <2>2. CASE k # l + 1
    <3>1. k \in 1..l /\ r[k] = s[k] /\ k - 1 \in 0..l
      BY <1>0, <1>2, <2>2
    <3>2. QED
      BY <1>3, <3>1 DEF Tracing, l
  <2>3. QED
    BY <2>1, <2>2
<1>5. ASSUME NEW k \in 1..Len(r), k < Len(r)
      PROVE  Waits(T, r[k])
  <2>1. k \in 1..l /\ r[k] = s[k] /\ (k = l \/ k < l)
    BY <1>0, <1>2, <1>5
  <2>2. QED
    BY <2>1 DEF Tracing, l
<1>6. Tracing(T, r, <<>>, p, D)
  BY <1>4, <1>5 DEF Tracing
<1>7. QED
  BY <1>6 DEF r, w

\* The innermost walk has moved on.
LEMMA TracesMove ==
  ASSUME NEW T, NEW s, NEW v, NEW p, NEW D, Sequence(s), s # <<>>,
         Tracing(T, s, v, p, D),
         NEW f, f.node = s[Len(s)].node, Frame(T, f, Pairs(D))
  PROVE  Tracing(T, Append(SubSeq(s, 1, Len(s) - 1), f), <<>>, p, D)
<1> DEFINE r == Append(SubSeq(s, 1, Len(s) - 1), f)
           l == Len(s)
<1>1. /\ l \in Nat \ {0} /\ Len(r) = l
      /\ \A k \in 1..l : r[k] = IF k = l THEN f ELSE s[k]
  BY Replaced
<1> HIDE DEF r, l
<1>2. \A k \in 1..l : Goal(T, r, p, k - 1) = Goal(T, s, p, k - 1)
  <2> SUFFICES ASSUME NEW k \in 1..l PROVE Goal(T, r, p, k - 1) = Goal(T, s, p, k - 1)
    OBVIOUS
  <2>1. CASE k = 1
    BY <2>1 DEF Goal
  <2>2. CASE k # 1
    <3>1. k - 1 \in 1..l /\ k - 1 # l
      BY <1>1, <2>2
    <3>2. r[k - 1] = s[k - 1]
      BY <1>1, <3>1
    <3>3. QED
      BY <3>2 DEF Goal
  <2>3. QED
    BY <2>1, <2>2
<1>3. ASSUME NEW k \in 1..Len(r)
      PROVE  Frame(T, r[k], Pairs(D)) /\ r[k].node = Goal(T, r, p, k - 1)
  <2>1. k \in 1..l /\ Frame(T, s[k], Pairs(D)) /\ s[k].node = Goal(T, s, p, k - 1)
    BY <1>1 DEF Tracing, l
  <2>2. QED
    BY <1>1, <1>2, <2>1 DEF l
<1>4. ASSUME NEW k \in 1..Len(r), k < Len(r)
      PROVE  Waits(T, r[k])
  <2>1. k \in 1..l /\ k < l /\ r[k] = s[k]
    BY <1>1, <1>4
  <2>2. QED
    BY <2>1 DEF Tracing, l
<1>5. Tracing(T, r, <<>>, p, D)
  BY <1>3, <1>4 DEF Tracing
<1>6. QED
  BY <1>5 DEF r

\* The innermost walk has returned v.
LEMMA TracesPop ==
  ASSUME NEW T, NEW s, NEW p, NEW D, Sequence(s), s # <<>>,
         Tracing(T, s, <<>>, p, D), NEW v,
         Follows(T, s[Len(s)].node, v, Pairs(D))
  PROVE  \E E : /\ Tracing(T, SubSeq(s, 1, Len(s) - 1), <<v>>, p, E)
                /\ Pairs(E) = Pairs(D) \union {[node |-> s[Len(s)].node, value |-> v]}
<1> DEFINE r == SubSeq(s, 1, Len(s) - 1)
           l == Len(s)
           e == [node |-> s[Len(s)].node, value |-> v]
           E == Append(D, e)
<1>1. /\ l \in Nat \ {0} /\ Len(r) = l - 1
      /\ \A k \in 1..Len(r) : r[k] = s[k]
  BY Popped
<1>2. Derivation(T, E) /\ Pairs(E) = Pairs(D) \union {e}
  BY Derives DEF Tracing
<1>3. e = [node |-> Goal(T, s, p, l - 1), value |-> v]
  BY <1>1 DEF Tracing
<1> HIDE DEF r, l, e, E
<1>4. \A k \in 0..(l - 1) : Goal(T, r, p, k) = Goal(T, s, p, k)
  <2> SUFFICES ASSUME NEW k \in 0..(l - 1) PROVE Goal(T, r, p, k) = Goal(T, s, p, k)
    OBVIOUS
  <2>1. CASE k = 0
    BY <2>1 DEF Goal
  <2>2. CASE k # 0
    <3>1. k \in 1..Len(r)
      BY <1>1, <2>2
    <3>2. r[k] = s[k]
      BY <1>1, <3>1
    <3>3. QED
      BY <3>2 DEF Goal
  <2>3. QED
    BY <2>1, <2>2
<1>5. ASSUME NEW k \in 1..Len(r)
      PROVE  Frame(T, r[k], Pairs(E)) /\ r[k].node = Goal(T, r, p, k - 1) /\ Waits(T, r[k])
  <2>1. k \in 1..l /\ k < l /\ r[k] = s[k] /\ k - 1 \in 0..(l - 1)
    BY <1>1
  <2>2. Frame(T, s[k], Pairs(D)) /\ s[k].node = Goal(T, s, p, k - 1) /\ Waits(T, s[k])
    BY <2>1 DEF Tracing, l
  <2>3. Frame(T, s[k], Pairs(E))
    BY <1>2, <2>2, Monotone DEF Frame
  <2>4. QED
    BY <1>4, <2>1, <2>2, <2>3
<1>6. [node |-> Goal(T, r, p, Len(r)), value |-> v] \in Pairs(E)
  BY <1>1, <1>2, <1>3, <1>4
<1>7. Tracing(T, r, <<v>>, p, E)
  <2>1. <<v>>[1] = v
    OBVIOUS
  <2>2. QED
    BY <1>2, <1>5, <1>6, <2>1 DEF Tracing
<1>8. QED
  BY <1>2, <1>7 DEF r, e

\* The census is as complete on a longer stack,
LEMMA CountsPush ==
  ASSUME NEW s, Sequence(s), NEW D, NEW M, NEW N, M \subseteq N, Counting(s, D, M),
         NEW f, f.at = 1
  PROVE  Counting(Append(s, f), D, N)
<1>1. /\ Len(s) \in Nat /\ Len(Append(s, f)) = Len(s) + 1
      /\ \A k \in 1..(Len(s) + 1) : Append(s, f)[k] = IF k = Len(s) + 1 THEN f ELSE s[k]
  BY Pushed
<1>2. Met(N, f.node, f.at - 1)
  BY DEF Met
<1>3. \A k \in 1..(Len(s) + 1) : k \in 1..Len(s) \/ k = Len(s) + 1
  BY <1>1
<1>4. QED
  BY <1>1, <1>2, <1>3 DEF Counting, Met

\* when the innermost walk passes a place whose digest is counted,
LEMMA CountsMove ==
  ASSUME NEW s, Sequence(s), s # <<>>, NEW D, NEW M, NEW N, M \subseteq N, Counting(s, D, M),
         NEW i \in Nat \ {0}, i = s[Len(s)].at, Met(N, s[Len(s)].node, i - 1) => Met(N, s[Len(s)].node, i),
         NEW f, f.node = s[Len(s)].node, f.at = i + 1
  PROVE  Counting(Append(SubSeq(s, 1, Len(s) - 1), f), D, N)
<1> DEFINE r == Append(SubSeq(s, 1, Len(s) - 1), f)
           l == Len(s)
<1>1. /\ l \in Nat \ {0} /\ Len(r) = l
      /\ \A k \in 1..l : r[k] = IF k = l THEN f ELSE s[k]
  BY Replaced
<1>2. \A k \in 1..l : Met(N, s[k].node, s[k].at - 1)
  BY DEF Counting, Met
<1>3. Met(N, f.node, f.at - 1)
  <2>1. l \in 1..l /\ i + 1 - 1 = i
    BY <1>1
  <2>2. QED
    BY <1>2, <2>1
<1> HIDE DEF r, l
<1>4. \A k \in 1..Len(r) : Met(N, r[k].node, r[k].at - 1)
  BY <1>1, <1>2, <1>3
<1>5. \A p \in Pairs(D) : Met(N, p.node, Places(p.node))
  BY DEF Counting, Met
<1>6. Counting(r, D, N)
  BY <1>4, <1>5 DEF Counting
<1>7. QED
  BY <1>6 DEF r

\* and when it returns, all its places passed.
LEMMA CountsPop ==
  ASSUME NEW s, Sequence(s), s # <<>>, NEW D, NEW E, NEW M, Counting(s, D, M), NEW v,
         s[Len(s)].at - 1 = Places(s[Len(s)].node),
         Pairs(E) = Pairs(D) \union {[node |-> s[Len(s)].node, value |-> v]}
  PROVE  Counting(SubSeq(s, 1, Len(s) - 1), E, M)
<1> DEFINE r == SubSeq(s, 1, Len(s) - 1)
           l == Len(s)
           e == [node |-> s[Len(s)].node, value |-> v]
<1>1. l \in Nat \ {0} /\ Len(r) = l - 1 /\ \A k \in 1..Len(r) : r[k] = s[k]
  BY Popped
<1>2. e.node = s[l].node
  OBVIOUS
<1>3. Met(M, e.node, Places(e.node))
  <2>1. l \in 1..l
    BY <1>1
  <2>2. QED
    BY <1>2, <2>1 DEF Counting
<1> HIDE DEF r, e
<1>4. \A p \in Pairs(E) : Met(M, p.node, Places(p.node))
  BY <1>3 DEF Counting, e
<1>5. \A k \in 1..Len(r) : Met(M, r[k].node, r[k].at - 1)
  BY <1>1 DEF Counting
<1>6. Counting(r, E, M)
  BY <1>4, <1>5 DEF Counting
<1>7. QED
  BY <1>6 DEF r

LEMMA PlacesOfAnObject ==
  ASSUME NEW n, Shaped(n), n.t = "object"
  PROVE  /\ Len(n.members) \in Nat
         /\ n.sd = NotAList => Places(n) = Len(n.members)
         /\ n.sd # NotAList => Len(n.sd) \in Nat /\ Places(n) = Len(n.members) + Len(n.sd)
<1>1. Len(n.members) \in Nat /\ (n.sd # NotAList => Len(n.sd) \in Nat)
  BY DEF Shaped
<1>2. CASE n.sd = NotAList
  <2>1. Places(n) = Len(n.members) + 0
    BY <1>2 DEF Places
  <2>2. QED
    BY <1>1, <1>2, <2>1
<1>3. CASE n.sd # NotAList
  <2>1. Places(n) = Len(n.members) + Len(n.sd)
    BY <1>3 DEF Places
  <2>2. QED
    BY <1>1, <1>3, <2>1
<1>4. QED
  BY <1>2, <1>3

\* At a place of its node, a walk meets the digest that stands there or walks the
\* item or member.
LEMMA AtAPlace ==
  ASSUME NEW T, NEW f, Shaped(f.node), f.at \in 1..Places(f.node)
  PROVE  /\ f.node.t \in {"list", "object"}
         /\ Digest(f) = DigestAt(f.node, f.at)
         /\ DigestAt(f.node, f.at) = Nothing =>
              /\ Child(f) = Within(T, f.node, f.at) /\ Child(f) \in Nodes
              /\ f.node.t = "object" => f.at \in 1..Len(f.node.members)
<1> DEFINE n == f.node
           i == f.at
<1>1. n.t \in {"list", "object"} /\ i \in Nat \ {0}
  <2>1. n.t \in {"leaf", "list", "object"} /\ Places(n) \in Nat /\ i \in 1..Places(n)
    BY DEF Shaped
  <2>2. i \in Nat \ {0} /\ Places(n) # 0
    BY <2>1
  <2>3. n.t = "leaf" => Places(n) = 0
    BY DEF Places
  <2>4. QED
    BY <2>1, <2>2, <2>3
<1>2. CASE n.t = "list"
  <2>1. Len(n.items) \in Nat /\ i \in 1..Len(n.items) /\ n.items[i] \in Nodes
    BY <1>2 DEF Shaped, Places
  <2>2. n.items[i].t = "placeholder" => n.items[i].digest # Nothing
    BY <2>1, NodesAssumption
  <2>3. Asks(f) <=> n.items[i].t = "placeholder"
    BY <1>2, <2>1 DEF Asks
  <2>4. Digest(f) = DigestAt(n, i)
    BY <1>2, <2>3 DEF Digest, DigestAt
  <2>5. DigestAt(n, i) = Nothing => Child(f) = n.items[i] /\ Within(T, n, i) = n.items[i]
    BY <1>2, <2>1, <2>4 DEF Child, Within
  <2>6. QED
    BY <1>1, <1>2, <2>1, <2>4, <2>5
<1>3. CASE n.t = "object" /\ i <= Len(n.members)
  <2>1. Len(n.members) \in Nat /\ i \in 1..Len(n.members) /\ n.members[i].v \in Nodes
    BY <1>1, <1>3 DEF Shaped
  <2>2. ~(i > Len(n.members))
    BY <1>1, <1>3, <2>1
  <2>3. Digest(f) = Nothing /\ DigestAt(n, i) = Nothing
    BY <1>3, <2>2 DEF Digest, Asks, DigestAt
  <2>4. Child(f) = n.members[i].v /\ Within(T, n, i) = n.members[i].v
    BY <1>3, <2>2, <2>3 DEF Child, Within
  <2>5. QED
    BY <1>1, <1>3, <2>1, <2>3, <2>4
<1>4. CASE n.t = "object" /\ ~(i <= Len(n.members))
  <2>1. Len(n.members) \in Nat
    BY <1>4 DEF Shaped
  <2>2. i > Len(n.members)
    <3> DEFINE l == Len(n.members)
               j == i
    <3>1. l \in Nat /\ j \in Nat /\ ~(j <= l)
      BY <1>1, <1>4, <2>1
    <3> HIDE DEF l, j
    <3>2. j > l
      BY <3>1
    <3>3. QED
      BY <3>2 DEF j, l
  <2>3. n.sd # NotAList /\ Len(n.sd) \in Nat /\ Places(n) = Len(n.members) + Len(n.sd)
    <3>1. i \in 1..Places(n)
      OBVIOUS
    <3>2. Places(n) # Len(n.members)
      BY <1>1, <2>1, <2>2, <3>1
    <3>3. QED
      BY <1>4, <3>2, PlacesOfAnObject
  <2>4. i - Len(n.members) \in 1..Len(n.sd)
    <3> DEFINE l == Len(n.members)
               k == Len(n.sd)
               j == i
    <3>1. l \in Nat /\ k \in Nat /\ j \in Nat /\ j > l
      BY <1>1, <2>1, <2>2, <2>3
    <3>2. j \in 1..(l + k)
      BY <2>3
    <3> HIDE DEF l, k, j
    <3>3. j - l \in 1..k
      BY <3>1, <3>2
    <3>4. QED
      BY <3>3 DEF l, k, j
  <2>5. n.sd[i - Len(n.members)] # Nothing
    BY <1>4, <2>3, <2>4 DEF Shaped
  <2>6. Asks(f)
    BY <1>4, <2>2, <2>3, <2>4 DEF Asks
  <2>7. Digest(f) = n.sd[i - Len(n.members)] /\ DigestAt(n, i) = n.sd[i - Len(n.members)]
    BY <1>4, <2>2, <2>6 DEF Digest, DigestAt
  <2>8. QED
    BY <1>1, <2>5, <2>7
<1>5. QED
  BY <1>1, <1>2, <1>3, <1>4

\* A walk that has nothing to meet or to walk has passed every place.
LEMMA Through ==
  ASSUME NEW f, Shaped(f.node), f.at \in 1..(Places(f.node) + 1),
         Child(f) = Nothing, Digest(f) = Nothing
  PROVE  f.at - 1 = Places(f.node)
<1>1. Places(f.node) \in Nat
  BY DEF Shaped
<1>2. f.at \notin 1..Places(f.node)
  <2> SUFFICES ASSUME f.at \in 1..Places(f.node) PROVE FALSE
    OBVIOUS
  <2>1. Child(f) \in Nodes
    BY AtAPlace
  <2>2. QED
    BY <2>1, NodesAssumption
<1>3. QED
  BY <1>1, <1>2

\* A walk that is not through is at a place.
LEMMA NotThrough ==
  ASSUME NEW f, Shaped(f.node), f.at \in 1..(Places(f.node) + 1),
         Child(f) # Nothing \/ Digest(f) # Nothing
  PROVE  f.at \in 1..Places(f.node)
<1> DEFINE n == f.node
           i == f.at
<1>1. Places(n) \in Nat
  BY DEF Shaped
<1> SUFFICES ASSUME i = Places(n) + 1 PROVE FALSE
  BY <1>1
<1>2. n.t \in {"leaf", "list", "object"}
  BY DEF Shaped
<1>3. CASE n.t = "leaf"
  <2>1. Digest(f) = Nothing
    BY <1>3 DEF Digest, Asks
  <2>2. Child(f) = Nothing
    BY <1>3 DEF Child
  <2>3. QED
    BY <2>1, <2>2
<1>4. CASE n.t = "list"
  <2>1. Len(n.items) \in Nat /\ i = Len(n.items) + 1
    BY <1>4 DEF Shaped, Places
  <2>2. ~(i <= Len(n.items))
    BY <2>1
  <2>3. Digest(f) = Nothing
    BY <1>4, <2>2 DEF Digest, Asks
  <2>4. Child(f) = Nothing
    BY <1>4, <2>2 DEF Child
  <2>5. QED
    BY <2>3, <2>4
<1>5. CASE n.t = "object"
  <2>1. /\ Len(n.members) \in Nat
        /\ n.sd = NotAList => i = Len(n.members) + 1
        /\ n.sd # NotAList => Len(n.sd) \in Nat /\ i = Len(n.members) + Len(n.sd) + 1
    BY <1>5, PlacesOfAnObject
  <2> DEFINE l == Len(n.members)
             k == Len(n.sd)
             j == i
             listed == n.sd # NotAList
  <2>a. /\ l \in Nat /\ (~listed => j = l + 1)
        /\ listed => k \in Nat /\ j = l + k + 1
    BY <2>1
  <2> HIDE DEF l, k, j, listed
  <2>b. j > l /\ (listed => ~(j - l <= k))
    BY <2>a
  <2>2. i > Len(n.members)
    BY <2>b DEF l, j
  <2>3. n.sd # NotAList => ~(i - Len(n.members) <= Len(n.sd))
    BY <2>b DEF l, k, j, listed
  <2>4. Digest(f) = Nothing
    BY <1>5, <2>3 DEF Digest, Asks
  <2>5. Child(f) = Nothing
    BY <1>5, <2>2 DEF Child
  <2>6. QED
    BY <2>4, <2>5
<1>6. QED
  BY <1>2, <1>3, <1>4, <1>5

\* A member comes under a name that no member before it has.
LEMMA MembersWait ==
  ASSUME NEW T, NEW S, NEW f, Frame(T, f, S), Child(f) # Nothing
  PROVE  /\ Waits(T, f) /\ Child(f) \in Nodes /\ Plain(Child(f)) = Wanted(T, f)
<1> DEFINE n == f.node
           i == f.at
<1>1. Shaped(n) /\ Gathered(T, n, i - 1, f.out, S) /\ i \in 1..Places(n)
  BY NotThrough DEF Frame
<1>2. Digest(f) = Nothing
  BY ChildrenAreNotAsked
<1>3. /\ n.t \in {"list", "object"} /\ DigestAt(n, i) = Nothing
      /\ Child(f) = Within(T, n, i) /\ Child(f) \in Nodes
      /\ n.t = "object" => i \in 1..Len(n.members)
  BY <1>1, <1>2, AtAPlace
<1>4. Shown(T, n, i) /\ Fits(T, n, i)
  BY <1>3 DEF Shown, Fits
<1>5. ASSUME n.t = "object" PROVE Name(T, n, i) \notin DOMAIN f.out
  <2>1. /\ DOMAIN f.out = {Name(T, n, j) : j \in Here(T, n, i - 1)}
        /\ Len(n.members) \in Nat /\ i \in 1..Len(n.members)
    BY <1>1, <1>3, <1>5 DEF Gathered, Claims, Shaped
  <2>2. ASSUME NEW j \in Here(T, n, i - 1)
        PROVE  Name(T, n, j) # Name(T, n, i)
    <3>1. j \in 1..Len(n.members) /\ j # i /\ ~(j > Len(n.members))
      BY <2>1 DEF Here
    <3>2. DigestAt(n, j) = Nothing
      BY <1>5, <3>1 DEF DigestAt
    <3>3. Name(T, n, j) = n.members[j].k /\ Name(T, n, i) = n.members[i].k
      BY <1>3, <3>2 DEF Name
    <3>4. QED
      BY <1>1, <1>5, <2>1, <3>1, <3>3 DEF Shaped
  <2>3. QED
    BY <2>1, <2>2
<1>6. QED
  BY <1>1, <1>3, <1>4, <1>5 DEF Waits, Wanted

\* A disclosure that may stand where its digest was met comes under a name of
\* its own.
LEMMA DisclosedWait ==
  ASSUME NEW S, NEW f, Frame(by_digest, f, S), Digest(f) # Nothing,
         Digest(f) \in DOMAIN by_digest, ~Misplaced(f)
  PROVE  Waits(by_digest, f) /\ Plain(by_digest[Digest(f)].value) = Wanted(by_digest, f)
<1> DEFINE n == f.node
           i == f.at
           T == by_digest
<1>1. Shaped(n) /\ i \in 1..Places(n)
  BY NotThrough DEF Frame
<1>2. n.t \in {"list", "object"} /\ DigestAt(n, i) = Digest(f)
  BY <1>1, AtAPlace
<1>3. Within(T, n, i) = T[Digest(f)].value /\ Name(T, n, i) = T[Digest(f)].name
  BY <1>2 DEF Within, Name
<1>4. /\ n.t = "list" => T[Digest(f)].form = "array"
      /\ n.t = "object" => /\ T[Digest(f)].form = "object"
                           /\ T[Digest(f)].name \notin {Mistyped, "_sd", "..."}
                           /\ T[Digest(f)].name \notin DOMAIN f.out
  BY <1>2 DEF Misplaced
<1>5. Shown(T, n, i) /\ Fits(T, n, i)
  BY <1>2, <1>4 DEF Shown, Fits
<1>6. QED
  BY <1>1, <1>2, <1>3, <1>4, <1>5 DEF Waits, Wanted

\* A walk that may go on and has nothing to meet or to walk returns what follows
\* from what it gathered.
LEMMA Returns ==
  ASSUME NEW T, NEW S, NEW f, Frame(T, f, S), ~Unlisted(f),
         Child(f) = Nothing, Digest(f) = Nothing
  PROVE  Follows(T, f.node, Result(f), S)
<1> DEFINE n == f.node
<1>1. Shaped(n) /\ f.at - 1 = Places(n) /\ Gathered(T, n, Places(n), f.out, S)
  BY Through DEF Frame
<1>2. n.t \in {"leaf", "list", "object"}
  BY <1>1 DEF Shaped
<1>3. CASE n.t = "leaf"
  BY <1>3 DEF Follows, Result
<1>4. CASE n.t = "list"
  BY <1>1, <1>4 DEF Follows, Result
<1>5. CASE n.t = "object"
  <2>1. Result(f) = [t |-> "object", members |-> f.out]
    BY <1>5 DEF Result
  <2>2. n.sd # NotAList
    <3> SUFFICES ASSUME n.sd = NotAList PROVE FALSE
      OBVIOUS
    <3>1. Len(n.members) \in Nat /\ f.at - 1 = Len(n.members) + 0 /\ f.at \in Int
      BY <1>1, <1>5 DEF Shaped, Places, Frame
    <3>2. f.at > Len(n.members)
      BY <3>1
    <3>3. QED
      BY <1>5, <3>2 DEF Unlisted
  <2>3. QED
    BY <1>1, <1>5, <2>1, <2>2 DEF Follows
<1>6. QED
  BY <1>2, <1>3, <1>4, <1>5

-----------------------------------------------------------------------------
(* Every step keeps the derivation.                                         *)

\* A place more is passed.
LEMMA MetMore ==
  ASSUME NEW M, NEW n, NEW i \in Nat \ {0}, NEW d, DigestAt(n, i) = d, d # Nothing => d \in M
  PROVE  Met(M, n, i - 1) => Met(M, n, i)
<1>1. \A j \in 1..i : j \in 1..(i - 1) \/ j = i
  OBVIOUS
<1>2. QED
  BY <1>1 DEF Met

\* The innermost walk is the last on the stack, and a frame.
LEMMA TopIsAFrame ==
  ASSUME Inv, stack # <<>>, NEW v, NEW D, Tracing(by_digest, stack, v, token.payload, D)
  PROVE  /\ Sequence(stack) /\ Len(stack) \in Nat \ {0} /\ Top = stack[Len(stack)]
         /\ Frame(by_digest, Top, Pairs(D)) /\ DOMAIN Top = Fields
<1>1. Sequence(stack)
  BY DEF Inv, Deep
<1>2. Len(stack) \in Nat \ {0}
  BY <1>1, Popped
<1>3. Len(stack) \in 1..Len(stack)
  BY <1>2
<1>4. Frame(by_digest, stack[Len(stack)], Pairs(D))
  BY <1>3 DEF Tracing
<1>5. DOMAIN Top = Fields
  BY TopIsAWalk DEF Inv
<1>6. QED
  BY <1>1, <1>2, <1>4, <1>5 DEF Top

\* What a disclosure stands for is a node.
LEMMA DisclosedAreNodes ==
  ASSUME Tabled, phase \in {"walk", "resolved"}, NEW d \in DOMAIN by_digest
  PROVE  by_digest[d].value \in Nodes
<1>1. PICK i \in DOMAIN token.disclosures : token.disclosures[i].digest = d
  BY DEF Tabled, IsTable
<1>2. by_digest[d] = token.disclosures[i] /\ token.disclosures[i].form # "malformed"
  BY <1>1 DEF Tabled, IsTable
<1>3. token.disclosures[i].value \in Nodes
  <2>1. token \in Presentations
    BY DEF Tabled
  <2>2. token.disclosures[i].value \in
          {token.disclosures[j].value :
             j \in {k \in DOMAIN token.disclosures : token.disclosures[k].form # "malformed"}}
    BY <1>2
  <2>3. QED
    BY <2>1, <2>2, NodesAssumption
<1>4. QED
  BY <1>2, <1>3

\* Index: the table, and the first walk.
LEMMA IndexTraces ==
  ASSUME Inv, Tabled, Index
  PROVE  Tabled' /\ Traced' /\ Used'
<1>1. phase = "index" /\ value = <<>> /\ UNCHANGED <<token, value>>
  BY DEF Index, Inv, Early
<1>2. CASE phase' = "refused"
  BY <1>1, <1>2 DEF Tabled, Traced, Used
<1>3. CASE phase' # "refused"
  <2> DEFINE ds == token.disclosures
  <2>1. /\ \A i \in DOMAIN ds : ds[i].form # "malformed"
        /\ \A i, j \in DOMAIN ds : ds[i].digest = ds[j].digest => i = j
        /\ by_digest' = [d \in {ds[i].digest : i \in DOMAIN ds} |->
                           ds[CHOOSE i \in DOMAIN ds : ds[i].digest = d]]
        /\ stack' = <<Walk(token.payload, 1)>> /\ phase' = "walk"
    BY <1>3 DEF Index, Indexes
  <2>2. IsTable(by_digest', ds)
    <3>1. ASSUME NEW i \in DOMAIN ds PROVE by_digest'[ds[i].digest] = ds[i]
      <4> DEFINE d == ds[i].digest
                 c == CHOOSE j \in DOMAIN ds : ds[j].digest = d
      <4>1. c \in DOMAIN ds /\ ds[c].digest = d
        OBVIOUS
      <4>2. c = i
        BY <2>1, <4>1
      <4>3. by_digest'[d] = ds[c]
        BY <2>1
      <4>4. QED
        BY <4>2, <4>3
    <3>2. DOMAIN by_digest' = {ds[i].digest : i \in DOMAIN ds}
      BY <2>1
    <3>3. QED
      BY <2>1, <3>1, <3>2 DEF IsTable
  <2>3. token.payload \in Nodes
    BY NodesAssumption DEF Tabled
  <2>4. Tracing(by_digest', stack', <<>>, token.payload, <<>>) /\ Counting(stack', <<>>, seen')
    <3> DEFINE w == Walk(token.payload, 1)
               D == <<>>
    <3>1. Frame(by_digest', w, Pairs(D)) /\ w.node = Plain(token.payload)
      BY <2>3, FrameFirst
    <3> HIDE DEF w
    <3>2. stack' = <<w>> /\ Len(<<w>>) = 1 /\ <<w>>[1] = w
      BY <2>1 DEF w
    <3>3. Derivation(by_digest', D)
      BY DEF Derivation, Sequence
    <3> HIDE DEF D
    <3>4. \A n \in 1..Len(stack') : n = 1 /\ stack'[n] = w /\ n - 1 = 0
      BY <3>2
    <3>5. \A n \in 1..Len(stack') :
            /\ Frame(by_digest', stack'[n], Pairs(D))
            /\ stack'[n].node = Goal(by_digest', stack', token.payload, n - 1)
      BY <3>1, <3>4 DEF Goal
    <3>6. \A n \in 1..Len(stack') : ~(n < Len(stack'))
      BY <3>2
    <3>7. Tracing(by_digest', stack', <<>>, token.payload, D)
      BY <3>3, <3>5, <3>6 DEF Tracing
    <3>8. Counting(stack', D, seen')
      <4>1. w.at = 1
        BY DEF w, Walk
      <4>2. \A n \in 1..Len(stack') : Met(seen', stack'[n].node, stack'[n].at - 1)
        BY <3>4, <4>1 DEF Met
      <4>3. Pairs(D) = {}
        BY DEF D, Pairs
      <4>4. QED
        BY <4>2, <4>3 DEF Counting
    <3>9. QED
      BY <3>7, <3>8 DEF D
  <2>5. QED
    BY <1>1, <2>1, <2>2, <2>4 DEF Tabled, Traced, Used
<1>4. QED
  BY <1>2, <1>3

\* YieldChild and YieldDisclosed: the child's walk begins.
LEMMA YieldTraces ==
  ASSUME Inv, Tabled, Traced, YieldChild \/ YieldDisclosed
  PROVE  Traced'
<1>1. phase = "walk" /\ value = <<>> /\ stack # <<>> /\ ~Refused(Top)
      /\ UNCHANGED <<token, by_digest, value, phase>>
  BY DEF YieldChild, YieldDisclosed, Walking
<1>2. PICK D : Tracing(by_digest, stack, <<>>, token.payload, D) /\ Counting(stack, D, seen)
  BY <1>1 DEF Traced
<1>3. /\ Sequence(stack) /\ Top = stack[Len(stack)] /\ Frame(by_digest, Top, Pairs(D))
  BY <1>1, <1>2, TopIsAFrame
<1>4. \E n \in Nodes : \E depth :
        /\ Waits(by_digest, Top) /\ Plain(n) = Wanted(by_digest, Top)
        /\ stack' = Append(stack, Walk(n, depth))
  <2>1. CASE YieldChild
    <3>1. Child(Top) # Nothing /\ stack' = Append(stack, Walk(Child(Top), Top.depth + 1))
      BY <2>1 DEF YieldChild
    <3>2. /\ Waits(by_digest, Top) /\ Child(Top) \in Nodes
          /\ Plain(Child(Top)) = Wanted(by_digest, Top)
      BY <1>3, <3>1, MembersWait
    <3>3. QED
      BY <3>1, <3>2
  <2>2. CASE YieldDisclosed
    <3> DEFINE d == Digest(Top)
    <3>1. /\ d # Nothing /\ d \in DOMAIN by_digest /\ ~Misplaced(Top)
          /\ stack' = Append(stack, Walk(by_digest[d].value, DisclosedDepth(Top)))
      BY <1>1, <2>2 DEF YieldDisclosed, Refused
    <3>2. Waits(by_digest, Top) /\ Plain(by_digest[d].value) = Wanted(by_digest, Top)
      BY <1>3, <3>1, DisclosedWait
    <3>3. by_digest[d].value \in Nodes
      BY <1>1, <3>1, DisclosedAreNodes
    <3>4. QED
      BY <3>1, <3>2, <3>3
  <2>3. QED
    BY <2>1, <2>2
<1>5. PICK n \in Nodes :
        \E depth :
          /\ Waits(by_digest, stack[Len(stack)])
          /\ Plain(n) = Wanted(by_digest, stack[Len(stack)])
          /\ stack' = Append(stack, Walk(n, depth))
  BY <1>3, <1>4
<1>6. Tracing(by_digest, stack', <<>>, token.payload, D)
  BY <1>1, <1>2, <1>3, <1>5, TracesPush
<1>7. Counting(stack', D, seen')
  <2>1. PICK depth : stack' = Append(stack, Walk(n, depth))
    BY <1>5
  <2>2. Walk(n, depth).at = 1
    BY DEF Walk
  <2>3. seen \subseteq seen'
    BY DEF YieldChild, YieldDisclosed, Meet
  <2>4. QED
    BY <1>2, <1>3, <2>1, <2>2, <2>3, CountsPush
<1>8. QED
  BY <1>1, <1>6, <1>7 DEF Traced

\* Skip: a digest that nothing discloses is passed.
LEMMA SkipTraces ==
  ASSUME Inv, Traced, Skip
  PROVE  Traced'
<1>1. /\ phase = "walk" /\ value = <<>> /\ stack # <<>>
      /\ Digest(Top) # Nothing /\ Digest(Top) \notin DOMAIN by_digest
      /\ stack' = Append(Below, Advanced)
      /\ UNCHANGED <<token, by_digest, value, phase>>
  BY DEF Skip, Walking
<1>2. PICK D : Tracing(by_digest, stack, <<>>, token.payload, D) /\ Counting(stack, D, seen)
  BY <1>1 DEF Traced
<1>3. /\ Sequence(stack) /\ Top = stack[Len(stack)] /\ Frame(by_digest, Top, Pairs(D))
      /\ DOMAIN Top = Fields
  BY <1>1, <1>2, TopIsAFrame
<1> DEFINE n == Top.node
           i == Top.at
           f == Advanced
<1>4. f.node = n /\ f.at = i + 1 /\ f.out = Top.out
  BY <1>3 DEF Advanced, Fields
<1>5. i \in 1..Places(n) /\ Places(n) \in Nat
  BY <1>1, <1>3, NotThrough DEF Frame, Shaped
<1>6. ~Shown(by_digest, n, i)
  BY <1>1, <1>3, <1>5, AtAPlace DEF Shown, Frame
<1>7. Gathered(by_digest, n, i - 1, Top.out, Pairs(D)) /\ Shaped(n)
  BY <1>3 DEF Frame
<1>8. Frame(by_digest, f, Pairs(D))
  <2> HIDE DEF n, i, f
  <2>1. i \in Nat \ {0} /\ i + 1 \in 1..(Places(n) + 1) /\ i + 1 - 1 = i
    BY <1>5
  <2>2. Gathered(by_digest, n, i, Top.out, Pairs(D))
    BY <1>6, <1>7, <2>1, GatheredAsBefore
  <2>3. QED
    BY <1>4, <1>7, <2>1, <2>2 DEF Frame
<1>9. Tracing(by_digest, stack', <<>>, token.payload, D)
  <2>1. stack' = Append(SubSeq(stack, 1, Len(stack) - 1), f)
    BY <1>1 DEF Below
  <2>2. f.node = stack[Len(stack)].node
    BY <1>3, <1>4
  <2> HIDE DEF f
  <2>3. QED
    BY <1>1, <1>2, <1>3, <1>8, <2>1, <2>2, TracesMove
<1>10. Counting(stack', D, seen')
  <2>1. Digest(Top) \in seen' /\ seen \subseteq seen'
    BY DEF Skip, Meet
  <2>2. DigestAt(n, i) = Digest(Top)
    BY <1>3, <1>5, AtAPlace DEF Frame
  <2>3. stack' = Append(SubSeq(stack, 1, Len(stack) - 1), f)
    BY <1>1 DEF Below
  <2>4. i \in Nat \ {0} /\ i = stack[Len(stack)].at /\ n = stack[Len(stack)].node
    BY <1>3, <1>5
  <2> HIDE DEF n, i, f
  <2>5. Met(seen', n, i - 1) => Met(seen', n, i)
    BY <2>1, <2>2, <2>4, MetMore
  <2>6. QED
    BY <1>1, <1>2, <1>3, <1>4, <2>1, <2>3, <2>4, <2>5, CountsMove
<1>11. QED
  BY <1>1, <1>9, <1>10 DEF Traced

\* Take: what the child's walk returned is gathered.
LEMMA TakeTraces ==
  ASSUME Inv, Traced, Take
  PROVE  Traced'
<1>1. /\ phase = "walk" /\ value # <<>> /\ stack # <<>> /\ value' = <<>>
      /\ stack' = Append(Below,
           IF Top.node.t = "list" THEN [Advanced EXCEPT !.out = Append(@, Returned)]
           ELSE [Advanced EXCEPT !.out = Put(@, Key(Top), Returned)])
      /\ UNCHANGED <<token, by_digest, phase>>
  BY DEF Take
<1>2. PICK D : Tracing(by_digest, stack, value, token.payload, D) /\ Counting(stack, D, seen)
  BY <1>1 DEF Traced
<1>3. /\ Sequence(stack) /\ Top = stack[Len(stack)] /\ Frame(by_digest, Top, Pairs(D))
      /\ DOMAIN Top = Fields /\ Len(stack) \in Nat \ {0}
  BY <1>1, <1>2, TopIsAFrame
<1> DEFINE n == Top.node
           i == Top.at
           o == IF n.t = "list" THEN Append(Top.out, Returned)
                ELSE Put(Top.out, Key(Top), Returned)
           f == IF Top.node.t = "list" THEN [Advanced EXCEPT !.out = Append(@, Returned)]
                ELSE [Advanced EXCEPT !.out = Put(@, Key(Top), Returned)]
<1>4. f.node = n /\ f.at = i + 1 /\ f.out = o
  BY <1>3 DEF Advanced, Fields
<1>5. /\ Waits(by_digest, Top)
      /\ [node |-> Wanted(by_digest, Top), value |-> Returned] \in Pairs(D)
  <2>1. Len(stack) \in 1..Len(stack) /\ Len(stack) # 0
    BY <1>3
  <2>2. Goal(by_digest, stack, token.payload, Len(stack)) = Wanted(by_digest, Top)
    BY <1>3, <2>1 DEF Goal
  <2>3. QED
    BY <1>1, <1>2, <1>3, <2>1, <2>2 DEF Tracing, Returned
<1>6. /\ Shaped(n) /\ Gathered(by_digest, n, i - 1, Top.out, Pairs(D))
      /\ i \in 1..Places(n) /\ Places(n) \in Nat /\ n.t \in {"list", "object"}
  BY <1>3, <1>5 DEF Frame, Shaped, Waits
<1>7. /\ Shown(by_digest, n, i) /\ Fits(by_digest, n, i)
      /\ n.t = "object" => Name(by_digest, n, i) \notin DOMAIN Top.out
      /\ Gives(Pairs(D), Within(by_digest, n, i), Returned)
  BY <1>5 DEF Waits, Wanted, Gives
<1>8. n.t = "object" => Key(Top) = Name(by_digest, n, i)
  <2>1. Digest(Top) = DigestAt(n, i)
    BY <1>6, AtAPlace
  <2>2. QED
    BY <2>1 DEF Key, Name
<1>9. Frame(by_digest, f, Pairs(D))
  <2>1. o = IF n.t = "list" THEN Append(Top.out, Returned)
            ELSE Put(Top.out, Name(by_digest, n, i), Returned)
    BY <1>6, <1>8
  <2> HIDE DEF n, i, f, o
  <2>2. i \in Nat \ {0} /\ i + 1 \in 1..(Places(n) + 1) /\ i + 1 - 1 = i
    BY <1>6
  <2>3. Gathered(by_digest, n, i, o, Pairs(D))
    <3> DEFINE S == Pairs(D)
               out == Top.out
    <3>1. /\ Gathered(by_digest, n, i - 1, out, S) /\ Gives(S, Within(by_digest, n, i), Returned)
          /\ n.t = "object" => Name(by_digest, n, i) \notin DOMAIN out
      BY <1>6, <1>7
    <3> HIDE DEF S, out
    <3>2. Gathered(by_digest, n, i,
                   IF n.t = "list" THEN Append(out, Returned)
                   ELSE Put(out, Name(by_digest, n, i), Returned), S)
      BY <1>6, <1>7, <2>2, <3>1, GatheredMore
    <3>3. QED
      BY <2>1, <3>2 DEF S, out
  <2>4. QED
    BY <1>4, <1>6, <2>2, <2>3 DEF Frame
<1>10. Tracing(by_digest, stack', <<>>, token.payload, D)
  <2>1. stack' = Append(SubSeq(stack, 1, Len(stack) - 1), f)
    BY <1>1 DEF Below
  <2>2. f.node = stack[Len(stack)].node
    BY <1>3, <1>4
  <2> HIDE DEF f
  <2>3. QED
    BY <1>1, <1>2, <1>3, <1>9, <2>1, <2>2, TracesMove
<1>11. Counting(stack', D, seen')
  <2>1. Digest(Top) # Nothing => Digest(Top) \in seen
    BY <1>1, <1>3 DEF Inv, Asked, Known
  <2>2. DigestAt(n, i) = Digest(Top)
    BY <1>6, AtAPlace
  <2>3. stack' = Append(SubSeq(stack, 1, Len(stack) - 1), f) /\ seen' = seen
    BY <1>1 DEF Below, Take
  <2>4. i \in Nat \ {0} /\ i = stack[Len(stack)].at /\ n = stack[Len(stack)].node
    BY <1>3, <1>6
  <2> HIDE DEF n, i, f
  <2>5. Met(seen, n, i - 1) => Met(seen, n, i)
    BY <2>1, <2>2, <2>4, MetMore
  <2>6. Counting(stack', D, seen)
    BY <1>1, <1>2, <1>3, <1>4, <2>3, <2>4, <2>5, CountsMove
  <2>7. QED
    BY <2>3, <2>6
<1>12. QED
  BY <1>1, <1>10, <1>11 DEF Traced

\* Return: what the walk returns follows from what it gathered.
LEMMA ReturnTraces ==
  ASSUME Inv, Traced, Return
  PROVE  Traced'
<1>1. /\ phase = "walk" /\ value = <<>> /\ stack # <<>> /\ ~Unlisted(Top)
      /\ Child(Top) = Nothing /\ Digest(Top) = Nothing
      /\ value' = <<Result(Top)>> /\ stack' = Below
      /\ UNCHANGED <<token, by_digest, seen, phase>>
  BY DEF Return, Walking, Refused
<1>2. PICK D : Tracing(by_digest, stack, <<>>, token.payload, D) /\ Counting(stack, D, seen)
  BY <1>1 DEF Traced
<1>3. /\ Sequence(stack) /\ Top = stack[Len(stack)] /\ Frame(by_digest, Top, Pairs(D))
  BY <1>1, <1>2, TopIsAFrame
<1>4. Follows(by_digest, stack[Len(stack)].node, Result(Top), Pairs(D))
  BY <1>1, <1>3, Returns
<1>5. \E E : /\ Tracing(by_digest, SubSeq(stack, 1, Len(stack) - 1), value', token.payload, E)
             /\ Counting(SubSeq(stack, 1, Len(stack) - 1), E, seen)
  <2> DEFINE v == Result(Top)
  <2>1. Follows(by_digest, stack[Len(stack)].node, v, Pairs(D))
    BY <1>4
  <2> HIDE DEF v
  <2>2. PICK E : /\ Tracing(by_digest, SubSeq(stack, 1, Len(stack) - 1), <<v>>, token.payload, E)
                 /\ Pairs(E) = Pairs(D) \union {[node |-> stack[Len(stack)].node, value |-> v]}
    BY <1>1, <1>2, <1>3, <2>1, TracesPop
  <2>3. stack[Len(stack)].at - 1 = Places(stack[Len(stack)].node)
    BY <1>1, <1>3, Through DEF Frame
  <2>4. Counting(SubSeq(stack, 1, Len(stack) - 1), E, seen)
    BY <1>1, <1>2, <1>3, <2>2, <2>3, CountsPop
  <2>5. QED
    BY <1>1, <2>2, <2>4 DEF v
<1>6. QED
  BY <1>1, <1>5 DEF Traced, Below

TraceInv == Tabled /\ Traced /\ Used

THEOREM AlwaysTraced == Spec => []TraceInv
<1>1. Init => TraceInv
  BY DEF Init, TraceInv, Tabled, Traced, Used
<1>2. Inv /\ TraceInv /\ [Next]_vars => TraceInv'
  <2> SUFFICES ASSUME Inv, TraceInv, [Next]_vars PROVE TraceInv'
    OBVIOUS
  <2> USE DEF TraceInv
  <2>1. CASE Index
    BY <2>1, IndexTraces
  <2>2. CASE Refuse
    BY <2>2 DEF Refuse, Tabled, Traced, Used
  <2>3. CASE YieldChild \/ YieldDisclosed
    <3>1. Traced'
      BY <2>3, YieldTraces
    <3>2. phase = "walk" /\ UNCHANGED <<token, by_digest, used, phase>>
      BY <2>3 DEF YieldChild, YieldDisclosed, Walking
    <3>3. QED
      BY <3>1, <3>2 DEF Tabled, Used
  <2>4. CASE Skip
    <3>1. Traced'
      BY <2>4, SkipTraces
    <3>2. phase = "walk" /\ UNCHANGED <<token, by_digest, used, phase>>
      BY <2>4 DEF Skip, Walking
    <3>3. QED
      BY <3>1, <3>2 DEF Tabled, Used
  <2>5. CASE Return
    <3>1. Traced'
      BY <2>5, ReturnTraces
    <3>2. phase = "walk" /\ UNCHANGED <<token, by_digest, used, phase>>
      BY <2>5 DEF Return, Walking
    <3>3. QED
      BY <3>1, <3>2 DEF Tabled, Used
  <2>6. CASE Take
    <3>1. Traced'
      BY <2>6, TakeTraces
    <3>2. phase = "walk" /\ UNCHANGED <<token, by_digest, phase>>
      BY <2>6 DEF Take
    <3>3. QED
      BY <3>1, <3>2 DEF Tabled, Used
  <2>7. CASE Finish
    <3>1. /\ phase = "walk" /\ UNCHANGED <<token, by_digest, stack, value, seen, used>>
          /\ phase' = IF DOMAIN by_digest \subseteq used THEN "resolved" ELSE "refused"
      BY <2>7 DEF Finish
    <3>2. QED
      BY <3>1 DEF Tabled, Traced, Used
  <2>8. CASE UNCHANGED vars
    BY <2>8 DEF vars, Tabled, Traced, Used
  <2>9. QED
    BY <2>1, <2>2, <2>3, <2>4, <2>5, <2>6, <2>7, <2>8 DEF Next
<1>3. QED
  BY <1>1, <1>2, Always, PTL DEF Spec

\* Whatever is presented, what is resolved is the payload with every digest that
\* is disclosed replaced by what it discloses, and every other one gone, through
\* and through; each of those digests is in the census; the table is the one of
\* the disclosures, which all were used, and each stands where its form may.
Resolved ==
  phase = "resolved" =>
    /\ IsTable(by_digest, token.disclosures)
    /\ ExpandsIn(by_digest, token.payload, Returned, ToSet(encountered))
    /\ used = DOMAIN by_digest

LEMMA ExpandsInExpands ==
  ASSUME NEW T, NEW n, NEW v, NEW M, ExpandsIn(T, n, v, M)
  PROVE  Expands(T, n, v)
BY DEF ExpandsIn, Expands

THEOREM ResolvedIsExpanded == Spec => []Resolved
<1>1. Inv /\ TraceInv => Resolved
  <2> SUFFICES ASSUME Inv, TraceInv, phase = "resolved"
               PROVE  /\ IsTable(by_digest, token.disclosures)
                      /\ ExpandsIn(by_digest, token.payload, Returned, ToSet(encountered))
                      /\ used = DOMAIN by_digest
    BY DEF Resolved
  <2>1. value # <<>> /\ stack = <<>> /\ Len(<<>>) = 0
    BY DEF Inv, TypeOK
  <2>2. PICK D : /\ Tracing(by_digest, stack, value, token.payload, D)
                 /\ Counting(stack, D, seen)
    BY DEF TraceInv, Traced
  <2>3. [node |-> Plain(token.payload), value |-> Returned] \in Pairs(D)
    BY <2>1, <2>2 DEF Tracing, Goal, Returned
  <2>4. seen = ToSet(encountered)
    <3>1. PICK S : encountered \in Seq(S)
      BY DEF Inv, Counted, Sequence
    <3>2. DOMAIN encountered = 1..Len(encountered)
      BY <3>1
    <3>3. QED
      BY <3>2 DEF Inv, Counted, MetOnce, ToSet
  <2>5. ExpandsIn(by_digest, token.payload, Returned, ToSet(encountered))
    BY <2>2, <2>3, <2>4 DEF Tracing, Counting, ExpandsIn, Gives
  <2>6. QED
    BY <2>5 DEF TraceInv, Tabled, Used, Inv, TypeOK
<1>2. QED
  BY <1>1, Always, AlwaysTraced, PTL

-----------------------------------------------------------------------------
(* What a node expands to is one value, and less of it with fewer            *)
(* disclosures.                                                             *)

\* A set of numbers has a least one.
LEMMA LeastNumber ==
  ASSUME NEW N \in SUBSET Nat, N # {}
  PROVE  \E x \in N : \A y \in N : x <= y
<1> DEFINE R == {p \in Nat \X Nat : p[1] < p[2]}
<1>1. IsWellFoundedOn(R, Nat)
  BY NatLessThanWellFounded DEF OpToRel
<1>2. \A x, y \in Nat : y < x => <<y, x>> \in R
  OBVIOUS
<1> HIDE DEF R
<1>3. PICK x \in N : \A y \in N : ~(<<y, x>> \in R)
  BY <1>1, WFMin
<1>4. ASSUME NEW y \in N PROVE x <= y
  <2>1. ~(y < x)
    BY <1>2, <1>3
  <2>2. QED
    BY <2>1
<1>5. QED
  BY <1>4

\* f lists the numbers of H, each once, the smaller first.
Lists(f, l, H) ==
  /\ f \in [1..l -> H]
  /\ \A i, j \in 1..l : i < j => f[i] < f[j]
  /\ \A p \in H : \E i \in 1..l : f[i] = p

\* Of two that list the same numbers, the first to differ would list one that the
\* other has not.
LEMMA ListsAgree ==
  ASSUME NEW H \in SUBSET Nat, NEW a \in Nat, NEW b \in Nat, NEW f, NEW g,
         Lists(f, a, H), Lists(g, b, H)
  PROVE  \A i \in 1..a : i \in 1..b /\ f[i] = g[i]
<1> DEFINE B == {i \in 1..a : ~(i \in 1..b /\ f[i] = g[i])}
<1> SUFFICES ASSUME B # {} PROVE FALSE
  OBVIOUS
<1>0. B \in SUBSET Nat /\ \A p \in H : p \in Nat
  OBVIOUS
<1>1. PICK x \in B : \A y \in B : x <= y
  <2> HIDE DEF B
  <2>1. QED
    BY <1>0, LeastNumber
<1>2. x \in 1..a /\ ~(x \in 1..b /\ f[x] = g[x]) /\ f[x] \in H
  BY <1>1 DEF Lists
<1>3. \A y \in 1..a : y < x => y \in 1..b /\ f[y] = g[y]
  BY <1>1
<1>4. PICK z \in 1..b : g[z] = f[x]
  BY <1>2 DEF Lists
<1>5. ~(z < x)
  <2> SUFFICES ASSUME z < x PROVE FALSE
    OBVIOUS
  <2>1. z \in 1..a /\ f[z] = g[z]
    BY <1>2, <1>3
  <2>2. f[z] < f[x]
    BY <1>2, <2>1 DEF Lists
  <2>3. f[z] = f[x] /\ f[x] \in Nat
    BY <1>0, <1>2, <1>4, <2>1
  <2>4. QED
    BY <2>2, <2>3
<1>6. x < z
  BY <1>2, <1>4, <1>5
<1>7. x \in 1..b /\ g[x] < g[z] /\ g[x] \in H
  BY <1>2, <1>4, <1>6 DEF Lists
<1>8. PICK y \in 1..a : f[y] = g[x]
  BY <1>7 DEF Lists
<1>9. y < x
  <2> SUFFICES ASSUME ~(y < x) PROVE FALSE
    OBVIOUS
  <2>1. x = y \/ x < y
    BY <1>2, <1>8
  <2>2. f[x] \in Nat /\ f[y] \in Nat
    BY <1>0, <1>2, <1>7, <1>8
  <2>3. f[x] <= f[y]
    <3>1. CASE x = y
      BY <2>2, <3>1
    <3>2. CASE x < y
      <4>1. f[x] < f[y]
        BY <1>2, <1>8, <3>2 DEF Lists
      <4>2. QED
        BY <2>2, <4>1
    <3>3. QED
      BY <2>1, <3>1, <3>2
  <2>4. f[y] = g[x] /\ f[x] = g[z] /\ g[x] < g[z]
    BY <1>4, <1>7, <1>8
  <2>5. QED
    BY <2>2, <2>3, <2>4
<1>10. g[y] = g[x] /\ y \in 1..b
  BY <1>3, <1>8, <1>9
<1>11. g[y] < g[x]
  BY <1>7, <1>9, <1>10 DEF Lists
<1>12. g[x] \in Nat
  BY <1>0, <1>7
<1>13. QED
  BY <1>10, <1>11, <1>12

\* U discloses what T does, and perhaps more.
Extends(T, U) == DOMAIN T \subseteq DOMAIN U /\ \A d \in DOMAIN T : T[d] = U[d]

\* What T shows at the first m places of n, U shows there too.
Less(T, U, n, m) ==
  \A i \in 1..m : Shown(T, n, i) =>
    /\ Shown(U, n, i) /\ Within(T, n, i) = Within(U, n, i) /\ Name(T, n, i) = Name(U, n, i)

LEMMA ExtendsShows ==
  ASSUME NEW T, NEW U, Extends(T, U), NEW n, NEW m
  PROVE  Less(T, U, n, m)
BY DEF Extends, Shown, Within, Name, Less

\* a is b without some of its claims and items, if R is right about what is in
\* them.
PartIn(a, b, R) ==
  \/ a = b
  \/ /\ a.t = "object" /\ b.t = "object"
     /\ \A k \in DOMAIN a.members :
          k \in DOMAIN b.members /\ <<a.members[k], b.members[k]>> \in R
  \/ /\ a.t = "list" /\ b.t = "list"
     /\ \E at \in [1..Len(a.items) -> 1..Len(b.items)] :
          /\ \A i, j \in 1..Len(a.items) : i < j => at[i] < at[j]
          /\ \A i \in 1..Len(a.items) : <<a.items[i], b.items[at[i]]>> \in R

\* a is a part of b, through and through.
PartOf(a, b) ==
  \E R : <<a, b>> \in R /\ \A r \in R : r = <<r[1], r[2]>> /\ PartIn(r[1], r[2], R)

\* R pairs what S and Q have for the same nodes.
Meets(S, Q, R) ==
  \A n, v, w : Gives(S, n, v) /\ Gives(Q, n, w) => <<v, w>> \in R

\* The items that are kept with fewer disclosures are among those kept with more.
LEMMA KeptPrunes ==
  ASSUME NEW T, NEW U, NEW n, NEW m, Less(T, U, n, m), NEW o, NEW q, NEW S, NEW Q, NEW R,
         Kept(T, n, m, o, S), Kept(U, n, m, q, Q), Meets(S, Q, R)
  PROVE  \E at \in [1..Len(o) -> 1..Len(q)] :
           /\ \A i, j \in 1..Len(o) : i < j => at[i] < at[j]
           /\ \A i \in 1..Len(o) : <<o[i], q[at[i]]>> \in R
<1> DEFINE H == Here(T, n, m)
           G == Here(U, n, m)
           a == Len(o)
           b == Len(q)
<1>1. PICK f : Lists(f, a, H) /\ \A i \in 1..a : Gives(S, Within(T, n, f[i]), o[i])
  BY DEF Kept, Lists
<1>2. PICK g : Lists(g, b, G) /\ \A i \in 1..b : Gives(Q, Within(U, n, g[i]), q[i])
  BY DEF Kept, Lists
<1>3. /\ H \subseteq G /\ G \subseteq Nat
      /\ \A i \in H : Within(T, n, i) = Within(U, n, i)
  BY DEF Less, Here
<1>4. a \in Nat /\ b \in Nat
  BY Pushed DEF Kept
<1> HIDE DEF H, G, a, b
<1> DEFINE at == [i \in 1..a |-> CHOOSE j \in 1..b : g[j] = f[i]]
<1>5. \A i \in 1..a : at[i] \in 1..b /\ g[at[i]] = f[i] /\ f[i] \in H
  <2> SUFFICES ASSUME NEW i \in 1..a
               PROVE  at[i] \in 1..b /\ g[at[i]] = f[i] /\ f[i] \in H
    OBVIOUS
  <2>1. f[i] \in H /\ f[i] \in G
    BY <1>1, <1>3 DEF Lists
  <2>2. \E j \in 1..b : g[j] = f[i]
    BY <1>2, <2>1 DEF Lists
  <2>3. QED
    BY <2>1, <2>2
<1>6. at \in [1..a -> 1..b]
  BY <1>5
<1> HIDE DEF at
<1>7. ASSUME NEW i \in 1..a, NEW j \in 1..a, i < j
      PROVE  at[i] < at[j]
  <2>1. g[at[i]] < g[at[j]]
    BY <1>1, <1>5, <1>7 DEF Lists
  <2>2. at[j] < at[i] => g[at[j]] < g[at[i]]
    BY <1>2, <1>5 DEF Lists
  <2>3. g[at[i]] \in Nat /\ g[at[j]] \in Nat /\ at[i] \in Nat /\ at[j] \in Nat
    <3>1. at[i] \in 1..b /\ at[j] \in 1..b
      BY <1>5
    <3>2. \A p \in H : p \in Nat
      BY <1>3
    <3>3. g[at[i]] \in H /\ g[at[j]] \in H
      BY <1>5
    <3>4. QED
      BY <3>1, <3>2, <3>3
  <2>4. QED
    BY <2>1, <2>2, <2>3
<1>8. ASSUME NEW i \in 1..a
      PROVE  <<o[i], q[at[i]]>> \in R
  <2>1. Gives(S, Within(T, n, f[i]), o[i])
    BY <1>1
  <2>2. Gives(Q, Within(U, n, f[i]), q[at[i]])
    BY <1>2, <1>5
  <2>3. Within(T, n, f[i]) = Within(U, n, f[i])
    BY <1>3, <1>5
  <2>4. QED
    BY <2>1, <2>2, <2>3 DEF Meets
<1>9. QED
  BY <1>6, <1>7, <1>8 DEF a, b

\* So are the claims.
LEMMA ClaimsPrune ==
  ASSUME NEW T, NEW U, NEW n, NEW m, Less(T, U, n, m), NEW o, NEW q, NEW S, NEW Q, NEW R,
         Claims(T, n, m, o, S), Claims(U, n, m, q, Q), Meets(S, Q, R), NEW k \in DOMAIN o
  PROVE  k \in DOMAIN q /\ <<o[k], q[k]>> \in R
<1>1. PICK i \in Here(T, n, m) : k = Name(T, n, i)
  BY DEF Claims
<1>2. /\ i \in Here(U, n, m) /\ Within(T, n, i) = Within(U, n, i)
      /\ k = Name(U, n, i)
  BY <1>1 DEF Less, Here
<1>3. Gives(S, Within(T, n, i), o[k])
  BY <1>1 DEF Claims
<1>4. k \in DOMAIN q /\ Gives(Q, Within(U, n, i), q[k])
  BY <1>2 DEF Claims
<1>5. QED
  BY <1>2, <1>3, <1>4 DEF Meets

LEMMA FollowsPrunes ==
  ASSUME NEW T, NEW U, NEW n, Less(T, U, n, Places(n)), NEW v, NEW w, NEW S, NEW Q, NEW R,
         Follows(T, n, v, S), Follows(U, n, w, Q), Meets(S, Q, R)
  PROVE  PartIn(v, w, R)
<1>1. CASE n.t = "leaf"
  <2>1. v = n /\ w = n
    BY <1>1 DEF Follows
  <2>2. QED
    BY <2>1 DEF PartIn
<1>2. CASE n.t = "list"
  <2>1. PICK o : v = List(o) /\ Kept(T, n, Places(n), o, S)
    BY <1>2 DEF Follows, Gathered
  <2>2. PICK q : w = List(q) /\ Kept(U, n, Places(n), q, Q)
    BY <1>2 DEF Follows, Gathered
  <2>3. v.t = "list" /\ v.items = o /\ w.t = "list" /\ w.items = q
    BY <2>1, <2>2 DEF List
  <2>4. \E at \in [1..Len(o) -> 1..Len(q)] :
          /\ \A i, j \in 1..Len(o) : i < j => at[i] < at[j]
          /\ \A i \in 1..Len(o) : <<o[i], q[at[i]]>> \in R
    BY <2>1, <2>2, KeptPrunes
  <2>5. QED
    BY <2>3, <2>4 DEF PartIn
<1>3. CASE n.t = "object"
  <2>1. PICK o : v = [t |-> "object", members |-> o] /\ Claims(T, n, Places(n), o, S)
    BY <1>3 DEF Follows, Gathered
  <2>2. PICK q : w = [t |-> "object", members |-> q] /\ Claims(U, n, Places(n), q, Q)
    BY <1>3 DEF Follows, Gathered
  <2>3. v.t = "object" /\ v.members = o /\ w.t = "object" /\ w.members = q
    BY <2>1, <2>2
  <2>4. \A k \in DOMAIN o : k \in DOMAIN q /\ <<o[k], q[k]>> \in R
    BY <2>1, <2>2, ClaimsPrune
  <2>5. QED
    BY <2>3, <2>4 DEF PartIn
<1>4. QED
  BY <1>1, <1>2, <1>3 DEF Follows

LEMMA Expanding ==
  ASSUME NEW T, NEW D, Derivation(T, D), NEW p \in Pairs(D)
  PROVE  \E i \in 1..Len(D) :
           /\ p = D[i] /\ Follows(T, p.node, p.value, Before(D, i))
           /\ Before(D, i) \subseteq Pairs(D) /\ p = [node |-> p.node, value |-> p.value]
<1>1. PICK i \in 1..Len(D) : p = D[i]
  BY DEF Pairs
<1>2. Len(D) \in Nat
  BY Pushed DEF Derivation
<1>3. Before(D, i) \subseteq Pairs(D)
  BY <1>2 DEF Before, Pairs
<1>4. QED
  BY <1>1, <1>3 DEF Derivation

\* Where T shows no more than U, it derives a part of what U does.
LEMMA LessDerivesPart ==
  ASSUME NEW T, NEW U, NEW n, NEW v, NEW w,
         NEW D, Derivation(T, D), Gives(Pairs(D), n, v),
         NEW E, Derivation(U, E), Gives(Pairs(E), n, w),
         \A q \in Pairs(E) : Less(T, U, q.node, Places(q.node))
  PROVE  PartOf(v, w)
<1> DEFINE R == {<<z[1].value, z[2].value>> :
                   z \in {y \in Pairs(D) \X Pairs(E) : y[1].node = y[2].node}}
<1>3. ASSUME NEW p \in Pairs(D), NEW q \in Pairs(E), p.node = q.node
      PROVE  <<p.value, q.value>> \in R
  <2>1. <<p, q>> \in {y \in Pairs(D) \X Pairs(E) : y[1].node = y[2].node}
    BY <1>3
  <2>2. QED
    BY <2>1
<1>4. ASSUME NEW r \in R
      PROVE  \E p \in Pairs(D), q \in Pairs(E) : p.node = q.node /\ r = <<p.value, q.value>>
  OBVIOUS
<1> HIDE DEF R
<1>5. Meets(Pairs(D), Pairs(E), R)
  <2> SUFFICES ASSUME NEW x, NEW a, NEW b, Gives(Pairs(D), x, a), Gives(Pairs(E), x, b)
               PROVE  <<a, b>> \in R
    BY DEF Meets
  <2> DEFINE p == [node |-> Plain(x), value |-> a]
             q == [node |-> Plain(x), value |-> b]
  <2>1. p \in Pairs(D) /\ q \in Pairs(E) /\ p.node = q.node /\ p.value = a /\ q.value = b
    BY DEF Gives
  <2> HIDE DEF p, q
  <2>2. QED
    BY <1>3, <2>1
<1>6. ASSUME NEW r \in R
      PROVE  r = <<r[1], r[2]>> /\ PartIn(r[1], r[2], R)
  <2>1. PICK p \in Pairs(D), q \in Pairs(E) : p.node = q.node /\ r = <<p.value, q.value>>
    BY <1>4
  <2>2. PICK i \in 1..Len(D) :
          Follows(T, p.node, p.value, Before(D, i)) /\ Before(D, i) \subseteq Pairs(D)
    BY Expanding
  <2>3. PICK j \in 1..Len(E) :
          Follows(U, q.node, q.value, Before(E, j)) /\ Before(E, j) \subseteq Pairs(E)
    BY Expanding
  <2>4. Meets(Before(D, i), Before(E, j), R)
    BY <1>5, <2>2, <2>3 DEF Meets, Gives
  <2> DEFINE x == p.node
             a == p.value
             b == q.value
  <2>5. /\ Follows(T, x, a, Before(D, i)) /\ Follows(U, x, b, Before(E, j)) /\ r = <<a, b>>
        /\ Less(T, U, x, Places(x))
    BY <2>1, <2>2, <2>3
  <2> HIDE DEF x, a, b
  <2>6. PartIn(a, b, R)
    BY <2>4, <2>5, FollowsPrunes
  <2>7. QED
    BY <2>5, <2>6
<1>7. <<v, w>> \in R
  BY <1>5 DEF Meets
<1>8. QED
  BY <1>6, <1>7 DEF PartOf

\* With fewer disclosures a node expands to a part of what it expands to.
THEOREM FewerDisclosePart ==
  ASSUME NEW T, NEW U, Extends(T, U), NEW n, NEW v, NEW w,
         Expands(T, n, v), Expands(U, n, w)
  PROVE  PartOf(v, w)
<1>1. PICK D : Derivation(T, D) /\ Gives(Pairs(D), n, v)
  BY DEF Expands
<1>2. PICK E : Derivation(U, E) /\ Gives(Pairs(E), n, w)
  BY DEF Expands
<1>3. \A q \in Pairs(E) : Less(T, U, q.node, Places(q.node))
  BY ExtendsShows
<1>4. QED
  BY <1>1, <1>2, <1>3, LessDerivesPart

\* S and Q agree about every node.
Agree(S, Q) == \A n, v, w : Gives(S, n, v) /\ Gives(Q, n, w) => v = w

LEMMA FollowsOnce ==
  ASSUME NEW T, NEW n, NEW v, NEW w, NEW S, NEW Q,
         Follows(T, n, v, S), Follows(T, n, w, Q), Agree(S, Q)
  PROVE  v = w
<1> DEFINE m == Places(n)
           H == Here(T, n, m)
<1>1. CASE n.t = "leaf"
  BY <1>1 DEF Follows
<1>2. CASE n.t = "list"
  <2>1. PICK o : v = List(o) /\ Kept(T, n, m, o, S)
    BY <1>2 DEF Follows, Gathered
  <2>2. PICK q : w = List(q) /\ Kept(T, n, m, q, Q)
    BY <1>2 DEF Follows, Gathered
  <2>3. PICK f : Lists(f, Len(o), H) /\ \A i \in 1..Len(o) : Gives(S, Within(T, n, f[i]), o[i])
    BY <2>1 DEF Kept, Lists
  <2>4. PICK g : Lists(g, Len(q), H) /\ \A i \in 1..Len(q) : Gives(Q, Within(T, n, g[i]), q[i])
    BY <2>2 DEF Kept, Lists
  <2>5. Len(o) \in Nat /\ Len(q) \in Nat /\ H \in SUBSET Nat
    BY <2>1, <2>2, Pushed DEF Kept, Here
  <2> HIDE DEF m, H
  <2>6. \A i \in 1..Len(o) : i \in 1..Len(q) /\ f[i] = g[i]
    BY <2>3, <2>4, <2>5, ListsAgree
  <2>7. \A i \in 1..Len(q) : i \in 1..Len(o) /\ g[i] = f[i]
    BY <2>3, <2>4, <2>5, ListsAgree
  <2>8. Len(o) = Len(q)
    BY <2>5, <2>6, <2>7
  <2>9. \A i \in 1..Len(o) : o[i] = q[i]
    BY <2>3, <2>4, <2>6 DEF Agree
  <2>10. o = q
    <3>1. PICK X : o \in Seq(X)
      BY <2>1 DEF Kept, Sequence
    <3>2. PICK Y : q \in Seq(Y)
      BY <2>2 DEF Kept, Sequence
    <3>3. o = [i \in 1..Len(o) |-> o[i]] /\ q = [i \in 1..Len(q) |-> q[i]]
      BY <3>1, <3>2
    <3>4. QED
      BY <2>8, <2>9, <3>3, Zenon
  <2>11. QED
    BY <2>1, <2>2, <2>10
<1>3. CASE n.t = "object"
  <2>1. PICK o : v = [t |-> "object", members |-> o] /\ Claims(T, n, m, o, S)
    BY <1>3 DEF Follows, Gathered
  <2>2. PICK q : w = [t |-> "object", members |-> q] /\ Claims(T, n, m, q, Q)
    BY <1>3 DEF Follows, Gathered
  <2> HIDE DEF m
  <2>3. DOMAIN o = DOMAIN q
    BY <2>1, <2>2 DEF Claims
  <2>4. ASSUME NEW k \in DOMAIN o PROVE o[k] = q[k]
    <3>1. PICK i \in Here(T, n, m) : k = Name(T, n, i)
      BY <2>1 DEF Claims
    <3>2. Gives(S, Within(T, n, i), o[k]) /\ Gives(Q, Within(T, n, i), q[k])
      BY <2>1, <2>2, <3>1 DEF Claims
    <3>3. QED
      BY <3>2 DEF Agree
  <2>5. o = [k \in DOMAIN o |-> o[k]] /\ q = [k \in DOMAIN q |-> q[k]]
    BY <2>1, <2>2 DEF Claims
  <2>6. o = q
    BY <2>3, <2>4, <2>5, Zenon
  <2>7. QED
    BY <2>1, <2>2, <2>6
<1>4. QED
  BY <1>1, <1>2, <1>3 DEF Follows

\* A node expands to one value.
THEOREM OneExpansion ==
  ASSUME NEW T, NEW n, NEW v, NEW w, Expands(T, n, v), Expands(T, n, w)
  PROVE  v = w
<1>1. PICK D : Derivation(T, D) /\ Gives(Pairs(D), n, v)
  BY DEF Expands
<1>2. PICK E : Derivation(T, E) /\ Gives(Pairs(E), n, w)
  BY DEF Expands
<1> DEFINE B == {i \in 1..Len(D) : \E q \in Pairs(E) : D[i].node = q.node /\ D[i].value # q.value}
<1>0. Len(D) \in Nat
  BY <1>1, Pushed DEF Derivation
<1>3. B = {}
  <2> SUFFICES ASSUME B # {} PROVE FALSE
    OBVIOUS
  <2>1. PICK i \in B : \A j \in B : i <= j
    <3>1. B \in SUBSET Nat
      BY <1>0
    <3> HIDE DEF B
    <3>2. QED
      BY <3>1, LeastNumber
  <2>2. PICK q \in Pairs(E) : i \in 1..Len(D) /\ D[i].node = q.node /\ D[i].value # q.value
    OBVIOUS
  <2>3. PICK j \in 1..Len(E) :
          Follows(T, q.node, q.value, Before(E, j)) /\ Before(E, j) \subseteq Pairs(E)
    BY <1>2, Expanding
  <2>4. Agree(Before(D, i), Before(E, j))
    <3> SUFFICES ASSUME NEW x, NEW a, NEW b, Gives(Before(D, i), x, a), Gives(Before(E, j), x, b)
                 PROVE  a = b
      BY DEF Agree
    <3>1. PICK k \in 1..(i - 1) : D[k] = [node |-> Plain(x), value |-> a]
      BY DEF Gives, Before
    <3> DEFINE p == [node |-> Plain(x), value |-> b]
    <3>2. p \in Pairs(E) /\ p.node = Plain(x) /\ p.value = b
      BY <2>3 DEF Gives
    <3>3. D[k].node = Plain(x) /\ D[k].value = a
      BY <3>1
    <3>4. k \in 1..Len(D) /\ k < i
      BY <1>0, <2>2
    <3>5. k \notin B
      BY <2>1, <3>4
    <3> HIDE DEF p
    <3>6. QED
      BY <3>2, <3>3, <3>4, <3>5
  <2>5. Follows(T, D[i].node, D[i].value, Before(D, i))
    BY <1>1, <2>2 DEF Derivation
  <2> DEFINE x == q.node
             a == D[i].value
             b == q.value
  <2>6. Follows(T, x, a, Before(D, i)) /\ Follows(T, x, b, Before(E, j)) /\ a # b
    BY <2>2, <2>3, <2>5
  <2> HIDE DEF x, a, b
  <2>7. QED
    BY <2>4, <2>6, FollowsOnce
<1>4. QED
  <2> DEFINE p == [node |-> Plain(n), value |-> v]
             q == [node |-> Plain(n), value |-> w]
  <2>1. q \in Pairs(E) /\ p.node = q.node /\ p.value = v /\ q.value = w
    BY <1>2 DEF Gives
  <2>2. PICK i \in 1..Len(D) : p = D[i]
    BY <1>1 DEF Gives, Pairs
  <2>3. i \notin B
    BY <1>3
  <2> HIDE DEF p, q
  <2>4. QED
    BY <2>1, <2>2, <2>3

\* Who withholds disclosures can only withhold: whatever of the issuer's
\* disclosures a token is presented with, what it resolves to is a part of what
\* the payload expands to with all of them, U.
Withholds ==
  phase = "resolved" =>
    \A U, w : Extends(by_digest, U) /\ Expands(U, token.payload, w) => PartOf(Returned, w)

THEOREM OnlyWithholds == Spec => []Withholds
<1>1. Resolved => Withholds
  BY FewerDisclosePart, ExpandsInExpands DEF Resolved, Withholds
<1>2. QED
  BY <1>1, ResolvedIsExpanded, PTL

-----------------------------------------------------------------------------
(* The mandates that the holder of a token can show.                        *)

\* A digest has one disclosure, whoever presents it.
Agreeing(T, U) == \A d \in DOMAIN T \intersect DOMAIN U : T[d] = U[d]

\* With the disclosures T, a verifier of the AP2 SDK reads m in the token.
ReadAs(T, m) ==
  \E w : Expands(T, token.payload, w) /\ m = SdkContent(w) /\ IsMandate(m)

\* Where every digest is disclosed by U, others than U's show nothing more.
LEMMA AgreeingLess ==
  ASSUME NEW T, NEW U, Agreeing(T, U), NEW M, M \subseteq DOMAIN U,
         NEW n, NEW m, Met(M, n, m)
  PROVE  Less(T, U, n, m)
<1> SUFFICES ASSUME NEW i \in 1..m, Shown(T, n, i)
             PROVE  /\ Shown(U, n, i) /\ Within(T, n, i) = Within(U, n, i)
                    /\ Name(T, n, i) = Name(U, n, i)
  BY DEF Less
<1>1. CASE DigestAt(n, i) = Nothing
  BY <1>1 DEF Shown, Within, Name
<1>2. CASE DigestAt(n, i) # Nothing
  <2>1. DigestAt(n, i) \in DOMAIN T /\ DigestAt(n, i) \in DOMAIN U
    BY <1>2 DEF Shown, Met
  <2>2. T[DigestAt(n, i)] = U[DigestAt(n, i)]
    BY <2>1 DEF Agreeing
  <2>3. QED
    BY <1>2, <2>1, <2>2 DEF Shown, Within, Name
<1>3. QED
  BY <1>1, <1>2

LEMMA PartOfSelf ==
  ASSUME NEW a
  PROVE  PartOf(a, a)
<1> DEFINE R == {<<a, a>>}
<1>1. \A r \in R : r = <<r[1], r[2]>> /\ r[1] = r[2]
  OBVIOUS
<1>2. <<a, a>> \in R
  OBVIOUS
<1>3. QED
  BY <1>1, <1>2 DEF PartOf, PartIn

\* A part of an object is an object of parts,
LEMMA PartOfAnObject ==
  ASSUME NEW a, NEW b, PartOf(a, b), b.t = "object"
  PROVE  /\ a.t = "object"
         /\ \A k \in DOMAIN a.members :
              k \in DOMAIN b.members /\ PartOf(a.members[k], b.members[k])
<1>1. PICK R : <<a, b>> \in R /\ \A r \in R : r = <<r[1], r[2]>> /\ PartIn(r[1], r[2], R)
  BY DEF PartOf
<1>2. PartIn(a, b, R)
  <2>1. PartIn(<<a, b>>[1], <<a, b>>[2], R)
    BY <1>1
  <2>2. QED
    BY <2>1
<1>3. \A x, y : <<x, y>> \in R => PartOf(x, y)
  BY <1>1 DEF PartOf
<1>4. CASE a = b
  BY <1>4, PartOfSelf
<1>5. CASE a # b
  BY <1>2, <1>3, <1>5 DEF PartIn
<1>6. QED
  BY <1>4, <1>5

\* and of a list a list.
LEMMA PartOfAList ==
  ASSUME NEW a, NEW b, PartOf(a, b), b.t = "list"
  PROVE  /\ a.t = "list"
         /\ \E at \in [1..Len(a.items) -> 1..Len(b.items)] :
              \A i \in 1..Len(a.items) : PartOf(a.items[i], b.items[at[i]])
<1>1. PICK R : <<a, b>> \in R /\ \A r \in R : r = <<r[1], r[2]>> /\ PartIn(r[1], r[2], R)
  BY DEF PartOf
<1>2. PartIn(a, b, R)
  <2>1. PartIn(<<a, b>>[1], <<a, b>>[2], R)
    BY <1>1
  <2>2. QED
    BY <2>1
<1>3. \A x, y : <<x, y>> \in R => PartOf(x, y)
  BY <1>1 DEF PartOf
<1>4. CASE a = b
  <2> DEFINE at == [i \in 1..Len(a.items) |-> i]
  <2>1. at \in [1..Len(a.items) -> 1..Len(b.items)] /\ \A i \in 1..Len(a.items) : at[i] = i
    BY <1>4
  <2> HIDE DEF at
  <2>2. \A i \in 1..Len(a.items) : PartOf(a.items[i], b.items[at[i]])
    BY <1>4, <2>1, PartOfSelf
  <2>3. QED
    BY <1>4, <2>1, <2>2
<1>5. CASE a # b
  <2>1. a.t = "list"
    BY <1>2, <1>5 DEF PartIn
  <2>2. PICK at \in [1..Len(a.items) -> 1..Len(b.items)] :
          \A i \in 1..Len(a.items) : <<a.items[i], b.items[at[i]]>> \in R
    BY <1>2, <1>5 DEF PartIn
  <2>3. QED
    BY <1>3, <2>1, <2>2
<1>6. QED
  BY <1>4, <1>5

-----------------------------------------------------------------------------
(* Nodes and their values.                                                  *)

\* What a derivation gives a node follows from what it gives those in it.
LEMMA GivenFollows ==
  ASSUME NEW T, NEW D, Derivation(T, D), NEW n, NEW v, Gives(Pairs(D), n, v)
  PROVE  Follows(T, Plain(n), v, Pairs(D))
<1> DEFINE p == [node |-> Plain(n), value |-> v]
<1>1. p \in Pairs(D) /\ p.node = Plain(n) /\ p.value = v
  BY DEF Gives
<1> HIDE DEF p
<1>2. PICK i \in 1..Len(D) : Follows(T, p.node, p.value, Before(D, i)) /\ Before(D, i) \subseteq Pairs(D)
  BY <1>1, Expanding
<1> DEFINE x == Plain(n)
<1>3. Follows(T, x, v, Before(D, i))
  BY <1>1, <1>2
<1> HIDE DEF x
<1>4. \A m, out : Gathered(T, x, m, out, Before(D, i)) => Gathered(T, x, m, out, Pairs(D))
  BY <1>2, Monotone
<1>5. Follows(T, x, v, Pairs(D))
  BY <1>3, <1>4 DEF Follows
<1>6. QED
  BY <1>5 DEF x

\* An object's value is an object of claims,
LEMMA ObjectFollows ==
  ASSUME NEW T, NEW n, NEW v, NEW S, Follows(T, n, v, S), n.t = "object" \/ v.t = "object"
  PROVE  /\ n.t = "object" /\ n.sd # NotAList /\ v = [t |-> "object", members |-> v.members]
         /\ \A i \in 1..Places(n) : Fits(T, n, i)
         /\ Claims(T, n, Places(n), v.members, S)
<1>1. n.t # "leaf"
  BY DEF Follows
<1>2. PICK out : /\ Gathered(T, n, Places(n), out, S)
                 /\ \/ n.t = "list" /\ v = List(out)
                    \/ /\ n.t = "object" /\ n.sd # NotAList
                       /\ v = [t |-> "object", members |-> out]
  BY <1>1 DEF Follows
<1>3. n.t = "object" /\ n.sd # NotAList /\ v = [t |-> "object", members |-> out]
  BY <1>2 DEF List
<1>4. v.members = out
  BY <1>3
<1>5. QED
  BY <1>2, <1>3, <1>4 DEF Gathered

\* and a list's a list.
LEMMA ListFollows ==
  ASSUME NEW T, NEW n, NEW v, NEW S, Follows(T, n, v, S), n.t = "list" \/ v.t = "list"
  PROVE  n.t = "list" /\ v.t = "list" /\ Kept(T, n, Places(n), v.items, S)
<1>1. n.t # "leaf"
  BY DEF Follows
<1>2. PICK out : /\ Gathered(T, n, Places(n), out, S)
                 /\ \/ n.t = "list" /\ v = List(out)
                    \/ /\ n.t = "object" /\ n.sd # NotAList
                       /\ v = [t |-> "object", members |-> out]
  BY <1>1 DEF Follows
<1>3. n.t = "list" /\ v = List(out)
  BY <1>2 DEF List
<1>4. v.items = out /\ v.t = "list"
  BY <1>3 DEF List
<1>5. QED
  BY <1>2, <1>3, <1>4 DEF Gathered

\* A leaf's value is that leaf.
LEMMA LeafFollows ==
  ASSUME NEW T, NEW n, NEW v, NEW S, Follows(T, n, v, S), n.t = "leaf"
  PROVE  v = n
BY DEF Follows

\* Items of a list that was kept.
LEMMA KeptItems ==
  ASSUME NEW T, NEW n, NEW m, NEW out, NEW S, Kept(T, n, m, out, S)
  PROVE  /\ Len(out) \in Nat /\ DOMAIN out = 1..Len(out)
         /\ \A i \in 1..Len(out) : \E p \in Here(T, n, m) : Gives(S, Within(T, n, p), out[i])
         /\ \A p \in Here(T, n, m) : \E i \in 1..Len(out) : Gives(S, Within(T, n, p), out[i])
<1>1. PICK X : out \in Seq(X)
  BY DEF Kept, Sequence
<1>2. Len(out) \in Nat /\ DOMAIN out = 1..Len(out)
  BY <1>1
<1>3. PICK at \in [1..Len(out) -> Here(T, n, m)] :
        /\ \A p \in Here(T, n, m) : \E i \in 1..Len(out) : at[i] = p
        /\ \A i \in 1..Len(out) : Gives(S, Within(T, n, at[i]), out[i])
  BY DEF Kept
<1>4. QED
  BY <1>2, <1>3

-----------------------------------------------------------------------------
(* The places of an object, by name.                                        *)

LEMMA PlainNodes ==
  ASSUME NEW n \in Nodes, n.t # "placeholder"
  PROVE  Plain(n) = n /\ Shaped(n)
<1>1. Plain(n) = n
  BY DEF Plain
<1>2. QED
  BY <1>1, NodesAreShaped

\* A signed member stands at a place that shows it with every table.
LEMMA SignedPlace ==
  ASSUME NEW n \in Nodes, n.t = "object", NEW k \in DOMAIN Signed(n)
  PROVE  /\ Signed(n)[k] \in Nodes
         /\ \E i \in 1..Places(n) : \A T :
              /\ i \in Here(T, n, Places(n)) /\ Name(T, n, i) = k
              /\ Within(T, n, i) = Signed(n)[k] /\ DigestAt(n, i) = Nothing
<1> DEFINE is == {i \in DOMAIN n.members : n.members[i].k = k}
           c == CHOOSE i \in DOMAIN n.members : n.members[i].k = k
<1>1. k \in {n.members[i].k : i \in DOMAIN n.members} /\ Signed(n)[k] = n.members[c].v
  BY DEF Signed
<1>2. c \in DOMAIN n.members /\ n.members[c].k = k
  BY <1>1
<1> HIDE DEF c
<1>3. Len(n.members) \in Nat /\ c \in 1..Len(n.members) /\ n.members[c].v \in Nodes
  BY <1>2, NodesAssumption
<1>4. c \in 1..Places(n)
  <2>1. /\ n.sd = NotAList => Places(n) = Len(n.members)
        /\ n.sd # NotAList => Len(n.sd) \in Nat /\ Places(n) = Len(n.members) + Len(n.sd)
    BY PlainNodes, PlacesOfAnObject
  <2> DEFINE l == Len(n.members)
             s == Len(n.sd)
             x == Places(n)
             listed == n.sd # NotAList
  <2>2. l \in Nat /\ c \in 1..l /\ (~listed => x = l) /\ (listed => s \in Nat /\ x = l + s)
    BY <1>3, <2>1
  <2> HIDE DEF l, s, x, listed
  <2>3. c \in 1..x
    BY <2>2
  <2>4. QED
    BY <2>3 DEF x
<1>5. ~(c > Len(n.members))
  BY <1>3
<1>6. DigestAt(n, c) = Nothing
  BY <1>5 DEF DigestAt
<1>7. ASSUME NEW T
      PROVE  /\ c \in Here(T, n, Places(n)) /\ Name(T, n, c) = k
             /\ Within(T, n, c) = Signed(n)[k]
  BY <1>1, <1>2, <1>4, <1>6 DEF Here, Shown, Name, Within
<1>8. QED
  BY <1>1, <1>3, <1>4, <1>6, <1>7

\* So does a digest of its `_sd` that is disclosed.
LEMMA DisclosedPlace ==
  ASSUME NEW n \in Nodes, n.t = "object", n.sd # NotAList, NEW j \in DOMAIN n.sd,
         NEW T, n.sd[j] \in DOMAIN T
  PROVE  \E i \in Here(T, n, Places(n)) :
           Name(T, n, i) = T[n.sd[j]].name /\ Within(T, n, i) = T[n.sd[j]].value
<1>1. /\ Len(n.members) \in Nat /\ Len(n.sd) \in Nat /\ j \in 1..Len(n.sd)
      /\ n.sd[j] # Nothing
  BY NodesAssumption
<1>2. Places(n) = Len(n.members) + Len(n.sd)
  BY PlainNodes, PlacesOfAnObject
<1> DEFINE l == Len(n.members)
           s == Len(n.sd)
           x == Places(n)
           i == l + j
<1>3. l \in Nat /\ s \in Nat /\ j \in 1..s /\ x = l + s
  BY <1>1, <1>2
<1>4. i \in 1..x /\ i > l /\ i - l = j
  <2> HIDE DEF l, s, x
  <2>1. QED
    BY <1>3
<1> HIDE DEF i
<1>5. DigestAt(n, i) = n.sd[j]
  BY <1>4 DEF DigestAt
<1>6. i \in Here(T, n, Places(n)) /\ Name(T, n, i) = T[n.sd[j]].name
      /\ Within(T, n, i) = T[n.sd[j]].value
  BY <1>1, <1>4, <1>5 DEF Here, Shown, Name, Within
<1>7. QED
  BY <1>6

\* There are no others.
LEMMA EveryPlace ==
  ASSUME NEW n \in Nodes, n.t = "object", n.sd # NotAList, NEW i \in 1..Places(n)
  PROVE  \/ DigestAt(n, i) = Nothing /\ i \in DOMAIN n.members
         \/ \E j \in DOMAIN n.sd : DigestAt(n, i) = n.sd[j] /\ n.sd[j] # Nothing
<1>1. Len(n.members) \in Nat /\ Len(n.sd) \in Nat
  BY NodesAssumption
<1>2. Places(n) = Len(n.members) + Len(n.sd)
  BY PlainNodes, PlacesOfAnObject
<1> DEFINE l == Len(n.members)
           s == Len(n.sd)
           x == Places(n)
           j == i - l
<1>3. l \in Nat /\ s \in Nat /\ i \in 1..x /\ x = l + s
  BY <1>1, <1>2
<1>4. i \in 1..l \/ (i > l /\ j \in 1..s)
  <2> HIDE DEF l, s, x
  <2>1. QED
    BY <1>3
<1>5. CASE i \in 1..l
  <2>1. ~(i > Len(n.members))
    BY <1>1, <1>5
  <2>2. DigestAt(n, i) = Nothing
    BY <2>1 DEF DigestAt
  <2>3. QED
    BY <1>5, <2>2, NodesAssumption
<1>6. CASE i > l /\ j \in 1..s
  <2>1. DigestAt(n, i) = n.sd[j]
    BY <1>6 DEF DigestAt
  <2>2. j \in DOMAIN n.sd /\ n.sd[j] # Nothing
    BY <1>6, NodesAssumption
  <2>3. QED
    BY <2>1, <2>2
<1>7. QED
  BY <1>4, <1>5, <1>6

\* The disclosures as the second reading of the token finds them are the table.
LEMMA SameTable ==
  ASSUME NEW p, NEW U, IsTable(U, p.disclosures)
  PROVE  DOMAIN DMap(p) = DOMAIN U /\ \A d \in DOMAIN U : DMap(p)[d] = U[d]
<1> DEFINE ds == p.disclosures
<1>1. DOMAIN DMap(p) = DOMAIN U
  BY DEF DMap, IsTable
<1>2. ASSUME NEW d \in DOMAIN U
      PROVE  DMap(p)[d] = U[d]
  <2> DEFINE c == CHOOSE x \in ToSet(ds) : x.digest = d
  <2>1. PICK i \in DOMAIN ds : ds[i].digest = d
    BY DEF IsTable
  <2>2. \E x \in ToSet(ds) : x.digest = d
    BY <2>1 DEF ToSet
  <2>3. c \in ToSet(ds) /\ c.digest = d
    BY <2>2
  <2>4. PICK j \in DOMAIN ds : c = ds[j]
    BY <2>3 DEF ToSet
  <2>5. U[d] = c
    BY <2>3, <2>4 DEF IsTable
  <2>6. DMap(p)[d] = c
    BY <1>1 DEF DMap
  <2>7. QED
    BY <2>5, <2>6
<1>3. QED
  BY <1>1, <1>2

\* A name that is not disclosed in the object is signed in it.
LEMMA NotDisclosedIsSigned ==
  ASSUME NEW p, NEW U, IsTable(U, p.disclosures),
         NEW n \in Nodes, n.t = "object", n.sd # NotAList,
         NEW i \in Here(U, n, Places(n)), Fits(U, n, i), NEW k, k = Name(U, n, i),
         Disclosing(p, n, k) = {}
  PROVE  k \in DOMAIN Signed(n)
<1>1. i \in 1..Places(n) /\ Shown(U, n, i)
  BY DEF Here
<1>2. CASE DigestAt(n, i) = Nothing /\ i \in DOMAIN n.members
  <2>1. k = n.members[i].k
    BY <1>2 DEF Name
  <2>2. QED
    BY <1>2, <2>1 DEF Signed
<1>3. CASE \E j \in DOMAIN n.sd : DigestAt(n, i) = n.sd[j] /\ n.sd[j] # Nothing
  <2>1. PICK j \in DOMAIN n.sd : DigestAt(n, i) = n.sd[j] /\ n.sd[j] # Nothing
    BY <1>3
  <2>2. n.sd[j] \in DOMAIN U /\ U[n.sd[j]].form = "object" /\ U[n.sd[j]].name = k
    BY <1>1, <2>1 DEF Shown, Fits, Name
  <2>3. n.sd[j] \in DOMAIN DMap(p) /\ DMap(p)[n.sd[j]] = U[n.sd[j]]
    BY <2>2, SameTable
  <2>4. j \in Disclosing(p, n, k)
    BY <2>2, <2>3 DEF Disclosing
  <2>5. QED
    BY <2>4
<1>4. QED
  BY <1>1, <1>2, <1>3, EveryPlace

\* What the second reading finds under a name is what the resolver found there.
LEMMA PropIsWithin ==
  ASSUME NEW p, NEW U, IsTable(U, p.disclosures),
         NEW n \in Nodes, n.t = "object", n.sd # NotAList,
         NEW o, NEW S, Claims(U, n, Places(n), o, S),
         NEW i \in Here(U, n, Places(n)), NEW k, k = Name(U, n, i), Prop(p, n, k) # Nothing
  PROVE  Prop(p, n, k) = Within(U, n, i)
<1>1. \A j \in Here(U, n, Places(n)) : Name(U, n, j) = k => j = i
  BY DEF Claims
<1>2. CASE k \in DOMAIN Signed(n)
  <2>1. Prop(p, n, k) = Signed(n)[k]
    BY <1>2 DEF Prop
  <2>2. PICK j \in 1..Places(n) :
          j \in Here(U, n, Places(n)) /\ Name(U, n, j) = k /\ Within(U, n, j) = Signed(n)[k]
    BY <1>2, SignedPlace
  <2>3. QED
    BY <1>1, <2>1, <2>2
<1>3. CASE k \notin DOMAIN Signed(n)
  <2> DEFINE at == Disclosing(p, n, k)
             c == CHOOSE x \in at : \A y \in at : x <= y
  <2>1. at # {} /\ Prop(p, n, k) = DMap(p)[n.sd[c]].value
    BY <1>3 DEF Prop
  <2>2. c \in at
    <3>1. at \in SUBSET Nat
      <4>1. DOMAIN n.sd = 1..Len(n.sd) /\ Len(n.sd) \in Nat
        BY NodesAssumption
      <4>2. at \subseteq DOMAIN n.sd
        BY DEF Disclosing
      <4>3. QED
        BY <4>1, <4>2
    <3> HIDE DEF at
    <3>2. \E x \in at : \A y \in at : x <= y
      BY <2>1, <3>1, LeastNumber
    <3>3. QED
      BY <3>2
  <2> HIDE DEF c
  <2>3. c \in DOMAIN n.sd /\ n.sd[c] \in DOMAIN DMap(p) /\ DMap(p)[n.sd[c]].name = k
    BY <2>2 DEF Disclosing
  <2>4. n.sd[c] \in DOMAIN U /\ DMap(p)[n.sd[c]] = U[n.sd[c]]
    BY <2>3, SameTable
  <2>5. PICK j \in Here(U, n, Places(n)) :
          Name(U, n, j) = U[n.sd[c]].name /\ Within(U, n, j) = U[n.sd[c]].value
    BY <2>3, <2>4, DisclosedPlace
  <2>6. QED
    BY <1>1, <2>1, <2>3, <2>4, <2>5
<1>4. QED
  BY <1>2, <1>3

-----------------------------------------------------------------------------
(* Two derivations, D over what a holder shows and E over what was resolved.  *)

Beside(T, U, D, E) ==
  /\ Derivation(T, D) /\ Derivation(U, E)
  /\ \A q \in Pairs(E) : Less(T, U, q.node, Places(q.node))

\* They give the node n the values a and v.
Both(D, E, n, a, v) == Gives(Pairs(D), n, a) /\ Gives(Pairs(E), n, v)

LEMMA BothFollow ==
  ASSUME NEW T, NEW U, NEW D, NEW E, Beside(T, U, D, E),
         NEW n, NEW a, NEW v, Both(D, E, n, a, v)
  PROVE  /\ PartOf(a, v) /\ Less(T, U, Plain(n), Places(Plain(n)))
         /\ Follows(T, Plain(n), a, Pairs(D)) /\ Follows(U, Plain(n), v, Pairs(E))
<1>1. Follows(T, Plain(n), a, Pairs(D)) /\ Follows(U, Plain(n), v, Pairs(E))
  BY GivenFollows DEF Beside, Both
<1>2. PartOf(a, v)
  BY LessDerivesPart DEF Beside, Both
<1>3. Less(T, U, Plain(n), Places(Plain(n)))
  <2> DEFINE p == [node |-> Plain(n), value |-> v]
  <2>1. p \in Pairs(E) /\ p.node = Plain(n)
    BY DEF Both, Gives
  <2> HIDE DEF p
  <2>2. Less(T, U, p.node, Places(p.node))
    BY <2>1 DEF Beside
  <2>3. QED
    BY <2>1, <2>2
<1>4. QED
  BY <1>1, <1>2, <1>3

\* What is shown under a name is what was resolved under it.
LEMMA BothMembers ==
  ASSUME NEW T, NEW U, NEW D, NEW E, Beside(T, U, D, E),
         NEW n, n.t = "object", NEW a, NEW v, Both(D, E, n, a, v),
         NEW k \in DOMAIN a.members
  PROVE  \E i \in Here(U, n, Places(n)) :
           /\ Name(U, n, i) = k /\ k \in DOMAIN v.members
           /\ Both(D, E, Within(U, n, i), a.members[k], v.members[k])
<1>1. Plain(n) = n
  BY DEF Plain
<1>2. /\ Less(T, U, n, Places(n))
      /\ Follows(T, n, a, Pairs(D)) /\ Follows(U, n, v, Pairs(E))
  BY <1>1, BothFollow
<1>3. /\ Claims(T, n, Places(n), a.members, Pairs(D))
      /\ Claims(U, n, Places(n), v.members, Pairs(E))
  BY <1>2, ObjectFollows
<1>4. PICK i \in Here(T, n, Places(n)) : k = Name(T, n, i)
  BY <1>3 DEF Claims
<1>5. /\ i \in Here(U, n, Places(n)) /\ Within(T, n, i) = Within(U, n, i)
      /\ Name(U, n, i) = k
  BY <1>2, <1>4 DEF Less, Here
<1>6. Gives(Pairs(D), Within(U, n, i), a.members[k])
  BY <1>3, <1>4, <1>5 DEF Claims
<1>7. k \in DOMAIN v.members /\ Gives(Pairs(E), Within(U, n, i), v.members[k])
  BY <1>3, <1>5 DEF Claims
<1>8. QED
  BY <1>5, <1>6, <1>7 DEF Both

\* A signed member is always shown.
LEMMA SignedStays ==
  ASSUME NEW T, NEW D, Derivation(T, D), NEW n \in Nodes, n.t = "object",
         NEW a, Gives(Pairs(D), n, a), NEW k \in DOMAIN Signed(n)
  PROVE  k \in DOMAIN a.members /\ Gives(Pairs(D), Signed(n)[k], a.members[k])
<1>1. Plain(n) = n
  BY DEF Plain
<1>2. Claims(T, n, Places(n), a.members, Pairs(D))
  BY <1>1, GivenFollows, ObjectFollows
<1>3. PICK i \in 1..Places(n) :
        /\ i \in Here(T, n, Places(n)) /\ Name(T, n, i) = k
        /\ Within(T, n, i) = Signed(n)[k]
  BY SignedPlace
<1>4. QED
  BY <1>2, <1>3 DEF Claims

\* What was resolved, beside what its holder shows with T.
LEMMA Shows ==
  ASSUME Resolved, phase = "resolved", Hidden = {},
         NEW T, Agreeing(T, by_digest), NEW w, Expands(T, token.payload, w)
  PROVE  \E D, E : Beside(T, by_digest, D, E) /\ Both(D, E, token.payload, w, Returned)
<1>1. PICK D : Derivation(T, D) /\ Gives(Pairs(D), token.payload, w)
  BY DEF Expands
<1>2. PICK E : /\ Derivation(by_digest, E) /\ Gives(Pairs(E), token.payload, Returned)
               /\ \A p \in Pairs(E) : Met(ToSet(encountered), p.node, Places(p.node))
  BY DEF Resolved, ExpandsIn
<1>3. ToSet(encountered) \subseteq DOMAIN by_digest
  BY DEF Hidden, Resolved
<1>4. \A q \in Pairs(E) : Less(T, by_digest, q.node, Places(q.node))
  BY <1>2, <1>3, AgreeingLess
<1>5. QED
  BY <1>1, <1>2, <1>4 DEF Beside, Both

\* The member that holds the content is signed, unless it is disclosed.
LEMMA DelegateIsSigned ==
  ASSUME NEW p, NEW U, IsTable(U, p.disclosures), p.payload \in Nodes,
         p.payload.t = "object", ~DpDisclosed(p),
         NEW E, Derivation(U, E), NEW v, Gives(Pairs(E), p.payload, v),
         DELEGATE \in DOMAIN v.members
  PROVE  DELEGATE \in DOMAIN Signed(p.payload)
<1> DEFINE n == p.payload
<1>1. Plain(n) = n
  BY DEF Plain
<1>2. /\ n.sd # NotAList /\ Claims(U, n, Places(n), v.members, Pairs(E))
      /\ \A i \in 1..Places(n) : Fits(U, n, i)
  BY <1>1, GivenFollows, ObjectFollows
<1>3. PICK i \in Here(U, n, Places(n)) : DELEGATE = Name(U, n, i)
  BY <1>2 DEF Claims
<1>4. Fits(U, n, i)
  BY <1>2, <1>3 DEF Here
<1>5. Disclosing(p, n, DELEGATE) = {}
  BY DEF DpDisclosed
<1>6. QED
  BY <1>2, <1>3, <1>4, <1>5, NotDisclosedIsSigned

\* Of a readable token, the payload is an object as signed.
LEMMA ReadablePayload ==
  ASSUME TraceInv, Resolved, Readable
  PROVE  /\ token.payload \in Nodes /\ token.payload.t = "object"
         /\ phase = "resolved" /\ Hidden = {} /\ IsTable(by_digest, token.disclosures)
<1>1. phase = "resolved" /\ Returned.t = "object" /\ Hidden = {}
  BY DEF Readable
<1>2. token.payload \in Nodes /\ token.payload.t # "placeholder"
  BY NodesAssumption DEF TraceInv, Tabled
<1>3. PICK E : Derivation(by_digest, E) /\ Gives(Pairs(E), token.payload, Returned)
  BY <1>1 DEF Resolved, ExpandsIn
<1>4. Follows(by_digest, token.payload, Returned, Pairs(E))
  BY <1>2, <1>3, GivenFollows DEF Plain
<1>5. token.payload.t = "object"
  BY <1>1, <1>4, ObjectFollows
<1>6. QED
  BY <1>1, <1>2, <1>5 DEF Resolved

\* The content that is read of a mandate, and the content that is compared.
LEMMA ContentsOfAMandate ==
  ASSUME TraceInv, Resolved, Readable, ~DpDisclosed(token),
         NEW T, NEW D, NEW E, Beside(T, by_digest, D, E),
         NEW w, Both(D, E, token.payload, w, Returned), IsMandate(SdkContent(w))
  PROVE  \/ /\ DELEGATE \notin DOMAIN Returned.members
            /\ SdkContent(w) = w /\ MandateForm(Returned).content = Returned
         \/ /\ DELEGATE \in DOMAIN Signed(token.payload)
            /\ Both(D, E, Signed(token.payload)[DELEGATE],
                    w.members[DELEGATE], Returned.members[DELEGATE])
            /\ w.members[DELEGATE].t = "list" /\ Len(w.members[DELEGATE].items) = 1
            /\ Returned.members[DELEGATE].t = "list" /\ Len(Returned.members[DELEGATE].items) = 1
            /\ SdkContent(w) = w.members[DELEGATE].items[1]
            /\ MandateForm(Returned).content = Returned.members[DELEGATE].items[1]
<1>1. /\ token.payload \in Nodes /\ token.payload.t = "object"
      /\ IsTable(by_digest, token.disclosures) /\ Returned.t = "object"
  BY ReadablePayload DEF Readable
<1>2. PartOf(w, Returned)
  BY BothFollow
<1>3. w.t = "object" /\ \A k \in DOMAIN w.members : k \in DOMAIN Returned.members
  BY <1>1, <1>2, PartOfAnObject
<1>4. CASE DELEGATE \notin DOMAIN Returned.members
  <2>1. ~Has(w, DELEGATE) /\ ~Has(Returned, DELEGATE)
    BY <1>3, <1>4 DEF Has
  <2>2. SdkContent(w) = w
    BY <2>1 DEF SdkContent
  <2>3. MandateForm(Returned).content = Returned
    BY <2>1 DEF MandateForm, Reading
  <2>4. QED
    BY <1>4, <2>2, <2>3
<1>5. CASE DELEGATE \in DOMAIN Returned.members
  <2> DEFINE dp == Returned.members[DELEGATE]
             dw == w.members[DELEGATE]
  <2>1. DELEGATE \in DOMAIN Signed(token.payload)
    BY <1>1, <1>5, DelegateIsSigned DEF Beside, Both
  <2>2. DELEGATE \in DOMAIN w.members
        /\ Both(D, E, Signed(token.payload)[DELEGATE], dw, dp)
    BY <1>1, <2>1, SignedStays DEF Beside, Both
  <2>3. Has(Returned, DELEGATE) /\ Has(w, DELEGATE)
    BY <1>1, <1>3, <1>5, <2>2 DEF Has
  <2>4. dp.t = "list" /\ Len(dp.items) = 1 /\ MandateForm(Returned).content = dp.items[1]
    <3>1. MandateForm(Returned) =
            IF dp.t = "list" /\ Len(dp.items) = 1 /\ dp.items[1].t = "object"
              THEN Reading(DELEGATE, dp.items[1]) ELSE Reading(Nothing, Nothing)
      BY <2>3 DEF MandateForm
    <3>2. MandateForm(Returned).form # Nothing
      BY DEF Readable
    <3>3. QED
      BY <3>1, <3>2 DEF Reading
  <2>5. dw.t = "list"
    BY <2>2, <2>4, BothFollow, PartOfAList
  <2>6. SdkContent(w) = MandateForm(w).content /\ SdkContent(w) # Nothing
    BY <2>3, <2>5 DEF SdkContent, IsMandate
  <2>7. Len(dw.items) = 1 /\ SdkContent(w) = dw.items[1]
    <3>1. MandateForm(w) =
            IF dw.t = "list" /\ Len(dw.items) = 1 /\ dw.items[1].t = "object"
              THEN Reading(DELEGATE, dw.items[1]) ELSE Reading(Nothing, Nothing)
      BY <2>3 DEF MandateForm
    <3>2. QED
      BY <2>6, <3>1 DEF Reading
  <2>8. QED
    BY <2>1, <2>2, <2>4, <2>5, <2>7
<1>6. QED
  BY <1>4, <1>5

\* An original that is compared at all has one set of terms: whatever disclosures
\* its holder shows, of those resolved and of any other, the mandate that is read
\* then is the content that is compared, or a part of it.
OneReading ==
  Readable /\ ~DpDisclosed(token) =>
    \A T, m : Agreeing(T, by_digest) /\ ReadAs(T, m) => PartOf(m, MandateForm(Returned).content)

THEOREM OriginalsHaveOneReading == Spec => []OneReading
<1>1. TraceInv /\ Resolved => OneReading
  <2> SUFFICES ASSUME TraceInv, Resolved, Readable, ~DpDisclosed(token),
                      NEW T, NEW m, Agreeing(T, by_digest), ReadAs(T, m)
               PROVE  PartOf(m, MandateForm(Returned).content)
    BY DEF OneReading
  <2>1. PICK w : Expands(T, token.payload, w) /\ m = SdkContent(w) /\ IsMandate(m)
    BY DEF ReadAs
  <2>2. PICK D, E : Beside(T, by_digest, D, E) /\ Both(D, E, token.payload, w, Returned)
    BY <2>1, Shows, ReadablePayload
  <2>3. CASE SdkContent(w) = w /\ MandateForm(Returned).content = Returned
    BY <2>1, <2>2, <2>3, BothFollow
  <2>4. CASE /\ Both(D, E, Signed(token.payload)[DELEGATE],
                     w.members[DELEGATE], Returned.members[DELEGATE])
             /\ Len(w.members[DELEGATE].items) = 1
             /\ Returned.members[DELEGATE].t = "list" /\ Len(Returned.members[DELEGATE].items) = 1
             /\ SdkContent(w) = w.members[DELEGATE].items[1]
             /\ MandateForm(Returned).content = Returned.members[DELEGATE].items[1]
    <3> DEFINE a == w.members[DELEGATE]
               b == Returned.members[DELEGATE]
    <3>1. PartOf(a, b) /\ b.t = "list" /\ Len(a.items) = 1 /\ Len(b.items) = 1
      BY <2>2, <2>4, BothFollow
    <3> HIDE DEF a, b
    <3>2. PICK at \in [1..1 -> 1..1] : \A i \in 1..1 : PartOf(a.items[i], b.items[at[i]])
      BY <3>1, PartOfAList
    <3>3. at[1] = 1 /\ PartOf(a.items[1], b.items[1])
      BY <3>2
    <3>4. QED
      BY <2>1, <2>4, <3>3 DEF a, b
  <2>5. QED
    BY <2>1, <2>2, <2>3, <2>4, ContentsOfAMandate
<1>2. QED
  BY <1>1, AlwaysTraced, ResolvedIsExpanded, PTL

-----------------------------------------------------------------------------
(* The reference of a record.                                               *)

\* What stands in a node is a node.
LEMMA WithinNodes ==
  ASSUME TraceInv, phase = "resolved", NEW n \in Nodes,
         n.t = "list" \/ (n.t = "object" /\ n.sd # NotAList),
         NEW i \in Here(by_digest, n, Places(n))
  PROVE  Within(by_digest, n, i) \in Nodes
<1>1. i \in 1..Places(n) /\ Shown(by_digest, n, i)
  BY DEF Here
<1>2. CASE DigestAt(n, i) # Nothing
  <2>1. DigestAt(n, i) \in DOMAIN by_digest
    BY <1>1, <1>2 DEF Shown
  <2>2. by_digest[DigestAt(n, i)].value \in Nodes
    BY <2>1, DisclosedAreNodes DEF TraceInv
  <2>3. QED
    BY <1>2, <2>2 DEF Within
<1>3. CASE DigestAt(n, i) = Nothing /\ n.t = "list"
  <2>1. i \in 1..Len(n.items)
    BY <1>1, <1>3 DEF Places
  <2>2. n.items[i] \in Nodes
    BY <1>3, <2>1, NodesAssumption
  <2>3. QED
    BY <1>3, <2>2 DEF Within
<1>4. CASE DigestAt(n, i) = Nothing /\ n.t = "object" /\ n.sd # NotAList
  <2>1. i \in DOMAIN n.members
    BY <1>1, <1>4, EveryPlace
  <2>2. n.members[i].v \in Nodes
    BY <1>4, <2>1, NodesAssumption
  <2>3. QED
    BY <1>4, <2>2 DEF Within
<1>5. QED
  BY <1>2, <1>3, <1>4

\* The values of a derivation are made of its values.
Values(E) == {p.value : p \in Pairs(E)}

LEMMA GivenIsMade ==
  ASSUME NEW E, NEW n, NEW v, Gives(Pairs(E), n, v)
  PROVE  v \in Values(E)
<1> DEFINE p == [node |-> Plain(n), value |-> v]
<1>1. p \in Pairs(E) /\ p.value = v
  BY DEF Gives
<1> HIDE DEF p
<1>2. QED
  BY <1>1 DEF Values

LEMMA MadeOfMade ==
  ASSUME NEW U, NEW E, Derivation(U, E), NEW v \in Values(E)
  PROVE  /\ v.t = "object" =>
              /\ v = [t |-> "object", members |-> v.members]
              /\ \A k \in DOMAIN v.members : v.members[k] \in Values(E)
         /\ v.t = "list" => \A i \in DOMAIN v.items : v.items[i] \in Values(E)
<1>1. PICK p \in Pairs(E) : v = p.value
  BY DEF Values
<1>2. PICK i \in 1..Len(E) :
        Follows(U, p.node, p.value, Before(E, i)) /\ Before(E, i) \subseteq Pairs(E)
  BY Expanding
<1> DEFINE S == Before(E, i)
           n == p.node
<1>3. Follows(U, n, v, S) /\ S \subseteq Pairs(E)
  BY <1>1, <1>2
<1> HIDE DEF S, n
<1>4. \A x, y : Gives(S, x, y) => y \in Values(E)
  BY <1>3, GivenIsMade DEF Gives
<1>5. ASSUME v.t = "object"
      PROVE  /\ v = [t |-> "object", members |-> v.members]
             /\ \A k \in DOMAIN v.members : v.members[k] \in Values(E)
  <2>1. /\ v = [t |-> "object", members |-> v.members]
        /\ Claims(U, n, Places(n), v.members, S)
    BY <1>3, <1>5, ObjectFollows
  <2>2. ASSUME NEW k \in DOMAIN v.members PROVE v.members[k] \in Values(E)
    <3>1. PICK j \in Here(U, n, Places(n)) : k = Name(U, n, j)
      BY <2>1 DEF Claims
    <3>2. Gives(S, Within(U, n, j), v.members[k])
      BY <2>1, <3>1 DEF Claims
    <3>3. QED
      BY <1>4, <3>2
  <2>3. QED
    BY <2>1, <2>2
<1>6. ASSUME v.t = "list", NEW j \in DOMAIN v.items
      PROVE  v.items[j] \in Values(E)
  <2>1. Kept(U, n, Places(n), v.items, S)
    BY <1>3, <1>6, ListFollows
  <2>2. \E q \in Here(U, n, Places(n)) : Gives(S, Within(U, n, q), v.items[j])
    BY <1>6, <2>1, KeptItems
  <2>3. QED
    BY <1>4, <2>2
<1>7. QED
  BY <1>5, <1>6

\* The reference that is read is an object of that type, of claims and no more.
LEMMA RefIsMade ==
  ASSUME NEW U, NEW E, Derivation(U, E), Returned \in Values(E),
         Readable, RecordRefs(Returned) # {}
  PROVE  /\ IsRef(TheRef(Returned))
         /\ TheRef(Returned) = [t |-> "object", members |-> TheRef(Returned).members]
<1> DEFINE content == MandateForm(Returned).content
           at == CHOOSE r \in RecordRefs(Returned) : TRUE
<1>1. Contents(Returned) = <<content>>
  BY DEF Contents, Readable
<1>2. content \in Values(E)
  <2>1. Returned.t = "object" /\ MandateForm(Returned).form # Nothing
    BY DEF Readable
  <2>2. CASE ~Has(Returned, DELEGATE)
    BY <2>2 DEF MandateForm, Reading
  <2>3. CASE Has(Returned, DELEGATE)
    <3> DEFINE dp == Returned.members[DELEGATE]
    <3>1. dp \in Values(E)
      BY <2>1, <2>3, MadeOfMade DEF Has
    <3>2. MandateForm(Returned) =
            IF dp.t = "list" /\ Len(dp.items) = 1 /\ dp.items[1].t = "object"
              THEN Reading(DELEGATE, dp.items[1]) ELSE Reading(Nothing, Nothing)
      BY <2>3 DEF MandateForm
    <3>3. dp.t = "list" /\ Len(dp.items) = 1 /\ content = dp.items[1]
      BY <2>1, <3>2 DEF Reading
    <3> HIDE DEF dp
    <3>4. PICK p \in Pairs(E) : dp = p.value
      BY <3>1 DEF Values
    <3>5. PICK i \in 1..Len(E) : Follows(U, p.node, dp, Before(E, i))
      BY <3>4, Expanding
    <3>6. DOMAIN dp.items = 1..1
      BY <3>3, <3>5, ListFollows, KeptItems
    <3>7. dp.items[1] \in Values(E)
      BY <3>1, <3>3, <3>6, MadeOfMade
    <3>8. QED
      BY <3>3, <3>7
  <2>4. QED
    BY <2>2, <2>3
<1> HIDE DEF content
<1>3. at \in RecordRefs(Returned)
  OBVIOUS
<1>0. TheRef(Returned) = ConstraintsOf(Contents(Returned)[at[1]])[at[2]]
  BY DEF TheRef
<1> HIDE DEF at
<1>4. PICK i \in DOMAIN Contents(Returned) :
        at \in {<<i, j>> : j \in {k \in DOMAIN ConstraintsOf(Contents(Returned)[i]) :
                                     IsRef(ConstraintsOf(Contents(Returned)[i])[k])}}
  BY <1>3 DEF RecordRefs
<1>5. PICK j \in DOMAIN ConstraintsOf(Contents(Returned)[i]) :
        at = <<i, j>> /\ IsRef(ConstraintsOf(Contents(Returned)[i])[j])
  BY <1>4
<1>6. Contents(Returned)[i] = content
  BY <1>1, <1>4
<1>7. TheRef(Returned) = ConstraintsOf(content)[j]
  <2>1. at[1] = i /\ at[2] = j
    BY <1>5
  <2>2. QED
    BY <1>0, <1>6, <2>1
<1>8. ConstraintsOf(content)[j] \in Values(E)
  <2> DEFINE cons == content.members["constraints"]
  <2>1. CASE Has(content, "constraints") /\ cons.t = "list"
    <3>1. cons \in Values(E)
      BY <1>2, <2>1, MadeOfMade DEF Has
    <3>2. ConstraintsOf(content) = cons.items
      BY <2>1 DEF ConstraintsOf
    <3> HIDE DEF cons
    <3>3. j \in DOMAIN cons.items
      BY <1>5, <1>6, <3>2
    <3>4. QED
      BY <2>1, <3>1, <3>2, <3>3, MadeOfMade
  <2>2. CASE ~(Has(content, "constraints") /\ cons.t = "list")
    <3>1. ConstraintsOf(content) = <<>>
      BY <2>2 DEF ConstraintsOf
    <3>2. QED
      BY <1>5, <1>6, <3>1
  <2>3. QED
    BY <2>1, <2>2
<1>9. IsRef(TheRef(Returned)) /\ TheRef(Returned) \in Values(E)
  BY <1>5, <1>6, <1>7, <1>8
<1>10. QED
  BY <1>9, MadeOfMade DEF IsRef, Has

\* An element of a signed list that is the reference, as signed, is in whatever
\* is made of the list.
LEMMA SignedRefStays ==
  ASSUME NEW T, NEW D, Derivation(T, D), NEW cons \in Nodes, cons.t = "list",
         NEW l, Gives(Pairs(D), cons, l),
         NEW ref, IsRef(ref), ref = [t |-> "object", members |-> ref.members], WellFormed(ref),
         NEW i \in DOMAIN cons.items, IsSigned(token, cons.items[i], ref)
  PROVE  l.t = "list" /\ \E j \in DOMAIN l.items : l.items[j] = ref
<1> DEFINE x == cons.items[i]
<1>1. x \in Nodes /\ x.t = "object" /\ x.sd = <<>> /\ Signed(x) = ref.members
  BY NodesAssumption DEF IsSigned
<1>2. Plain(cons) = cons /\ Plain(x) = x
  BY <1>1 DEF Plain
<1>3. l.t = "list" /\ Kept(T, cons, Places(cons), l.items, Pairs(D))
  BY <1>2, GivenFollows, ListFollows
<1>4. i \in Here(T, cons, Places(cons)) /\ Within(T, cons, i) = x
  <2>1. i \in 1..Places(cons)
    BY NodesAssumption DEF Places
  <2>2. DigestAt(cons, i) = Nothing
    BY <1>1 DEF DigestAt
  <2>3. QED
    BY <2>1, <2>2 DEF Here, Shown, Within
<1>5. PICK j \in 1..Len(l.items) : Gives(Pairs(D), x, l.items[j])
  BY <1>3, <1>4, KeptItems
<1>6. j \in DOMAIN l.items
  BY <1>3, KeptItems
<1> DEFINE y == l.items[j]
<1> HIDE DEF x
<1>7. /\ y = [t |-> "object", members |-> y.members]
      /\ Claims(T, x, Places(x), y.members, Pairs(D)) /\ x.sd # NotAList
  BY <1>1, <1>2, <1>5, GivenFollows, ObjectFollows
<1> HIDE DEF y
<1>8. DOMAIN y.members = DOMAIN Signed(x)
  <2>1. \A k \in DOMAIN Signed(x) : k \in DOMAIN y.members
    BY <1>1, <1>5, SignedStays DEF y
  <2>2. ASSUME NEW k \in DOMAIN y.members
        PROVE  k \in DOMAIN Signed(x)
    <3>1. PICK q \in Here(T, x, Places(x)) : k = Name(T, x, q)
      BY <1>7 DEF Claims
    <3>2. q \in 1..Places(x)
      BY <3>1 DEF Here
    <3>3. DOMAIN x.sd = {}
      BY <1>1
    <3>4. DigestAt(x, q) = Nothing /\ q \in DOMAIN x.members
      BY <1>1, <1>7, <3>2, <3>3, EveryPlace
    <3>5. QED
      BY <3>1, <3>4 DEF Name, Signed
  <2>3. QED
    BY <2>1, <2>2
<1>9. ASSUME NEW k \in DOMAIN Signed(x)
      PROVE  y.members[k] = Signed(x)[k]
  <2>1. Gives(Pairs(D), Signed(x)[k], y.members[k]) /\ Signed(x)[k] \in Nodes
    BY <1>1, <1>5, <1>9, SignedStays, SignedPlace DEF y
  <2>2. Signed(x)[k].t = "leaf"
    <3>1. k = "type" \/ k = "issuer_jwt_hash"
      BY <1>1, <1>9 DEF WellFormed, RESTRICTS_KEYS
    <3>2. ref.members["type"].t = "leaf"
      BY DEF IsRef, Leaf
    <3>3. ref.members["issuer_jwt_hash"].t = "leaf"
      BY DEF WellFormed
    <3>4. QED
      BY <1>1, <3>1, <3>2, <3>3
  <2> DEFINE z == Signed(x)[k]
             v == y.members[k]
  <2>3. Plain(z) = z /\ z.t = "leaf"
    BY <2>2 DEF Plain
  <2>4. Gives(Pairs(D), z, v)
    BY <2>1
  <2> HIDE DEF z, v
  <2>5. v = z
    BY <2>3, <2>4, GivenFollows, LeafFollows
  <2>6. QED
    BY <2>5 DEF z, v
<1>10. y.members = ref.members
  <2> DEFINE a == y.members
             b == Signed(x)
  <2>1. a = [k \in DOMAIN a |-> a[k]]
    BY <1>7 DEF Claims
  <2>2. b = [k \in DOMAIN b |-> b[k]]
    BY DEF Signed
  <2>3. DOMAIN a = DOMAIN b /\ \A k \in DOMAIN b : a[k] = b[k]
    BY <1>8, <1>9
  <2> HIDE DEF a, b
  <2>4. a = b
    BY <2>1, <2>2, <2>3, Zenon
  <2>5. QED
    BY <1>1, <2>4 DEF a, b
<1>11. y = ref
  BY <1>7, <1>10
<1>12. QED
  BY <1>3, <1>6, <1>11 DEF y

\* The signed content that the second reading finds is the one whose value is
\* compared, and what is made of it is the mandate that is read.
LEMMA TheSignedContent ==
  ASSUME TraceInv, Resolved, Readable, ~DpDisclosed(token),
         NEW T, NEW D, NEW E, Beside(T, by_digest, D, E),
         NEW w, Both(D, E, token.payload, w, Returned), IsMandate(SdkContent(w)),
         NEW c \in SignedContents(token), c # Nothing, c.t = "object"
  PROVE  c \in Nodes /\ Both(D, E, c, SdkContent(w), MandateForm(Returned).content)
<1> DEFINE n == token.payload
           U == by_digest
<1>1. n \in Nodes /\ n.t = "object" /\ IsTable(U, token.disclosures) /\ phase = "resolved"
  BY ReadablePayload
<1>2. CASE /\ DELEGATE \notin DOMAIN Returned.members
           /\ SdkContent(w) = w /\ MandateForm(Returned).content = Returned
  <2>1. DELEGATE \notin DOMAIN Signed(n)
    BY <1>1, <1>2, SignedStays DEF Beside, Both
  <2>2. c = n
    BY <2>1 DEF SignedContents
  <2>3. QED
    BY <1>1, <1>2, <2>2
<1>3. CASE /\ DELEGATE \in DOMAIN Signed(n)
           /\ Both(D, E, Signed(n)[DELEGATE], w.members[DELEGATE], Returned.members[DELEGATE])
           /\ w.members[DELEGATE].t = "list" /\ Len(w.members[DELEGATE].items) = 1
           /\ Returned.members[DELEGATE].t = "list" /\ Len(Returned.members[DELEGATE].items) = 1
           /\ SdkContent(w) = w.members[DELEGATE].items[1]
           /\ MandateForm(Returned).content = Returned.members[DELEGATE].items[1]
  <2> DEFINE dp == Signed(n)[DELEGATE]
             a == w.members[DELEGATE]
             b == Returned.members[DELEGATE]
  <2>0. SignedContents(token) =
          IF dp.t # "list" THEN {} ELSE {Unwrap(token, dp.items[k]) : k \in DOMAIN dp.items}
    BY <1>3 DEF SignedContents
  <2>1. dp.t = "list" /\ \E k \in DOMAIN dp.items : c = Unwrap(token, dp.items[k])
    BY <2>0
  <2>2. dp \in Nodes
    BY <1>1, <1>3, SignedPlace
  <2>3. /\ Both(D, E, dp, a, b) /\ a.t = "list" /\ Len(a.items) = 1 /\ Len(b.items) = 1
        /\ SdkContent(w) = a.items[1] /\ MandateForm(Returned).content = b.items[1]
    BY <1>3
  <2> HIDE DEF dp, a, b
  <2>4. Plain(dp) = dp
    BY <2>1 DEF Plain
  <2>5. /\ Less(T, U, dp, Places(dp))
        /\ Kept(T, dp, Places(dp), a.items, Pairs(D)) /\ Kept(U, dp, Places(dp), b.items, Pairs(E))
    BY <2>1, <2>3, <2>4, BothFollow, ListFollows
  <2>6. PICK k \in DOMAIN dp.items : c = Unwrap(token, dp.items[k])
    BY <2>1
  <2>7. k \in Here(U, dp, Places(dp)) /\ Within(U, dp, k) = c
    <3>1. k \in 1..Places(dp) /\ dp.items[k] \in Nodes
      BY <2>1, <2>2, <2>6, NodesAssumption DEF Places
    <3>2. CASE dp.items[k].t # "placeholder"
      <4>1. DigestAt(dp, k) = Nothing /\ c = dp.items[k]
        BY <2>1, <2>6, <3>2 DEF DigestAt, Unwrap
      <4>2. QED
        BY <2>1, <3>1, <4>1 DEF Here, Shown, Within
    <3>3. CASE dp.items[k].t = "placeholder"
      <4> DEFINE d == dp.items[k].digest
      <4>1. DigestAt(dp, k) = d /\ d # Nothing
        BY <2>1, <3>1, <3>3, NodesAssumption DEF DigestAt
      <4>2. d \in DOMAIN DMap(token) /\ c = DMap(token)[d].value
        BY <2>6, <3>3 DEF Unwrap
      <4>3. d \in DOMAIN U /\ c = U[d].value
        BY <1>1, <4>2, SameTable
      <4>4. QED
        BY <3>1, <4>1, <4>3 DEF Here, Shown, Within
    <3>4. QED
      BY <3>2, <3>3
  <2>8. \A q \in Here(U, dp, Places(dp)) : q = k
    <3>1. PICK at \in [1..1 -> Here(U, dp, Places(dp))] :
            \A q \in Here(U, dp, Places(dp)) : \E i \in 1..1 : at[i] = q
      BY <2>3, <2>5 DEF Kept
    <3>2. \A q \in Here(U, dp, Places(dp)) : q = at[1]
      BY <3>1
    <3>3. QED
      BY <2>7, <3>2
  <2>9. Gives(Pairs(E), c, b.items[1])
    <3>0. \A i \in 1..Len(b.items) :
            \E q \in Here(U, dp, Places(dp)) : Gives(Pairs(E), Within(U, dp, q), b.items[i])
      BY <2>5, KeptItems
    <3>1. PICK q \in Here(U, dp, Places(dp)) : Gives(Pairs(E), Within(U, dp, q), b.items[1])
      BY <2>3, <3>0
    <3>2. QED
      BY <2>7, <2>8, <3>1
  <2>10. Gives(Pairs(D), c, a.items[1])
    <3>0. \A i \in 1..Len(a.items) :
            \E q \in Here(T, dp, Places(dp)) : Gives(Pairs(D), Within(T, dp, q), a.items[i])
      BY <2>5, KeptItems
    <3>1. PICK q \in Here(T, dp, Places(dp)) : Gives(Pairs(D), Within(T, dp, q), a.items[1])
      BY <2>3, <3>0
    <3>2. q \in Here(U, dp, Places(dp)) /\ Within(T, dp, q) = Within(U, dp, q)
      BY <2>5, <3>1 DEF Less, Here
    <3>3. QED
      BY <2>7, <2>8, <3>1, <3>2
  <2>11. c \in Nodes
    BY <1>1, <2>1, <2>2, <2>7, WithinNodes
  <2>12. QED
    BY <2>3, <2>9, <2>10, <2>11 DEF Both
<1>4. QED
  BY <1>2, <1>3, ContentsOfAMandate

\* A record whose reference is plain cannot be turned back into an ordinary
\* mandate: whatever disclosures its holder shows, of those resolved and of any
\* other, the mandate that is read then holds that reference.
RecordsStayRecords ==
  Readable /\ IsRecord(Returned) /\ Reference(token, Returned) = "plain" =>
    \A T, m : Agreeing(T, by_digest) /\ ReadAs(T, m) =>
      \E i \in DOMAIN ConstraintsOf(m) : ConstraintsOf(m)[i] = TheRef(Returned)

THEOREM PlainReferencesStay == Spec => []RecordsStayRecords
<1>1. TraceInv /\ Resolved => RecordsStayRecords
  <2> SUFFICES ASSUME TraceInv, Resolved, Readable, Reference(token, Returned) = "plain",
                      NEW T, NEW m, Agreeing(T, by_digest), ReadAs(T, m)
               PROVE  \E i \in DOMAIN ConstraintsOf(m) : ConstraintsOf(m)[i] = TheRef(Returned)
    BY DEF RecordsStayRecords
  <2> DEFINE ref == TheRef(Returned)
             U == by_digest
  <2>1. PICK w : Expands(T, token.payload, w) /\ m = SdkContent(w) /\ IsMandate(m)
    BY DEF ReadAs
  <2>2. PICK D, E : Beside(T, U, D, E) /\ Both(D, E, token.payload, w, Returned)
    BY <2>1, Shows, ReadablePayload
  <2>3. RecordRefs(Returned) # {} /\ WellFormed(ref) /\ RefIsPlain(token, ref)
    BY DEF Reference
  <2>4. IsRef(ref) /\ ref = [t |-> "object", members |-> ref.members]
    <3>1. Returned \in Values(E) /\ Derivation(U, E)
      BY <2>2, GivenIsMade DEF Both, Beside
    <3>2. QED
      BY <2>3, <3>1, RefIsMade
  <2> HIDE DEF ref
  <2>5. ~DpDisclosed(token)
    BY <2>3 DEF RefIsPlain
  <2>6. PICK c \in SignedContents(token) :
          LET cons == IF c = Nothing \/ c.t # "object" THEN Nothing ELSE Prop(token, c, "constraints")
          IN /\ cons # Nothing /\ cons.t = "list"
             /\ \E i \in DOMAIN cons.items : IsSigned(token, cons.items[i], ref)
    BY <2>3 DEF RefIsPlain
  <2> DEFINE cons == Prop(token, c, "constraints")
  <2>7. /\ c # Nothing /\ c.t = "object" /\ cons # Nothing /\ cons.t = "list"
        /\ \E i \in DOMAIN cons.items : IsSigned(token, cons.items[i], ref)
    BY <2>6
  <2>8. c \in Nodes /\ Both(D, E, c, m, MandateForm(Returned).content)
    BY <2>1, <2>2, <2>5, <2>7, TheSignedContent
  <2>9. m.t = "object" /\ "constraints" \in DOMAIN m.members /\ m.members["constraints"].t = "list"
    BY <2>1 DEF IsMandate, Has
  <2>10. PICK k \in Here(U, c, Places(c)) :
           /\ Name(U, c, k) = "constraints"
           /\ Both(D, E, Within(U, c, k), m.members["constraints"],
                   MandateForm(Returned).content.members["constraints"])
    BY <2>2, <2>7, <2>8, <2>9, BothMembers
  <2>11. c.sd # NotAList
         /\ Claims(U, c, Places(c), MandateForm(Returned).content.members, Pairs(E))
    <3>1. Plain(c) = c
      BY <2>7 DEF Plain
    <3>2. QED
      BY <2>2, <2>7, <2>8, <3>1, BothFollow, ObjectFollows
  <2>12. Within(U, c, k) = cons
    BY <2>7, <2>8, <2>10, <2>11, PropIsWithin, ReadablePayload
  <2>13. cons \in Nodes
    BY <2>7, <2>8, <2>11, <2>12, WithinNodes, ReadablePayload
  <2>14. Gives(Pairs(D), cons, m.members["constraints"]) /\ Derivation(T, D)
    BY <2>2, <2>10, <2>12 DEF Both, Beside
  <2> HIDE DEF cons
  <2>15. PICK i \in DOMAIN cons.items : IsSigned(token, cons.items[i], ref)
    BY <2>7
  <2> DEFINE l == m.members["constraints"]
  <2>16. \E j \in DOMAIN l.items : l.items[j] = ref
    <3>1. Derivation(T, D) /\ Gives(Pairs(D), cons, l)
      BY <2>14
    <3>2. cons \in Nodes /\ cons.t = "list"
      BY <2>7, <2>13
    <3>3. IsRef(ref) /\ ref = [t |-> "object", members |-> ref.members] /\ WellFormed(ref)
      BY <2>3, <2>4
    <3>4. i \in DOMAIN cons.items /\ IsSigned(token, cons.items[i], ref)
      BY <2>15
    <3> HIDE DEF l
    <3>5. QED
      BY <3>1, <3>2, <3>3, <3>4, SignedRefStays
  <2>17. ConstraintsOf(m) = l.items
    BY <2>1 DEF ConstraintsOf, IsMandate
  <2>18. QED
    BY <2>16, <2>17 DEF ref
<1>2. QED
  BY <1>1, AlwaysTraced, ResolvedIsExpanded, PTL
-----------------------------------------------------------------------------
(* The recursions of module Expansion have the values that their equations    *)
(* say.                                                                      *)

Blank == [fits |-> TRUE, out |-> <<>>, census |-> <<>>]

LEMMA GatheringExists ==
  ASSUME NEW T, NEW of, NEW n, NEW N \in Nat
  PROVE  \E f : f = [m \in 0..N |-> IF m = 0 THEN Blank ELSE Placed(T, of, n, m, f[m - 1])]
<1> DEFINE Good(l, f) ==
             f = [m \in 0..l |-> IF m = 0 THEN Blank ELSE Placed(T, of, n, m, f[m - 1])]
           B == {l \in Nat : ~\E f : Good(l, f)}
<1> SUFFICES ASSUME B # {} PROVE FALSE
  OBVIOUS
<1>1. PICK l \in B : \A k \in B : l <= k
  <2> HIDE DEF Good
  <2>1. B \in SUBSET Nat
    OBVIOUS
  <2> HIDE DEF B
  <2>2. QED
    BY <2>1, LeastNumber
<1>2. l # 0
  <2>1. Good(0, [m \in 0..0 |-> Blank])
    OBVIOUS
  <2>2. QED
    BY <1>1, <2>1
<1>3. PICK f : Good(l - 1, f)
  <2> HIDE DEF Good
  <2>1. l - 1 \in Nat /\ ~(l <= l - 1)
    BY <1>1, <1>2
  <2>2. QED
    BY <1>1, <2>1
<1> DEFINE g == [m \in 0..l |-> IF m = l THEN Placed(T, of, n, l, f[l - 1]) ELSE f[m]]
<1>4. Good(l, g)
  <2>1. ASSUME NEW m \in 0..l
        PROVE  g[m] = IF m = 0 THEN Blank ELSE Placed(T, of, n, m, g[m - 1])
    <3>1. CASE m = l
      <4>1. g[m] = Placed(T, of, n, m, f[m - 1])
        BY <1>1, <1>2, <3>1
      <4>2. g[m - 1] = f[m - 1]
        BY <1>1, <1>2, <3>1
      <4>3. QED
        BY <1>2, <3>1, <4>1, <4>2
    <3>2. CASE m # l
      <4>1. g[m] = f[m] /\ m \in 0..(l - 1)
        BY <1>1, <1>2, <3>2
      <4>2. m # 0 => g[m - 1] = f[m - 1]
        BY <1>1, <1>2, <3>2
      <4>3. f[m] = IF m = 0 THEN Blank ELSE Placed(T, of, n, m, f[m - 1])
        BY <1>3, <4>1
      <4>4. QED
        BY <4>1, <4>2, <4>3
    <3>3. QED
      BY <3>1, <3>2
  <2>2. g = [m \in 0..l |-> g[m]]
    OBVIOUS
  <2> HIDE DEF g
  <2>3. QED
    BY <2>1, <2>2
<1>5. QED
  <2> HIDE DEF Good, g
  <2>1. QED
    BY <1>1, <1>4

\* A place after another.
LEMMA GathersByPlace ==
  ASSUME NEW T, NEW of, NEW n, Places(n) \in Nat
  PROVE  /\ Gathering(T, of, n)[0] = Blank
         /\ \A m \in 1..Places(n) :
              Gathering(T, of, n)[m] = Placed(T, of, n, m, Gathering(T, of, n)[m - 1])
<1> DEFINE N == Places(n)
           G == CHOOSE f : f = [m \in 0..N |-> IF m = 0 THEN Blank ELSE Placed(T, of, n, m, f[m - 1])]
<1>1. Gathering(T, of, n) = G
  BY DEF Gathering, Blank
<1>2. G = [m \in 0..N |-> IF m = 0 THEN Blank ELSE Placed(T, of, n, m, G[m - 1])]
  BY GatheringExists
<1> HIDE DEF G
<1>3. QED
  BY <1>1, <1>2

\* What the nodes in a node of k containers expand to, and the node itself.
Of(T, k) == IF k = 0 THEN <<>> ELSE Expansions(T)[k - 1]
Full(T, k, n) == Expansion(T, Of(T, k), k, n)

Level(T, k, of) == [n \in Nodes |-> Expansion(T, of, k, Plain(n))]

LEMMA ExpansionsExist ==
  ASSUME NEW T, NEW N \in Nat
  PROVE  \E f : f = [k \in 0..N |-> Level(T, k, IF k = 0 THEN <<>> ELSE f[k - 1])]
<1> DEFINE Good(l, f) == f = [k \in 0..l |-> Level(T, k, IF k = 0 THEN <<>> ELSE f[k - 1])]
           B == {l \in Nat : ~\E f : Good(l, f)}
<1> SUFFICES ASSUME B # {} PROVE FALSE
  OBVIOUS
<1>1. PICK l \in B : \A k \in B : l <= k
  <2> HIDE DEF Good
  <2>1. B \in SUBSET Nat
    OBVIOUS
  <2> HIDE DEF B
  <2>2. QED
    BY <2>1, LeastNumber
<1>2. l # 0
  <2>1. Good(0, [k \in 0..0 |-> Level(T, k, <<>>)])
    OBVIOUS
  <2>2. QED
    BY <1>1, <2>1
<1>3. PICK f : Good(l - 1, f)
  <2> HIDE DEF Good
  <2>1. l - 1 \in Nat /\ ~(l <= l - 1)
    BY <1>1, <1>2
  <2>2. QED
    BY <1>1, <2>1
<1> DEFINE g == [k \in 0..l |-> IF k = l THEN Level(T, l, f[l - 1]) ELSE f[k]]
<1>4. Good(l, g)
  <2>1. ASSUME NEW k \in 0..l
        PROVE  g[k] = Level(T, k, IF k = 0 THEN <<>> ELSE g[k - 1])
    <3>1. CASE k = l
      <4>1. g[k] = Level(T, k, f[k - 1])
        BY <1>1, <1>2, <3>1
      <4>2. g[k - 1] = f[k - 1]
        BY <1>1, <1>2, <3>1
      <4>3. QED
        BY <1>2, <3>1, <4>1, <4>2
    <3>2. CASE k # l
      <4>1. g[k] = f[k] /\ k \in 0..(l - 1)
        BY <1>1, <1>2, <3>2
      <4>2. k # 0 => g[k - 1] = f[k - 1]
        BY <1>1, <1>2, <3>2
      <4>3. f[k] = Level(T, k, IF k = 0 THEN <<>> ELSE f[k - 1])
        BY <1>3, <4>1
      <4>4. QED
        BY <4>1, <4>2, <4>3
    <3>3. QED
      BY <3>1, <3>2
  <2>2. g = [k \in 0..l |-> g[k]]
    OBVIOUS
  <2> HIDE DEF g
  <2>3. QED
    BY <2>1, <2>2
<1>5. QED
  <2> HIDE DEF Good, g
  <2>1. QED
    BY <1>1, <1>4

\* A container more.
LEMMA ExpandsByLevel ==
  ASSUME NEW T, NEW k \in 0..MAX_JSON_DEPTH
  PROVE  \A n \in Nodes : Expansions(T)[k][n] = Full(T, k, Plain(n))
<1> DEFINE Is(f) == f = [l \in 0..MAX_JSON_DEPTH |->
                           Level(T, l, IF l = 0 THEN <<>> ELSE f[l - 1])]
           G == CHOOSE f : Is(f)
<1>1. Expansions(T) = G
  BY DEF Expansions, Level
<1>2. Is(G)
  <2>1. \E f : Is(f)
    BY DepthAssumption, ExpansionsExist
  <2> HIDE DEF Is
  <2>2. QED
    BY <2>1
<1> HIDE DEF G
<1>3. G[k] = [n \in Nodes |-> Expansion(T, IF k = 0 THEN <<>> ELSE G[k - 1], k, Plain(n))]
  BY <1>2 DEF Level
<1>4. Of(T, k) = IF k = 0 THEN <<>> ELSE G[k - 1]
  BY <1>1 DEF Of
<1>5. QED
  BY <1>1, <1>3, <1>4 DEF Full

\* What stands in a node is expanded with a container less.
LEMMA OfIsFull ==
  ASSUME NEW T, NEW k \in 1..MAX_JSON_DEPTH, NEW n \in Nodes
  PROVE  Of(T, k)[n] = Full(T, k - 1, Plain(n))
<1>1. k - 1 \in 0..MAX_JSON_DEPTH /\ k # 0
  BY DepthAssumption
<1>2. Of(T, k) = Expansions(T)[k - 1]
  BY <1>1 DEF Of
<1>3. QED
  BY <1>1, <1>2, ExpandsByLevel

-----------------------------------------------------------------------------
(* Sequences put together.                                                  *)

LEMMA Joined ==
  ASSUME NEW s, NEW t, Sequence(s), Sequence(t)
  PROVE  Sequence(s \o t) /\ s \o <<>> = s /\ <<>> \o s = s
<1>1. PICK S : s \in Seq(S)
  BY DEF Sequence
<1>2. PICK R : t \in Seq(R)
  BY DEF Sequence
<1>3. s \in Seq(S \union R) /\ t \in Seq(S \union R)
  BY <1>1, <1>2
<1>4. s \o t \in Seq(S \union R)
  BY <1>3
<1>5. QED
  BY <1>1, <1>4 DEF Sequence

LEMMA Associates ==
  ASSUME NEW s, NEW t, NEW u, Sequence(s), Sequence(t), Sequence(u)
  PROVE  (s \o t) \o u = s \o (t \o u)
<1>1. PICK S : s \in Seq(S)
  BY DEF Sequence
<1>2. PICK R : t \in Seq(R)
  BY DEF Sequence
<1>3. PICK Q : u \in Seq(Q)
  BY DEF Sequence
<1> DEFINE A == S \union R \union Q
<1>4. s \in Seq(A) /\ t \in Seq(A) /\ u \in Seq(A)
  BY <1>1, <1>2, <1>3
<1> HIDE DEF A
<1>5. QED
  BY <1>4

LEMMA Threefold ==
  ASSUME NEW s, NEW t, NEW u, Sequence(s), Sequence(t), Sequence(u)
  PROVE  /\ Sequence(s \o t) /\ Sequence(t \o u) /\ Sequence(s \o (t \o u))
         /\ (s \o t) \o u = s \o (t \o u)
<1> DEFINE v == t \o u
<1>1. Sequence(v) /\ Sequence(s \o t)
  BY Joined
<1> HIDE DEF v
<1>2. Sequence(s \o v)
  BY <1>1, Joined
<1>3. QED
  BY <1>1, <1>2, Associates DEF v

LEMMA EmptyIsSequence == Sequence(<<>>) /\ \A d : Sequence(<<d>>)
<1>1. <<>> \in Seq({}) /\ \A d : <<d>> \in Seq({d})
  OBVIOUS
<1>2. QED
  BY <1>1 DEF Sequence

LEMMA AppendJoins ==
  ASSUME NEW s, NEW d, Sequence(s)
  PROVE  Append(s, d) = s \o <<d>>
<1>1. PICK S : s \in Seq(S)
  BY DEF Sequence
<1>2. s \in Seq(S \union {d}) /\ <<d>> \in Seq(S \union {d})
  BY <1>1
<1>3. QED
  BY <1>2

\* Where what is joined stands.
LEMMA JoinedAt ==
  ASSUME NEW s, NEW d, NEW t, Sequence(s), Sequence(t)
  PROVE  /\ \A i \in 1..Len(s) : i \in DOMAIN (s \o <<d>> \o t) /\ (s \o <<d>> \o t)[i] = s[i]
         /\ Len(s) + 1 \in DOMAIN (s \o <<d>> \o t) /\ (s \o <<d>> \o t)[Len(s) + 1] = d
         /\ Len(s) \in Nat
<1>1. PICK S : s \in Seq(S)
  BY DEF Sequence
<1>2. PICK R : t \in Seq(R)
  BY DEF Sequence
<1> DEFINE A == S \union R \union {d}
<1>4. s \in Seq(A) /\ t \in Seq(A) /\ <<d>> \in Seq(A)
  BY <1>1, <1>2
<1> HIDE DEF A
<1>5. QED
  BY <1>4

-----------------------------------------------------------------------------
(* A census is a sequence, and that of the first places begins that of all.  *)

OfNodes(T) == \A d \in DOMAIN T : T[d].value \in Nodes

\* What stands in n is listed.
Listed(T, of, n) ==
  \A i \in 1..Places(n) : Shown(T, n, i) => Sequence(of[Within(T, n, i)].census)

More(T, of, n, i) == IF Shown(T, n, i) THEN of[Within(T, n, i)].census ELSE <<>>

LEMMA WithinIsNode ==
  ASSUME NEW T, OfNodes(T), NEW n, Shaped(n), NEW i \in 1..Places(n), Shown(T, n, i)
  PROVE  Within(T, n, i) \in Nodes
<1>1. CASE DigestAt(n, i) # Nothing
  BY <1>1 DEF Shown, Within, OfNodes
<1>2. CASE DigestAt(n, i) = Nothing
  <2> DEFINE f == [node |-> n, at |-> i]
  <2>1. f.node = n /\ f.at = i
    OBVIOUS
  <2> HIDE DEF f
  <2>2. Child(f) = Within(T, f.node, f.at) /\ Child(f) \in Nodes
    BY <1>2, <2>1, AtAPlace
  <2>3. QED
    BY <2>1, <2>2
<1>3. QED
  BY <1>1, <1>2

LEMMA MarkIsSequence ==
  ASSUME NEW n, NEW i
  PROVE  Sequence(Mark(n, i))
BY EmptyIsSequence DEF Mark

\* What a place adds.
LEMMA PlaceAdds ==
  ASSUME NEW T, NEW of, NEW n, NEW i \in 1..Places(n), Listed(T, of, n),
         NEW got, Sequence(got.census)
  PROVE  LET p == Placed(T, of, n, i, got)
         IN /\ p.census = got.census \o (Mark(n, i) \o More(T, of, n, i))
            /\ Sequence(More(T, of, n, i)) /\ Sequence(p.census)
            /\ p.fits => /\ got.fits /\ DigestAt(n, i) # Mistyped /\ Fits(T, n, i)
                         /\ Shown(T, n, i) =>
                              /\ of[Within(T, n, i)].fits
                              /\ n.t = "object" => Name(T, n, i) \notin DOMAIN got.out
<1>1. Sequence(Mark(n, i)) /\ Sequence(More(T, of, n, i))
  BY MarkIsSequence, EmptyIsSequence DEF Listed, More
<1>2. /\ Sequence(Mark(n, i) \o More(T, of, n, i))
      /\ (got.census \o Mark(n, i)) \o More(T, of, n, i) =
           got.census \o (Mark(n, i) \o More(T, of, n, i))
      /\ Sequence(got.census \o Mark(n, i))
      /\ Sequence(got.census \o (Mark(n, i) \o More(T, of, n, i)))
  <2> DEFINE s == got.census
             t == Mark(n, i)
             u == More(T, of, n, i)
  <2>1. Sequence(s) /\ Sequence(t) /\ Sequence(u)
    BY <1>1
  <2> HIDE DEF s, t, u
  <2>2. /\ Sequence(s \o t) /\ Sequence(t \o u) /\ Sequence(s \o (t \o u))
        /\ (s \o t) \o u = s \o (t \o u)
    BY <2>1, Threefold
  <2>3. QED
    BY <2>2 DEF s, t, u
<1>3. CASE ~Shown(T, n, i)
  <2>1. /\ Placed(T, of, n, i, got).census = got.census \o Mark(n, i)
        /\ Placed(T, of, n, i, got).fits = (got.fits /\ DigestAt(n, i) # Mistyped)
    BY <1>3 DEF Placed
  <2>2. More(T, of, n, i) = <<>> /\ Fits(T, n, i)
    BY <1>3 DEF More, Shown, Fits
  <2>3. (got.census \o Mark(n, i)) \o <<>> = got.census \o Mark(n, i)
    BY <1>2, Joined, EmptyIsSequence
  <2>4. QED
    BY <1>1, <1>2, <1>3, <2>1, <2>2, <2>3
<1>4. CASE Shown(T, n, i)
  <2> DEFINE e == of[Within(T, n, i)]
  <2>1. /\ Placed(T, of, n, i, got).census = got.census \o Mark(n, i) \o e.census
        /\ Placed(T, of, n, i, got).fits =
             (/\ got.fits /\ e.fits
              /\ DigestAt(n, i) # Mistyped /\ Fits(T, n, i)
              /\ n.t = "object" => Name(T, n, i) \notin DOMAIN got.out)
    BY <1>4 DEF Placed
  <2>2. More(T, of, n, i) = e.census
    BY <1>4 DEF More
  <2> HIDE DEF e
  <2>3. QED
    BY <1>1, <1>2, <2>1, <2>2 DEF e
<1>5. QED
  BY <1>3, <1>4

LEMMA GatheringLists ==
  ASSUME NEW T, NEW of, NEW n, Places(n) \in Nat, Listed(T, of, n)
  PROVE  \A m \in 0..Places(n) : Sequence(Gathering(T, of, n)[m].census)
<1> DEFINE g == Gathering(T, of, n)
           B == {m \in Nat : m <= Places(n) /\ ~Sequence(g[m].census)}
<1> SUFFICES ASSUME B # {} PROVE FALSE
  <2>1. \A m \in 0..Places(n) : m \in Nat /\ m <= Places(n)
    OBVIOUS
  <2>2. QED
    BY <2>1
<1>1. PICK m \in B : \A k \in B : m <= k
  <2>1. B \in SUBSET Nat
    OBVIOUS
  <2> HIDE DEF B
  <2>2. QED
    BY <2>1, LeastNumber
<1>2. /\ g[0] = Blank
      /\ \A i \in 1..Places(n) : g[i] = Placed(T, of, n, i, g[i - 1])
  BY GathersByPlace
<1>3. m # 0
  BY <1>1, <1>2, EmptyIsSequence DEF Blank
<1>4. m \in 1..Places(n) /\ m - 1 \in Nat /\ m - 1 <= Places(n) /\ ~(m <= m - 1)
  BY <1>1, <1>3
<1>5. Sequence(g[m - 1].census)
  BY <1>1, <1>4
<1> HIDE DEF g
<1>6. Sequence(Placed(T, of, n, m, g[m - 1]).census)
  BY <1>4, <1>5, PlaceAdds
<1>7. QED
  BY <1>1, <1>2, <1>4, <1>6

\* The census of a node is one.
LEMMA FullLists ==
  ASSUME NEW T, OfNodes(T)
  PROVE  \A k \in 0..MAX_JSON_DEPTH : \A n : Shaped(n) => Sequence(Full(T, k, n).census)
<1> DEFINE B == {k \in Nat : k <= MAX_JSON_DEPTH /\
                   ~\A n : Shaped(n) => Sequence(Full(T, k, n).census)}
<1> SUFFICES ASSUME B # {} PROVE FALSE
  <2>1. \A k \in 0..MAX_JSON_DEPTH : k \in Nat /\ k <= MAX_JSON_DEPTH
    BY DepthAssumption
  <2>2. QED
    BY <2>1
<1>1. PICK k \in B : \A l \in B : k <= l
  <2>1. B \in SUBSET Nat
    OBVIOUS
  <2> HIDE DEF B
  <2>2. QED
    BY <2>1, LeastNumber
<1>2. PICK n : Shaped(n) /\ ~Sequence(Full(T, k, n).census)
  BY <1>1
<1>3. Full(T, k, n) = Expansion(T, Of(T, k), k, n)
  BY DEF Full
<1>4. ~(n.t = "leaf") /\ ~(k = 0 \/ (n.t = "object" /\ n.sd = NotAList))
  BY <1>2, <1>3, EmptyIsSequence DEF Expansion, Unfit
<1>5. Full(T, k, n).census = Gathering(T, Of(T, k), n)[Places(n)].census
  BY <1>3, <1>4 DEF Expansion
<1>6. k \in 1..MAX_JSON_DEPTH /\ k - 1 \in Nat /\ k - 1 <= MAX_JSON_DEPTH /\ ~(k <= k - 1)
  BY <1>1, <1>4, DepthAssumption
<1>7. \A x : Shaped(x) => Sequence(Full(T, k - 1, x).census)
  BY <1>1, <1>6
<1>8. Listed(T, Of(T, k), n)
  <2> SUFFICES ASSUME NEW i \in 1..Places(n), Shown(T, n, i)
               PROVE  Sequence(Of(T, k)[Within(T, n, i)].census)
    BY DEF Listed
  <2>1. Within(T, n, i) \in Nodes
    BY <1>2, WithinIsNode
  <2>2. Shaped(Plain(Within(T, n, i)))
    BY <2>1, NodesAreShaped
  <2>3. Of(T, k)[Within(T, n, i)] = Full(T, k - 1, Plain(Within(T, n, i)))
    BY <1>6, <2>1, OfIsFull
  <2>4. QED
    BY <1>7, <2>2, <2>3
<1>9. Places(n) \in Nat /\ Places(n) \in 0..Places(n)
  BY <1>2 DEF Shaped
<1>10. QED
  BY <1>2, <1>5, <1>8, <1>9, GatheringLists

LEMMA OfLists ==
  ASSUME NEW T, OfNodes(T), NEW k \in 1..MAX_JSON_DEPTH, NEW n, Shaped(n)
  PROVE  Listed(T, Of(T, k), n)
<1> SUFFICES ASSUME NEW i \in 1..Places(n), Shown(T, n, i)
             PROVE  Sequence(Of(T, k)[Within(T, n, i)].census)
  BY DEF Listed
<1>1. Within(T, n, i) \in Nodes
  BY WithinIsNode
<1>2. Shaped(Plain(Within(T, n, i)))
  BY <1>1, NodesAreShaped
<1>3. Of(T, k)[Within(T, n, i)] = Full(T, k - 1, Plain(Within(T, n, i)))
  BY <1>1, OfIsFull
<1>4. k - 1 \in 0..MAX_JSON_DEPTH
  BY DepthAssumption
<1>5. QED
  BY <1>2, <1>3, <1>4, FullLists

\* c begins with b.
Continues(c, b) == \E r : Sequence(r) /\ c = b \o r

\* a, of some of the places, goes on to b.
Grew(a, b) == (b.fits => a.fits) /\ Continues(b.census, a.census)

LEMMA GatheringGrows ==
  ASSUME NEW T, NEW of, NEW n, Places(n) \in Nat, Listed(T, of, n), NEW m \in 0..Places(n)
  PROVE  \A l \in m..Places(n) : Grew(Gathering(T, of, n)[m], Gathering(T, of, n)[l])
<1> USE DEF Grew, Continues
<1> DEFINE g == Gathering(T, of, n)
           Grown(l) == Grew(g[m], g[l])
           B == {l \in Nat : m <= l /\ l <= Places(n) /\ ~Grown(l)}
<1> SUFFICES ASSUME B # {} PROVE FALSE
  <2>1. \A l \in m..Places(n) : l \in Nat /\ m <= l /\ l <= Places(n)
    OBVIOUS
  <2>2. QED
    BY <2>1
<1>0. \A l \in 0..Places(n) : Sequence(g[l].census)
  BY GatheringLists
<1>2. \A i \in 1..Places(n) : g[i] = Placed(T, of, n, i, g[i - 1])
  BY GathersByPlace
<1> HIDE DEF g
<1>1. PICK l \in B : \A k \in B : l <= k
  <2>1. B \in SUBSET Nat
    OBVIOUS
  <2> HIDE DEF B
  <2>2. QED
    BY <2>1, LeastNumber
<1>3. l # m
  <2>1. g[m].census = g[m].census \o <<>>
    BY <1>0, Joined, EmptyIsSequence
  <2>2. Grown(m)
    BY <2>1, EmptyIsSequence
  <2>3. QED
    BY <1>1, <2>2
<1>4. /\ l \in 1..Places(n) /\ l - 1 \in Nat /\ m <= l - 1 /\ l - 1 <= Places(n)
      /\ ~(l <= l - 1) /\ l - 1 \in 0..Places(n)
  BY <1>1, <1>3
<1>5. Grown(l - 1)
  BY <1>1, <1>4
<1>6. PICK r : Sequence(r) /\ g[l - 1].census = g[m].census \o r
  BY <1>5
<1> DEFINE q == Mark(n, l) \o More(T, of, n, l)
<1>7. /\ g[l].census = g[l - 1].census \o q /\ Sequence(q)
      /\ g[l].fits => g[l - 1].fits
  <2> DEFINE got == g[l - 1]
             t == Mark(n, l)
             u == More(T, of, n, l)
  <2>1. Sequence(got.census) /\ g[l] = Placed(T, of, n, l, got)
    BY <1>0, <1>2, <1>4
  <2> HIDE DEF got, B, Grown
  <2> DEFINE p == Placed(T, of, n, l, got)
  <2>7. /\ p.census = got.census \o (Mark(n, l) \o More(T, of, n, l))
        /\ Sequence(More(T, of, n, l)) /\ Sequence(p.census)
        /\ p.fits => got.fits
    BY <1>4, <2>1, PlaceAdds
  <2>2. /\ g[l].census = got.census \o (Mark(n, l) \o More(T, of, n, l)) /\ Sequence(u)
        /\ g[l].fits => got.fits
    <3> HIDE DEF p
    <3>1. QED
      BY <2>1, <2>7 DEF p
  <2>3. Sequence(t)
    BY MarkIsSequence
  <2> HIDE DEF t, u
  <2>4. Sequence(u)
    BY <2>2 DEF u
  <2>6. Sequence(t \o u)
    BY <2>3, <2>4, Joined
  <2>5. QED
    BY <2>2, <2>6 DEF t, u, got
<1> HIDE DEF q
<1>8. (g[m].census \o r) \o q = g[m].census \o (r \o q) /\ Sequence(r \o q)
  <2> DEFINE s == g[m].census
  <2>1. Sequence(s) /\ Sequence(r) /\ Sequence(q)
    BY <1>0, <1>6, <1>7
  <2> HIDE DEF s, B, Grown
  <2>2. (s \o r) \o q = s \o (r \o q)
    BY <2>1, Associates
  <2>3. Sequence(r \o q)
    BY <2>1, Joined
  <2>4. QED
    BY <2>2, <2>3 DEF s
<1>9. Grown(l)
  BY <1>5, <1>6, <1>7, <1>8
<1>10. QED
  BY <1>1, <1>9

-----------------------------------------------------------------------------
(* The walks on the stack are on their way through the expansion.            *)

Left(n) == MAX_JSON_DEPTH + 1 - n

\* What the places that f has passed are to give, k containers in.
Gone(T, k, f) == Gathering(T, Of(T, k), f.node)[f.at - 1]

Walks(T, s, p) ==
  /\ Sequence(s) /\ Len(s) <= MAX_JSON_DEPTH + 1
  /\ OfNodes(T) /\ p \in Nodes
  /\ \A n \in 1..Len(s) :
       /\ Shaped(s[n].node) /\ s[n].at \in 1..(Places(s[n].node) + 1)
       /\ s[n].node = Goal(T, s, p, n - 1)

\* f, k containers in, has gathered what the recursion does; b is the census as its
\* walk began, Reached as it came to its place, Beyond with the digest there.
Gathers(T, k, f, b) ==
  Sequence(b) /\ Gone(T, k, f).fits /\ f.out = Gone(T, k, f).out
Reached(T, k, f, b) == b \o Gone(T, k, f).census
Beyond(T, k, f, b) == Reached(T, k, f, b) \o Mark(f.node, f.at)

\* n gives v; the census was b and then is e.
Yields(T, k, n, v, b, e) ==
  Full(T, k, n).fits /\ Full(T, k, n).value = v /\ e = b \o Full(T, k, n).census

\* Every walk has gathered what the recursion does, and so has what was returned;
\* d is the census as each walk began, e the census.
Recounted(T, s, v, e, p, d) ==
  /\ d[0] = <<>>
  /\ \A n \in 1..Len(s) : Gathers(T, Left(n), s[n], d[n - 1])
  /\ \A n \in 1..Len(s) : n < Len(s) \/ v # <<>> =>
       /\ n <= MAX_JSON_DEPTH /\ DigestAt(s[n].node, s[n].at) # Mistyped
       /\ d[n] = Beyond(T, Left(n), s[n], d[n - 1])
  /\ v = <<>> /\ s # <<>> => e = Reached(T, Left(Len(s)), s[Len(s)], d[Len(s) - 1])
  /\ v # <<>> => Yields(T, Left(Len(s) + 1), Goal(T, s, p, Len(s)), v[1], d[Len(s)], e)

\* n fits, and c goes on with its census after b.
Foretold(T, c, k, n, b) ==
  Full(T, k, n).fits /\ Continues(c, b \o Full(T, k, n).census)

\* If the payload fits, so does what each walk is of, and its census is still to come.
Fitting(T, s, p, d) ==
  Full(T, MAX_JSON_DEPTH, Plain(p)).fits =>
    \A n \in 1..Len(s) :
      Foretold(T, Full(T, MAX_JSON_DEPTH, Plain(p)).census, Left(n), s[n].node, d[n - 1])

\* A place of a node that fits.
LEMMA PlaceFits ==
  ASSUME NEW T, OfNodes(T), NEW k \in 1..MAX_JSON_DEPTH, NEW n, Shaped(n),
         NEW i \in 1..Places(n), Full(T, k, n).fits
  PROVE  LET g == Gathering(T, Of(T, k), n)
         IN /\ DigestAt(n, i) # Mistyped /\ Fits(T, n, i)
            /\ Shown(T, n, i) =>
                 /\ Full(T, k - 1, Plain(Within(T, n, i))).fits
                 /\ n.t = "object" => Name(T, n, i) \notin DOMAIN g[i - 1].out
            /\ Continues(Full(T, k, n).census,
                 g[i - 1].census \o (Mark(n, i) \o More(T, Of(T, k), n, i)))
<1> DEFINE of == Of(T, k)
           g == Gathering(T, of, n)
<1>1. Full(T, k, n) = Expansion(T, of, k, n)
  BY DEF Full
<1>2. Places(n) \in Nat /\ n.t # "leaf" /\ k # 0
  <2>1. Places(n) \in Nat /\ i \in 1..Places(n) /\ k \in 1..MAX_JSON_DEPTH
    BY DEF Shaped
  <2>2. n.t = "leaf" => Places(n) = 0
    BY DEF Places
  <2>3. QED
    BY <2>1, <2>2, DepthAssumption
<1>3. g[Places(n)].fits /\ Full(T, k, n).census = g[Places(n)].census
  <2>1. Unfit.fits = FALSE
    BY DEF Unfit
  <2>2. ~(n.t = "object" /\ n.sd = NotAList)
    BY <1>1, <1>2, <2>1 DEF Expansion
  <2> DEFINE all == g[Places(n)]
             v == IF n.t = "list" THEN List(all.out) ELSE [t |-> "object", members |-> all.out]
  <2>3. Full(T, k, n) = [fits |-> all.fits, census |-> all.census, value |-> v]
    BY <1>1, <1>2, <2>2 DEF Expansion
  <2> HIDE DEF all, v
  <2>4. all.fits
    BY <2>3
  <2>5. Full(T, k, n).census = all.census
    BY <2>3
  <2>6. QED
    BY <2>4, <2>5 DEF all
<1>4. Listed(T, of, n)
  BY OfLists
<1> HIDE DEF of
<1>5. /\ \A m \in 1..Places(n) : g[m] = Placed(T, of, n, m, g[m - 1])
      /\ \A m \in 0..Places(n) : Sequence(g[m].census)
  BY <1>2, <1>4, GathersByPlace, GatheringLists
<1>6. i \in 0..Places(n) /\ i - 1 \in 0..Places(n) /\ Places(n) \in i..Places(n)
  BY <1>2
<1>7. Grew(g[i], g[Places(n)])
  BY <1>2, <1>4, <1>6, GatheringGrows
<1> HIDE DEF g
<1> DEFINE got == g[i - 1]
<1>8. g[i] = Placed(T, of, n, i, got) /\ Sequence(got.census)
  BY <1>5, <1>6
<1> HIDE DEF got
<1>9. LET p == Placed(T, of, n, i, got)
      IN /\ p.census = got.census \o (Mark(n, i) \o More(T, of, n, i))
         /\ p.fits => /\ got.fits /\ DigestAt(n, i) # Mistyped /\ Fits(T, n, i)
                      /\ Shown(T, n, i) =>
                           /\ of[Within(T, n, i)].fits
                           /\ n.t = "object" => Name(T, n, i) \notin DOMAIN got.out
  BY <1>4, <1>8, PlaceAdds
<1>10. /\ g[i].census = got.census \o (Mark(n, i) \o More(T, of, n, i))
       /\ DigestAt(n, i) # Mistyped /\ Fits(T, n, i)
       /\ Shown(T, n, i) =>
            /\ of[Within(T, n, i)].fits
            /\ n.t = "object" => Name(T, n, i) \notin DOMAIN got.out
  BY <1>3, <1>7, <1>8, <1>9 DEF Grew
<1>11. Shown(T, n, i) => Full(T, k - 1, Plain(Within(T, n, i))).fits
  <2> SUFFICES ASSUME Shown(T, n, i) PROVE Full(T, k - 1, Plain(Within(T, n, i))).fits
    OBVIOUS
  <2>1. Within(T, n, i) \in Nodes
    BY WithinIsNode
  <2>2. of[Within(T, n, i)] = Full(T, k - 1, Plain(Within(T, n, i)))
    BY <2>1, OfIsFull DEF of
  <2>3. QED
    BY <1>10, <2>2
<1>12. Continues(Full(T, k, n).census, got.census \o (Mark(n, i) \o More(T, of, n, i)))
  BY <1>3, <1>7, <1>10 DEF Grew
<1>13. QED
  BY <1>10, <1>11, <1>12 DEF g, of, got

Join(s, t) == s \o t

LEMMA JoinProperties ==
  ASSUME NEW s, NEW t, Sequence(s), Sequence(t)
  PROVE  /\ Sequence(Join(s, t))
         /\ \A u : Sequence(u) => Join(Join(s, t), u) = Join(s, Join(t, u))
<1>1. Sequence(s \o t)
  BY Joined
<1>2. ASSUME NEW u, Sequence(u)
      PROVE  (s \o t) \o u = s \o (t \o u)
  BY <1>2, Associates
<1>3. QED
  BY <1>1, <1>2 DEF Join

LEMMA Regroup ==
  ASSUME NEW a, NEW b, NEW m, NEW x, NEW r, NEW t,
         Sequence(a), Sequence(b), Sequence(m), Sequence(x), Sequence(r), Sequence(t)
  PROVE  Join(Join(a, Join(Join(b, Join(m, x)), r)), t) =
           Join(Join(Join(Join(a, b), m), x), Join(r, t))
<1> DEFINE y == Join(m, x)
           u == Join(b, y)
           v == Join(Join(a, b), y)
<1>1. Sequence(y) /\ Sequence(Join(r, t)) /\ Sequence(Join(a, b))
  BY JoinProperties
<1>2. Sequence(u) /\ Sequence(v)
  BY <1>1, JoinProperties
<1>3. Join(a, u) = v
  BY <1>1, JoinProperties
<1>4. Join(Join(Join(a, b), m), x) = v
  BY <1>1, JoinProperties
<1> HIDE DEF y, u, v
<1>5. Join(Join(a, Join(u, r)), t) = Join(v, Join(r, t))
  <2>1. Join(a, Join(u, r)) = Join(v, r)
    BY <1>2, <1>3, JoinProperties
  <2>2. Join(Join(v, r), t) = Join(v, Join(r, t))
    BY <1>2, JoinProperties
  <2>3. QED
    BY <2>1, <2>2
<1>6. QED
  BY <1>4, <1>5 DEF u, y

LEMMA Continuing ==
  ASSUME NEW a, NEW b, NEW m, NEW x, NEW c, NEW f,
         Sequence(a), Sequence(b), Sequence(m), Sequence(x),
         Continues(c, a \o f), Continues(f, b \o (m \o x))
  PROVE  Continues(c, ((a \o b) \o m) \o x)
<1>1. PICK t : Sequence(t) /\ c = (a \o f) \o t
  BY DEF Continues
<1>2. PICK r : Sequence(r) /\ f = (b \o (m \o x)) \o r
  BY DEF Continues
<1>3. c = (a \o ((b \o (m \o x)) \o r)) \o t
  <2> DEFINE h == b \o (m \o x)
  <2>1. f = h \o r
    BY <1>2
  <2> HIDE DEF h
  <2>2. c = (a \o (h \o r)) \o t
    BY <1>1, <2>1
  <2>3. QED
    BY <2>2 DEF h
<1>4. (a \o ((b \o (m \o x)) \o r)) \o t = (((a \o b) \o m) \o x) \o (r \o t)
  <2>1. Sequence(r) /\ Sequence(t)
    BY <1>1, <1>2
  <2>2. Join(Join(a, Join(Join(b, Join(m, x)), r)), t) =
          Join(Join(Join(Join(a, b), m), x), Join(r, t))
    BY <2>1, Regroup
  <2>3. QED
    BY <2>2 DEF Join
<1>5. Sequence(r \o t)
  BY <1>1, <1>2, Joined
<1> DEFINE z == r \o t
           y == ((a \o b) \o m) \o x
<1>6. c = y \o z
  BY <1>3, <1>4
<1> HIDE DEF z
<1>7. Continues(c, y)
  BY <1>5, <1>6 DEF Continues, z
<1>8. QED
  BY <1>7

-----------------------------------------------------------------------------
(* The stack grows, moves and shrinks.                                       *)

LEMMA WhatIsReached ==
  ASSUME NEW T, OfNodes(T), NEW k \in 1..MAX_JSON_DEPTH, NEW f, Shaped(f.node),
         f.at \in 1..(Places(f.node) + 1), NEW b, Gathers(T, k, f, b)
  PROVE  Sequence(Gone(T, k, f).census) /\ Sequence(Reached(T, k, f, b))
         /\ Sequence(Beyond(T, k, f, b))
<1>1. Listed(T, Of(T, k), f.node) /\ Places(f.node) \in Nat
  BY OfLists DEF Shaped
<1>2. f.at - 1 \in 0..Places(f.node)
  BY <1>1
<1>3. Sequence(Gone(T, k, f).census)
  BY <1>1, <1>2, GatheringLists DEF Gone
<1>4. Sequence(b)
  BY DEF Gathers
<1>5. Sequence(Reached(T, k, f, b))
  BY <1>3, <1>4, Joined DEF Reached
<1>6. Sequence(Mark(f.node, f.at))
  BY MarkIsSequence
<1>7. Sequence(Beyond(T, k, f, b))
  BY <1>5, <1>6, Joined DEF Beyond
<1>8. QED
  BY <1>3, <1>5, <1>7

\* A walk that begins has gathered nothing.
LEMMA NothingGathered ==
  ASSUME NEW T, NEW k, NEW w, Places(w.node) \in Nat, w.at = 1, w.out = <<>>,
         NEW b, Sequence(b)
  PROVE  Gathers(T, k, w, b) /\ Reached(T, k, w, b) = b
<1>1. Gone(T, k, w) = Blank
  BY GathersByPlace DEF Gone
<1>2. Blank.fits /\ Blank.out = <<>> /\ Blank.census = <<>>
  BY DEF Blank
<1>3. b \o <<>> = b
  BY EmptyIsSequence, Joined
<1>4. QED
  BY <1>1, <1>2, <1>3 DEF Gathers, Reached

\* What stands at a place of a walk that is foretold is foretold.
LEMMA PlaceForetold ==
  ASSUME NEW T, OfNodes(T), NEW k \in 1..MAX_JSON_DEPTH, NEW f, Shaped(f.node),
         f.at \in 1..Places(f.node), NEW b, Gathers(T, k, f, b),
         NEW c, Foretold(T, c, k, f.node, b), Shown(T, f.node, f.at)
  PROVE  Foretold(T, c, k - 1, Wanted(T, f), Beyond(T, k, f, b))
<1> DEFINE n == f.node
           i == f.at
           x == Full(T, k - 1, Plain(Within(T, n, i))).census
           g == Gathering(T, Of(T, k), n)[i - 1].census
<1>1. Full(T, k, n).fits
  BY DEF Foretold
<1>2. Continues(c, b \o Full(T, k, n).census)
  BY DEF Foretold
<1>3. /\ Full(T, k - 1, Plain(Within(T, n, i))).fits
      /\ Continues(Full(T, k, n).census, g \o (Mark(n, i) \o More(T, Of(T, k), n, i)))
  BY <1>1, PlaceFits
<1>5. Within(T, n, i) \in Nodes
  BY WithinIsNode
<1>6. More(T, Of(T, k), n, i) = x
  <2>1. Of(T, k)[Within(T, n, i)] = Full(T, k - 1, Plain(Within(T, n, i)))
    BY <1>5, OfIsFull
  <2>2. QED
    BY <2>1 DEF More
<1>7. Sequence(x)
  <2>1. k - 1 \in 0..MAX_JSON_DEPTH /\ Shaped(Plain(Within(T, n, i)))
    BY <1>5, NodesAreShaped, DepthAssumption
  <2>2. QED
    BY <2>1, FullLists
<1>8. Sequence(g) /\ Sequence(b)
  <2>1. f.at \in 1..(Places(f.node) + 1)
    BY DEF Shaped
  <2>2. Sequence(Gone(T, k, f).census)
    BY <2>1, WhatIsReached
  <2>3. QED
    BY <2>2 DEF Gone, Gathers
<1>9. Beyond(T, k, f, b) = (b \o g) \o Mark(n, i) /\ Wanted(T, f) = Plain(Within(T, n, i))
  BY DEF Beyond, Reached, Gone, Wanted
<1>10. Continues(c, ((b \o g) \o Mark(n, i)) \o x)
  <2> DEFINE m == Mark(n, i)
             y == Full(T, k, n).census
  <2>1. Sequence(m)
    BY MarkIsSequence
  <2>2. Continues(c, b \o y) /\ Continues(y, g \o (m \o x))
    BY <1>2, <1>3, <1>6
  <2> HIDE DEF x, g, m, y
  <2>3. Continues(c, ((b \o g) \o m) \o x)
    BY <1>7, <1>8, <2>1, <2>2, Continuing
  <2>4. QED
    BY <2>3 DEF m
<1>11. QED
  BY <1>3, <1>9, <1>10 DEF Foretold

LEMMA RecountsPush ==
  ASSUME NEW T, NEW s, NEW p, NEW e, NEW d, Walks(T, s, p), s # <<>>, Len(s) <= MAX_JSON_DEPTH,
         Recounted(T, s, <<>>, e, p, d), Fitting(T, s, p, d),
         NEW f, f = s[Len(s)], f.at \in 1..Places(f.node), Shown(T, f.node, f.at),
         DigestAt(f.node, f.at) # Mistyped,
         NEW w, w.node = Wanted(T, f), w.at = 1, w.out = <<>>, Places(w.node) \in Nat
  PROVE  \E dd : /\ Recounted(T, Append(s, w), <<>>, e \o Mark(f.node, f.at), p, dd)
                 /\ Fitting(T, Append(s, w), p, dd)
<1> DEFINE l == Len(s)
           r == Append(s, w)
           dl == Beyond(T, Left(l), f, d[l - 1])
           dd == [n \in 0..l |-> IF n = l THEN dl ELSE d[n]]
<1>1. /\ Sequence(r) /\ l \in Nat /\ Len(r) = l + 1
      /\ \A n \in 1..(l + 1) : r[n] = IF n = l + 1 THEN w ELSE s[n]
  BY Pushed DEF Walks
<1>2. l \in Nat \ {0}
  BY Popped DEF Walks
<1>3. Left(l) \in 1..MAX_JSON_DEPTH /\ Left(l + 1) = Left(l) - 1 /\ l \in 1..l /\ l - 1 \in 0..(l - 1)
  BY <1>2, DepthAssumption DEF Left
<1>4. /\ e = Reached(T, Left(l), f, d[l - 1]) /\ Gathers(T, Left(l), f, d[l - 1])
      /\ d[0] = <<>> /\ \A n \in 1..l : Gathers(T, Left(n), s[n], d[n - 1])
      /\ \A n \in 1..l : n < l => /\ n <= MAX_JSON_DEPTH /\ DigestAt(s[n].node, s[n].at) # Mistyped
                                  /\ d[n] = Beyond(T, Left(n), s[n], d[n - 1])
  BY <1>3 DEF Recounted
<1>5. Shaped(f.node) /\ OfNodes(T) /\ f.at \in 1..(Places(f.node) + 1)
  <2>1. Shaped(f.node) /\ OfNodes(T)
    BY <1>3 DEF Walks
  <2>2. QED
    BY <2>1 DEF Shaped
<1>6. Sequence(dl)
  BY <1>3, <1>4, <1>5, WhatIsReached
<1> HIDE DEF l, r, dl
<1>7. dd[l] = dl /\ \A n \in 0..(l - 1) : dd[n] = d[n]
  BY <1>2
<1> HIDE DEF dd
<1>8. dd[0] = <<>>
  BY <1>2, <1>4, <1>7
<1>9. Gathers(T, Left(l + 1), w, dd[l]) /\ Reached(T, Left(l + 1), w, dd[l]) = dd[l]
  BY <1>6, <1>7, NothingGathered
<1>10. \A n \in 1..(l + 1) : Gathers(T, Left(n), r[n], dd[n - 1])
  <2> SUFFICES ASSUME NEW n \in 1..(l + 1) PROVE Gathers(T, Left(n), r[n], dd[n - 1])
    OBVIOUS
  <2>1. CASE n = l + 1
    <3>1. r[n] = w /\ n - 1 = l
      BY <1>1, <1>2, <2>1
    <3>2. QED
      BY <1>9, <2>1, <3>1
  <2>2. CASE n # l + 1
    <3>1. n \in 1..l /\ n - 1 \in 0..(l - 1) /\ r[n] = s[n]
      BY <1>1, <1>2, <2>2
    <3>2. dd[n - 1] = d[n - 1]
      BY <1>7, <3>1
    <3>3. QED
      BY <1>4, <3>1, <3>2
  <2>3. QED
    BY <2>1, <2>2
<1>11. ASSUME NEW n \in 1..(l + 1), n < l + 1
       PROVE  /\ n <= MAX_JSON_DEPTH /\ DigestAt(r[n].node, r[n].at) # Mistyped
              /\ dd[n] = Beyond(T, Left(n), r[n], dd[n - 1])
  <2>0. n \in 1..l /\ r[n] = s[n] /\ n - 1 \in 0..(l - 1)
    BY <1>1, <1>2, <1>11
  <2>1. CASE n = l
    <3>1. r[n] = f /\ dd[n - 1] = d[n - 1]
      BY <1>7, <2>0, <2>1 DEF l
    <3>2. QED
      BY <1>7, <2>1, <3>1 DEF l, dl
  <2>2. CASE n # l
    <3>1. n < l /\ n \in 0..(l - 1)
      BY <1>2, <2>0, <2>2
    <3>2. dd[n] = d[n] /\ dd[n - 1] = d[n - 1]
      BY <1>7, <2>0, <3>1
    <3>3. QED
      BY <1>4, <2>0, <3>1, <3>2
  <2>3. QED
    BY <2>1, <2>2
<1>12. e \o Mark(f.node, f.at) = Reached(T, Left(l + 1), r[l + 1], dd[l + 1 - 1])
  <2>1. r[l + 1] = w /\ l + 1 - 1 = l
    BY <1>1, <1>2
  <2>2. dl = e \o Mark(f.node, f.at)
    BY <1>4 DEF dl, Beyond
  <2>3. QED
    BY <1>7, <1>9, <2>1, <2>2
<1>13. Recounted(T, r, <<>>, e \o Mark(f.node, f.at), p, dd)
  BY <1>1, <1>8, <1>10, <1>11, <1>12 DEF Recounted
<1>14. Fitting(T, r, p, dd)
  <2> DEFINE c == Full(T, MAX_JSON_DEPTH, Plain(p)).census
  <2> SUFFICES ASSUME Full(T, MAX_JSON_DEPTH, Plain(p)).fits, NEW n \in 1..(l + 1)
               PROVE  Foretold(T, c, Left(n), r[n].node, dd[n - 1])
    BY <1>1 DEF Fitting
  <2>1. \A m \in 1..l : Foretold(T, c, Left(m), s[m].node, d[m - 1])
    BY DEF Fitting, l
  <2> HIDE DEF c
  <2>2. CASE n = l + 1
    <3>1. Foretold(T, c, Left(l), f.node, d[l - 1])
      BY <1>3, <2>1 DEF l
    <3>2. Foretold(T, c, Left(l) - 1, Wanted(T, f), dl)
      BY <1>3, <1>4, <1>5, <3>1, PlaceForetold DEF dl
    <3>3. r[n] = w /\ n - 1 = l
      BY <1>1, <1>2, <2>2
    <3>4. QED
      BY <1>3, <1>7, <2>2, <3>2, <3>3
  <2>3. CASE n # l + 1
    <3>1. n \in 1..l /\ n - 1 \in 0..(l - 1) /\ r[n] = s[n]
      BY <1>1, <1>2, <2>3
    <3>2. dd[n - 1] = d[n - 1]
      BY <1>7, <3>1
    <3>3. QED
      BY <2>1, <3>1, <3>2
  <2>4. QED
    BY <2>2, <2>3
<1>15. QED
  BY <1>13, <1>14 DEF r

\* The innermost walk passes a place.
LEMMA RecountsMove ==
  ASSUME NEW T, NEW s, NEW p, NEW v, NEW e, NEW d, Walks(T, s, p), s # <<>>,
         Recounted(T, s, v, e, p, d), Fitting(T, s, p, d),
         NEW f, f.node = s[Len(s)].node, Gathers(T, Left(Len(s)), f, d[Len(s) - 1]),
         NEW c, c = Reached(T, Left(Len(s)), f, d[Len(s) - 1])
  PROVE  /\ Recounted(T, Append(SubSeq(s, 1, Len(s) - 1), f), <<>>, c, p, d)
         /\ Fitting(T, Append(SubSeq(s, 1, Len(s) - 1), f), p, d)
<1> DEFINE l == Len(s)
           r == Append(SubSeq(s, 1, Len(s) - 1), f)
<1>1. /\ Sequence(r) /\ l \in Nat \ {0} /\ Len(r) = l
      /\ \A n \in 1..l : r[n] = IF n = l THEN f ELSE s[n]
  BY Replaced DEF Walks
<1>2. /\ d[0] = <<>> /\ \A n \in 1..l : Gathers(T, Left(n), s[n], d[n - 1])
      /\ \A n \in 1..l : n < l => /\ n <= MAX_JSON_DEPTH /\ DigestAt(s[n].node, s[n].at) # Mistyped
                                  /\ d[n] = Beyond(T, Left(n), s[n], d[n - 1])
  BY DEF Recounted
<1>3. Gathers(T, Left(l), f, d[l - 1]) /\ c = Reached(T, Left(l), f, d[l - 1])
  OBVIOUS
<1> HIDE DEF r
<1>4. Recounted(T, r, <<>>, c, p, d)
  <2> HIDE DEF l
  <2>1. \A n \in 1..l : Gathers(T, Left(n), r[n], d[n - 1])
    BY <1>1, <1>2, <1>3
  <2>2. \A n \in 1..l : n < l => r[n] = s[n]
    BY <1>1
  <2>3. r[l] = f
    BY <1>1
  <2>4. QED
    BY <1>1, <1>2, <1>3, <2>1, <2>2, <2>3 DEF Recounted
<1>5. Fitting(T, r, p, d)
  <2>1. \A n \in 1..l : r[n].node = s[n].node
    BY <1>1
  <2>2. QED
    BY <1>1, <2>1 DEF Fitting
<1>6. QED
  BY <1>4, <1>5 DEF r

\* It returns what its node gives.
LEMMA RecountsPop ==
  ASSUME NEW T, NEW s, NEW p, NEW e, NEW d, Walks(T, s, p), s # <<>>,
         Recounted(T, s, <<>>, e, p, d), Fitting(T, s, p, d),
         NEW v, Yields(T, Left(Len(s)), s[Len(s)].node, v, d[Len(s) - 1], e)
  PROVE  /\ Recounted(T, SubSeq(s, 1, Len(s) - 1), <<v>>, e, p, d)
         /\ Fitting(T, SubSeq(s, 1, Len(s) - 1), p, d)
<1> DEFINE l == Len(s)
           r == SubSeq(s, 1, Len(s) - 1)
<1>1. Sequence(r) /\ l \in Nat \ {0} /\ Len(r) = l - 1 /\ \A n \in 1..Len(r) : r[n] = s[n]
  BY Popped DEF Walks
<1>2. /\ d[0] = <<>> /\ \A n \in 1..l : Gathers(T, Left(n), s[n], d[n - 1])
      /\ \A n \in 1..l : n < l => /\ n <= MAX_JSON_DEPTH /\ DigestAt(s[n].node, s[n].at) # Mistyped
                                  /\ d[n] = Beyond(T, Left(n), s[n], d[n - 1])
  BY DEF Recounted
<1>3. Goal(T, r, p, l - 1) = s[l].node
  <2>1. s[l].node = Goal(T, s, p, l - 1)
    BY <1>1 DEF Walks
  <2>2. CASE l = 1
    BY <2>1, <2>2 DEF Goal
  <2>3. CASE l # 1
    <3>1. r[l - 1] = s[l - 1] /\ l - 1 # 0
      BY <1>1, <2>3
    <3> HIDE DEF r
    <3>2. QED
      BY <2>1, <3>1 DEF Goal
  <2>4. QED
    BY <2>2, <2>3
<1>4. Yields(T, Left(l), s[l].node, v, d[l - 1], e) /\ <<v>>[1] = v /\ <<v>> # <<>>
  OBVIOUS
<1> HIDE DEF l, r
<1>5. \A n \in 1..Len(r) : n \in 1..l /\ n < l /\ r[n] = s[n]
  BY <1>1
<1>6. Len(r) + 1 = l
  BY <1>1
<1>7. Yields(T, Left(Len(r) + 1), Goal(T, r, p, Len(r)), <<v>>[1], d[Len(r)], e)
  BY <1>1, <1>3, <1>4, <1>6
<1>8. Recounted(T, r, <<v>>, e, p, d)
  BY <1>2, <1>4, <1>5, <1>7 DEF Recounted
<1>9. Fitting(T, r, p, d)
  BY <1>5 DEF Fitting, l
<1>10. QED
  BY <1>8, <1>9 DEF r

\* A place that shows nothing adds its digest,
LEMMA PassedBy ==
  ASSUME NEW T, OfNodes(T), NEW k \in 1..MAX_JSON_DEPTH, NEW f, Shaped(f.node),
         f.at \in 1..Places(f.node), NEW b, Gathers(T, k, f, b),
         ~Shown(T, f.node, f.at), DigestAt(f.node, f.at) # Mistyped,
         NEW g, g.node = f.node, g.at = f.at + 1, g.out = f.out
  PROVE  Gathers(T, k, g, b) /\ Reached(T, k, g, b) = Beyond(T, k, f, b)
<1> DEFINE n == f.node
           i == f.at
           of == Of(T, k)
           all == Gathering(T, of, n)
           got == all[i - 1]
           m == Mark(n, i)
<1>1. Places(n) \in Nat /\ i + 1 - 1 = i /\ i \in 1..(Places(n) + 1)
  BY DEF Shaped
<1>2. all[i] = Placed(T, of, n, i, got)
  BY <1>1, GathersByPlace
<1>3. Gone(T, k, g) = all[i] /\ Gone(T, k, f) = got
  BY <1>1 DEF Gone
<1>4. Sequence(b) /\ got.fits /\ f.out = got.out /\ Sequence(got.census)
  BY <1>1, <1>3, WhatIsReached DEF Gathers
<1>5. Sequence(m)
  BY MarkIsSequence
<1>6. Reached(T, k, f, b) = b \o got.census /\ Beyond(T, k, f, b) = (b \o got.census) \o m
  BY <1>3 DEF Reached, Beyond
<1> HIDE DEF all, got, m
<1>7. all[i].fits /\ all[i].out = got.out /\ all[i].census = got.census \o m
  <2> DEFINE fits == got.fits /\ DigestAt(n, i) # Mistyped
             out == got.out
             census == got.census \o m
  <2>1. Placed(T, of, n, i, got) = [fits |-> fits, out |-> out, census |-> census]
    BY DEF Placed, m
  <2>2. fits
    BY <1>4
  <2> HIDE DEF of, fits, out, census
  <2>3. all[i].fits /\ all[i].out = out /\ all[i].census = census
    BY <1>2, <2>1, <2>2
  <2>4. QED
    BY <2>3 DEF out, census
<1>8. Gathers(T, k, g, b)
  BY <1>3, <1>4, <1>7 DEF Gathers
<1>9. Reached(T, k, g, b) = b \o (got.census \o m)
  BY <1>3, <1>7 DEF Reached
<1> DEFINE s == got.census
<1>10. Sequence(s)
  BY <1>4
<1> HIDE DEF s
<1>11. (b \o s) \o m = b \o (s \o m)
  BY <1>4, <1>5, <1>10, Associates
<1>12. QED
  BY <1>6, <1>8, <1>9, <1>11 DEF s

\* any other what it shows besides.
LEMMA PassedWith ==
  ASSUME NEW T, OfNodes(T), NEW k \in 1..MAX_JSON_DEPTH, NEW f, Shaped(f.node), NEW b,
         Gathers(T, k, f, b), Waits(T, f), DigestAt(f.node, f.at) # Mistyped,
         NEW v, NEW e, Yields(T, k - 1, Wanted(T, f), v, Beyond(T, k, f, b), e),
         NEW g, g.node = f.node, g.at = f.at + 1,
         g.out = IF f.node.t = "list" THEN Append(f.out, v)
                 ELSE Put(f.out, Name(T, f.node, f.at), v)
  PROVE  Gathers(T, k, g, b) /\ Reached(T, k, g, b) = e
<1> DEFINE n == f.node
           i == f.at
           of == Of(T, k)
           all == Gathering(T, of, n)
           got == all[i - 1]
           m == Mark(n, i)
           x == of[Within(T, n, i)]
<1>1. Places(n) \in Nat /\ i + 1 - 1 = i /\ i \in 1..(Places(n) + 1) /\ i \in 1..Places(n)
  BY DEF Shaped, Waits
<1>2. all[i] = Placed(T, of, n, i, got)
  BY <1>1, GathersByPlace
<1>3. Gone(T, k, g) = all[i] /\ Gone(T, k, f) = got
  BY <1>1 DEF Gone
<1>4. Sequence(b) /\ got.fits /\ f.out = got.out /\ Sequence(got.census)
  BY <1>1, <1>3, WhatIsReached DEF Gathers
<1>5. Sequence(m)
  BY MarkIsSequence
<1>6. /\ Shown(T, n, i) /\ Fits(T, n, i)
      /\ n.t = "object" => Name(T, n, i) \notin DOMAIN got.out
  BY <1>4 DEF Waits
<1>7. Within(T, n, i) \in Nodes
  BY <1>1, <1>6, WithinIsNode
<1>8. x = Full(T, k - 1, Wanted(T, f))
  BY <1>7, OfIsFull DEF Wanted
<1>9. Sequence(x.census)
  <2>1. k - 1 \in 0..MAX_JSON_DEPTH /\ Shaped(Wanted(T, f))
    BY <1>7, NodesAreShaped, DepthAssumption DEF Wanted
  <2>2. QED
    BY <1>8, <2>1, FullLists
<1>10. x.fits /\ x.value = v /\ e = Beyond(T, k, f, b) \o x.census
  BY <1>8 DEF Yields
<1>11. Beyond(T, k, f, b) = (b \o got.census) \o m
  BY <1>3 DEF Reached, Beyond
<1> HIDE DEF all, got, m, x
<1>12. /\ all[i].fits
       /\ all[i].out = (IF n.t = "list" THEN Append(got.out, v) ELSE Put(got.out, Name(T, n, i), v))
       /\ all[i].census = (got.census \o m) \o x.census
  <2> DEFINE out == IF n.t = "list" THEN Append(got.out, x.value)
                    ELSE Put(got.out, Name(T, n, i), x.value)
             fits == /\ got.fits /\ x.fits
                     /\ DigestAt(n, i) # Mistyped /\ Fits(T, n, i)
                     /\ n.t = "object" => Name(T, n, i) \notin DOMAIN got.out
             census == (got.census \o m) \o x.census
  <2>1. Placed(T, of, n, i, got) = [fits |-> fits, out |-> out, census |-> census]
    BY <1>6 DEF Placed, m, x
  <2>2. fits
    BY <1>4, <1>6, <1>10
  <2>3. out = (IF n.t = "list" THEN Append(got.out, v) ELSE Put(got.out, Name(T, n, i), v))
    BY <1>10
  <2> HIDE DEF of, out, fits, census
  <2>4. all[i].fits /\ all[i].out = out /\ all[i].census = census
    BY <1>2, <2>1, <2>2
  <2>5. QED
    BY <2>3, <2>4 DEF census
<1>13. Gathers(T, k, g, b)
  BY <1>3, <1>4, <1>12 DEF Gathers
<1>14. Reached(T, k, g, b) = b \o ((got.census \o m) \o x.census)
  BY <1>3, <1>12 DEF Reached
<1> DEFINE s == got.census
           u == x.census
<1>15. Sequence(s) /\ Sequence(u) /\ Sequence(b) /\ Sequence(m)
  BY <1>4, <1>5, <1>9
<1> HIDE DEF s, u
<1>16. ((b \o s) \o m) \o u = b \o ((s \o m) \o u)
  <2>1. Sequence(Join(s, m)) /\ Join(Join(b, s), m) = Join(b, Join(s, m))
    BY <1>15, JoinProperties
  <2>2. Join(Join(b, Join(s, m)), u) = Join(b, Join(Join(s, m), u))
    BY <1>15, <2>1, JoinProperties
  <2>3. Join(Join(Join(b, s), m), u) = Join(b, Join(Join(s, m), u))
    BY <2>1, <2>2
  <2>4. QED
    BY <2>3 DEF Join
<1>17. e = ((b \o s) \o m) \o u
  BY <1>10, <1>11 DEF s, u
<1>18. QED
  BY <1>13, <1>14, <1>16, <1>17 DEF s, u

\* A walk that is through gives what its node expands to.
LEMMA ThroughYields ==
  ASSUME NEW T, NEW k, NEW f, Shaped(f.node), f.at - 1 = Places(f.node), f.at \in Int,
         NEW b, Gathers(T, k, f, b), f.node.t # "leaf" => k # 0, ~Unlisted(f)
  PROVE  Yields(T, k, f.node, Result(f), b, Reached(T, k, f, b))
<1> DEFINE n == f.node
           of == Of(T, k)
           all == Gathering(T, of, n)[Places(n)]
<1>1. /\ all.fits /\ f.out = all.out /\ Reached(T, k, f, b) = b \o all.census
      /\ Places(n) \in Nat /\ n.t \in {"leaf", "list", "object"}
  BY DEF Gathers, Gone, Reached, Shaped
<1>2. Full(T, k, n) = Expansion(T, of, k, n)
  BY DEF Full
<1>3. CASE n.t = "leaf"
  <2>1. Full(T, k, n) = [fits |-> TRUE, value |-> n, census |-> <<>>]
    BY <1>2, <1>3 DEF Expansion
  <2>2. Places(n) = 0
    BY <1>3 DEF Places
  <2>3. all = Blank
    BY <1>1, <2>2, GathersByPlace
  <2>4. all.census = <<>> /\ Result(f) = n
    BY <1>3, <2>3 DEF Blank, Result
  <2> HIDE DEF all
  <2>5. Full(T, k, n).fits /\ Full(T, k, n).value = n /\ Full(T, k, n).census = <<>>
    BY <2>1
  <2>6. Full(T, k, n).census = all.census
    BY <2>4, <2>5
  <2>7. Reached(T, k, f, b) = b \o Full(T, k, n).census
    BY <1>1, <2>6
  <2>8. QED
    BY <2>4, <2>5, <2>7 DEF Yields
<1>4. CASE n.t # "leaf"
  <2>1. ~(n.t = "object" /\ n.sd = NotAList)
    <3> SUFFICES ASSUME n.t = "object", n.sd = NotAList PROVE FALSE
      OBVIOUS
    <3>1. Len(n.members) \in Nat /\ f.at - 1 = Len(n.members)
      BY DEF Shaped, Places
    <3>2. f.at > Len(n.members)
      BY <3>1
    <3>3. QED
      BY <3>2 DEF Unlisted
  <2> DEFINE v == IF n.t = "list" THEN List(all.out) ELSE [t |-> "object", members |-> all.out]
  <2>2. Full(T, k, n) = [fits |-> all.fits, census |-> all.census, value |-> v]
    BY <1>2, <1>4, <2>1 DEF Expansion
  <2>3. Result(f) = v
    BY <1>1, <1>4 DEF Result
  <2> HIDE DEF all, v
  <2> DEFINE fits == all.fits
             census == all.census
             x == Full(T, k, n)
  <2>6. fits /\ x = [fits |-> fits, census |-> census, value |-> v]
    BY <1>1, <2>2
  <2> HIDE DEF fits, census, x
  <2>7. x.fits /\ x.census = census /\ x.value = v
    BY <2>6
  <2>4. Full(T, k, n).fits /\ Full(T, k, n).census = all.census /\ Full(T, k, n).value = v
    BY <2>7 DEF x, census
  <2>5. QED
    BY <1>1, <2>3, <2>4 DEF Yields
<1>5. QED
  BY <1>3, <1>4

-----------------------------------------------------------------------------
(* Every step keeps to the expansion.                                        *)

\* The table that is walked with is that of the token's disclosures, which may be
\* resolved.
Indexed ==
  phase \in {"walk", "resolved"} =>
    /\ by_digest = TableOf(token.disclosures)
    /\ token.sd_alg \in {"absent", "sha-256"}
    /\ \A i \in DOMAIN token.disclosures : token.disclosures[i].form # "malformed"
    /\ \A i, j \in DOMAIN token.disclosures :
         token.disclosures[i].digest = token.disclosures[j].digest => i = j

Retold ==
  phase \in {"walk", "resolved"} =>
    \E d : /\ Recounted(by_digest, stack, value, encountered, token.payload, d)
           /\ Fitting(by_digest, stack, token.payload, d)

\* A disclosure whose digest was met has been used, or a walk waits for it.
Answered ==
  /\ Nothing \notin seen
  /\ phase = "walk" =>
       \A g \in seen : g \in DOMAIN by_digest =>
         \/ g \in used
         \/ \E n \in 1..Len(stack) : (n < Len(stack) \/ value # <<>>) /\ Digest(stack[n]) = g

Unmet == phase = "index" => encountered = <<>>

\* What is refused is not to be resolved.
Judged == phase = "refused" => ~Resolvable(token)

RetoldInv == Indexed /\ Retold /\ Answered /\ Unmet /\ Judged

LEMMA StackIsWalks ==
  ASSUME Inv, TraceInv, phase = "walk"
  PROVE  /\ Walks(by_digest, stack, token.payload)
         /\ value # <<>> => \A n \in 1..Len(stack) : Waits(by_digest, stack[n])
<1>1. PICK D : Tracing(by_digest, stack, value, token.payload, D)
  BY DEF TraceInv, Traced
<1>2. \A n \in 1..Len(stack) :
        /\ Shaped(stack[n].node) /\ stack[n].at \in 1..(Places(stack[n].node) + 1)
        /\ stack[n].node = Goal(by_digest, stack, token.payload, n - 1)
  BY <1>1 DEF Tracing, Frame
<1>3. Sequence(stack) /\ Len(stack) <= MAX_JSON_DEPTH + 1
  BY InvNests DEF Inv, Deep, StackIsDepth
<1>4. OfNodes(by_digest)
  BY DisclosedAreNodes DEF OfNodes, TraceInv
<1>5. token.payload \in Nodes
  BY NodesAssumption DEF TraceInv, Tabled
<1>6. value # <<>> => \A n \in 1..Len(stack) : Waits(by_digest, stack[n])
  BY <1>1 DEF Tracing
<1>7. QED
  BY <1>2, <1>3, <1>4, <1>5, <1>6 DEF Walks

\* The first walk.
LEMMA IndexRetells ==
  ASSUME NEW T, OfNodes(T), NEW p \in Nodes
  PROVE  \E d : /\ Recounted(T, <<Walk(p, 1)>>, <<>>, <<>>, p, d)
                /\ Fitting(T, <<Walk(p, 1)>>, p, d)
<1> DEFINE w == Walk(p, 1)
           s == <<w>>
           d == [n \in 0..0 |-> <<>>]
           c == Full(T, MAX_JSON_DEPTH, Plain(p)).census
<1>1. w.node = Plain(p) /\ w.at = 1 /\ w.out = <<>>
  BY DEF Walk
<1>2. Shaped(Plain(p)) /\ Places(Plain(p)) \in Nat
  BY NodesAreShaped DEF Shaped
<1> HIDE DEF w
<1>3. Len(s) = 1 /\ s[1] = w /\ s # <<>> /\ d[0] = <<>>
  OBVIOUS
<1>4. Gathers(T, Left(1), w, d[0]) /\ Reached(T, Left(1), w, d[0]) = d[0]
  BY <1>1, <1>2, <1>3, EmptyIsSequence, NothingGathered
<1>5. Sequence(c)
  <2>1. MAX_JSON_DEPTH \in 0..MAX_JSON_DEPTH
    BY DepthAssumption
  <2>2. QED
    BY <1>2, <2>1, FullLists
<1>6. Continues(c, d[0] \o c)
  <2> HIDE DEF c
  <2>1. <<>> \o c = c /\ c \o <<>> = c
    BY <1>5, Joined, EmptyIsSequence
  <2>2. Continues(c, c)
    BY <2>1, EmptyIsSequence DEF Continues
  <2>3. QED
    BY <1>3, <2>1, <2>2
<1>7. Left(1) = MAX_JSON_DEPTH
  BY DepthAssumption DEF Left
<1>8. \A n \in 1..Len(s) : n = 1 /\ n - 1 = 0 /\ ~(n < Len(s))
  BY <1>3
<1> HIDE DEF s, d
<1>9. Recounted(T, s, <<>>, <<>>, p, d)
  <2>1. \A n \in 1..Len(s) : Gathers(T, Left(n), s[n], d[n - 1])
    BY <1>3, <1>4, <1>8
  <2>2. <<>> = Reached(T, Left(Len(s)), s[Len(s)], d[Len(s) - 1])
    BY <1>3, <1>4
  <2>3. QED
    BY <1>3, <1>8, <2>1, <2>2 DEF Recounted
<1>10. Fitting(T, s, p, d)
  <2> SUFFICES ASSUME Full(T, MAX_JSON_DEPTH, Plain(p)).fits, NEW n \in 1..Len(s)
               PROVE  Foretold(T, c, Left(n), s[n].node, d[n - 1])
    BY DEF Fitting
  <2>1. n = 1 /\ s[n].node = Plain(p) /\ d[n - 1] = d[0]
    BY <1>1, <1>3, <1>8
  <2>2. Foretold(T, c, MAX_JSON_DEPTH, Plain(p), d[0])
    BY <1>6 DEF Foretold
  <2>3. QED
    BY <1>7, <2>1, <2>2
<1>11. QED
  BY <1>9, <1>10 DEF s, w

\* The innermost walk.
LEMMA TopWalk ==
  ASSUME Inv, TraceInv, phase = "walk", stack # <<>>
  PROVE  /\ Len(stack) \in Nat \ {0} /\ Top = stack[Len(stack)] /\ DOMAIN Top = Fields
         /\ Shaped(Top.node) /\ Top.at \in 1..(Places(Top.node) + 1)
         /\ Top.depth = Len(stack) /\ OfNodes(by_digest)
         /\ Len(stack) \in 1..Len(stack)
<1>1. Sequence(stack) /\ Len(stack) \in Nat \ {0}
  BY Popped DEF Inv, Deep
<1>2. Len(stack) \in 1..Len(stack)
  BY <1>1
<1>3. DOMAIN Top = Fields
  BY TopIsAWalk DEF Inv
<1>4. QED
  BY <1>1, <1>2, <1>3, StackIsWalks DEF Top, Walks, Inv, Deep

\* A walk that may go on, of no leaf, is of containers that the bound still allows.
LEMMA WithinBound ==
  ASSUME Inv, TraceInv, phase = "walk", stack # <<>>, ~TooDeep(Top), Top.node.t # "leaf"
  PROVE  /\ Len(stack) <= MAX_JSON_DEPTH /\ Left(Len(stack)) \in 1..MAX_JSON_DEPTH
         /\ Left(Len(stack) + 1) = Left(Len(stack)) - 1
<1>1. Len(stack) \in Nat \ {0} /\ Top.depth = Len(stack)
  BY TopWalk
<1>2. Len(stack) <= MAX_JSON_DEPTH
  BY <1>1, DepthAssumption DEF TooDeep
<1>3. QED
  BY <1>1, <1>2, DepthAssumption DEF Left

\* YieldChild, YieldDisclosed.
LEMMA YieldRetells ==
  ASSUME Inv, TraceInv, Retold, YieldChild \/ YieldDisclosed
  PROVE  Retold'
<1>1. /\ phase = "walk" /\ value = <<>> /\ stack # <<>> /\ ~Refused(Top)
      /\ UNCHANGED <<token, by_digest, value, phase>>
  BY DEF YieldChild, YieldDisclosed, Walking
<1>2. PICK d : /\ Recounted(by_digest, stack, <<>>, encountered, token.payload, d)
               /\ Fitting(by_digest, stack, token.payload, d)
  BY <1>1 DEF Retold
<1>3. /\ Len(stack) \in Nat \ {0} /\ Top = stack[Len(stack)] /\ Shaped(Top.node)
      /\ Top.at \in 1..(Places(Top.node) + 1) /\ OfNodes(by_digest)
  BY <1>1, TopWalk
<1>4. PICK D : Tracing(by_digest, stack, <<>>, token.payload, D)
  BY <1>1 DEF TraceInv, Traced
<1>5. Frame(by_digest, Top, Pairs(D))
  BY <1>1, <1>4, TopIsAFrame
<1>6. Sequence(encountered) /\ encountered \o <<>> = encountered
  BY Joined, EmptyIsSequence DEF Inv, Counted
<1>7. \E x : \E h :
        /\ stack' = Append(stack, Walk(x, h)) /\ Plain(x) = Wanted(by_digest, Top)
        /\ Waits(by_digest, Top) /\ DigestAt(Top.node, Top.at) # Mistyped
        /\ encountered' = encountered \o Mark(Top.node, Top.at)
  <2>1. CASE YieldChild
    <3>1. Child(Top) # Nothing /\ stack' = Append(stack, Walk(Child(Top), Top.depth + 1))
          /\ encountered' = encountered
      BY <2>1 DEF YieldChild
    <3>2. Waits(by_digest, Top) /\ Plain(Child(Top)) = Wanted(by_digest, Top)
      BY <1>5, <3>1, MembersWait
    <3>3. DigestAt(Top.node, Top.at) = Nothing
      <4>1. Digest(Top) = Nothing
        BY <3>1, ChildrenAreNotAsked
      <4>2. QED
        BY <1>3, <3>2, <4>1, AtAPlace DEF Waits
    <3>4. Mark(Top.node, Top.at) = <<>> /\ DigestAt(Top.node, Top.at) # Mistyped
      BY <3>3, MistypedAssumption DEF Mark
    <3>5. QED
      BY <1>6, <3>1, <3>2, <3>4
  <2>2. CASE YieldDisclosed
    <3> DEFINE g == Digest(Top)
               h == DisclosedDepth(Top)
    <3>1. /\ g # Nothing /\ g \in DOMAIN by_digest /\ encountered' = Append(encountered, g)
          /\ stack' = Append(stack, Walk(by_digest[g].value, h))
          /\ ~Misplaced(Top)
      BY <1>1, <2>2 DEF YieldDisclosed, Meet, Refused
    <3>2. Waits(by_digest, Top) /\ Plain(by_digest[g].value) = Wanted(by_digest, Top)
      BY <1>5, <3>1, DisclosedWait
    <3>3. DigestAt(Top.node, Top.at) = g
      BY <1>3, <3>2, AtAPlace DEF Waits
    <3>4. g # Mistyped
      BY <3>1 DEF Misplaced
    <3>5. Mark(Top.node, Top.at) = <<g>>
      BY <3>1, <3>3 DEF Mark
    <3> HIDE DEF g, h
    <3>6. encountered' = encountered \o Mark(Top.node, Top.at)
      BY <1>6, <3>1, <3>5, AppendJoins
    <3>7. QED
      BY <3>1, <3>2, <3>3, <3>4, <3>6
  <2>3. QED
    BY <2>1, <2>2
<1>8. PICK x, h :
        /\ stack' = Append(stack, Walk(x, h)) /\ Plain(x) = Wanted(by_digest, Top)
        /\ Waits(by_digest, Top) /\ DigestAt(Top.node, Top.at) # Mistyped
        /\ encountered' = encountered \o Mark(Top.node, Top.at)
  BY <1>7
<1> DEFINE w == Walk(x, h)
<1>9. w.node = Wanted(by_digest, Top) /\ w.at = 1 /\ w.out = <<>>
  BY <1>8 DEF Walk
<1>10. Places(w.node) \in Nat
  <2>1. Within(by_digest, Top.node, Top.at) \in Nodes
    BY <1>3, <1>8, WithinIsNode DEF Waits
  <2>2. QED
    BY <1>9, <2>1, NodesAreShaped DEF Wanted, Shaped
<1>11. Walks(by_digest, stack, token.payload)
  BY <1>1, StackIsWalks
<1>12. Len(stack) <= MAX_JSON_DEPTH
  <2>1. ~TooDeep(Top) /\ Top.node.t # "leaf"
    BY <1>1, <1>8 DEF Refused, Waits
  <2>2. QED
    BY <1>1, <2>1, WithinBound
<1>13. Top.at \in 1..Places(Top.node) /\ Shown(by_digest, Top.node, Top.at)
  BY <1>8 DEF Waits
<1> HIDE DEF w
<1>14. \E dd : /\ Recounted(by_digest, Append(stack, w), <<>>,
                            encountered \o Mark(Top.node, Top.at), token.payload, dd)
               /\ Fitting(by_digest, Append(stack, w), token.payload, dd)
  BY <1>1, <1>2, <1>3, <1>8, <1>9, <1>10, <1>11, <1>12, <1>13, RecountsPush
<1>15. stack' = Append(stack, w)
  BY <1>8 DEF w
<1>16. QED
  BY <1>1, <1>8, <1>14, <1>15 DEF Retold

\* Skip.
LEMMA SkipRetells ==
  ASSUME Inv, TraceInv, Retold, Skip
  PROVE  Retold'
<1> DEFINE g == Digest(Top)
           k == Left(Len(stack))
<1>1. /\ phase = "walk" /\ value = <<>> /\ stack # <<>> /\ ~Refused(Top)
      /\ g # Nothing /\ g \notin DOMAIN by_digest /\ encountered' = Append(encountered, g)
      /\ stack' = Append(Below, Advanced)
      /\ UNCHANGED <<token, by_digest, value, phase>>
  BY DEF Skip, Walking, Meet
<1>2. PICK d : /\ Recounted(by_digest, stack, <<>>, encountered, token.payload, d)
               /\ Fitting(by_digest, stack, token.payload, d)
  BY <1>1 DEF Retold
<1>3. /\ Len(stack) \in Nat \ {0} /\ Top = stack[Len(stack)] /\ Shaped(Top.node)
      /\ Top.at \in 1..(Places(Top.node) + 1) /\ OfNodes(by_digest) /\ DOMAIN Top = Fields
      /\ Len(stack) \in 1..Len(stack)
  BY <1>1, TopWalk
<1>4. Top.at \in 1..Places(Top.node)
  BY <1>1, <1>3, NotThrough
<1>5. DigestAt(Top.node, Top.at) = g
  BY <1>3, <1>4, AtAPlace
<1>6. g # Mistyped /\ ~Shown(by_digest, Top.node, Top.at)
  BY <1>1, <1>5 DEF Refused, Misplaced, Shown
<1>7. k \in 1..MAX_JSON_DEPTH
  <2>1. ~TooDeep(Top) /\ Top.node.t # "leaf"
    BY <1>1, LeavesAskNothing DEF Refused
  <2>2. QED
    BY <1>1, <2>1, WithinBound
<1>8. Advanced.node = Top.node /\ Advanced.at = Top.at + 1 /\ Advanced.out = Top.out
  BY <1>3 DEF Advanced, Fields
<1> DEFINE b == d[Len(stack) - 1]
<1>9. Gathers(by_digest, k, Top, b) /\ encountered = Reached(by_digest, k, Top, b)
  BY <1>1, <1>2, <1>3 DEF Recounted
<1> HIDE DEF g, k, b
<1>10. /\ Gathers(by_digest, k, Advanced, b)
       /\ Reached(by_digest, k, Advanced, b) = Beyond(by_digest, k, Top, b)
  BY <1>3, <1>4, <1>5, <1>6, <1>7, <1>8, <1>9, PassedBy
<1>11. encountered' = Reached(by_digest, k, Advanced, b)
  <2>1. Mark(Top.node, Top.at) = <<g>>
    BY <1>1, <1>5 DEF Mark, g
  <2>2. Append(encountered, g) = encountered \o <<g>>
    BY AppendJoins DEF Inv, Counted
  <2>3. QED
    BY <1>1, <1>9, <1>10, <2>1, <2>2 DEF Beyond
<1>12. Walks(by_digest, stack, token.payload)
  BY <1>1, StackIsWalks
<1>13. stack' = Append(SubSeq(stack, 1, Len(stack) - 1), Advanced)
  BY <1>1 DEF Below
<1>14. /\ Recounted(by_digest, stack', <<>>, encountered', token.payload, d)
       /\ Fitting(by_digest, stack', token.payload, d)
  BY <1>1, <1>2, <1>3, <1>8, <1>10, <1>11, <1>12, <1>13, RecountsMove DEF k, b
<1>15. QED
  BY <1>1, <1>14 DEF Retold

\* Take.
LEMMA TakeRetells ==
  ASSUME Inv, TraceInv, Retold, Take
  PROVE  Retold'
<1> DEFINE k == Left(Len(stack))
           n == Top.node
           i == Top.at
           f == IF Top.node.t = "list" THEN [Advanced EXCEPT !.out = Append(@, Returned)]
                ELSE [Advanced EXCEPT !.out = Put(@, Key(Top), Returned)]
<1>1. /\ phase = "walk" /\ value # <<>> /\ stack # <<>> /\ value' = <<>>
      /\ stack' = Append(Below, f)
      /\ UNCHANGED <<token, by_digest, encountered, phase>>
  BY DEF Take
<1>2. PICK d : /\ Recounted(by_digest, stack, value, encountered, token.payload, d)
               /\ Fitting(by_digest, stack, token.payload, d)
  BY <1>1 DEF Retold
<1>3. /\ Len(stack) \in Nat \ {0} /\ Top = stack[Len(stack)] /\ Shaped(n)
      /\ i \in 1..(Places(n) + 1) /\ OfNodes(by_digest) /\ DOMAIN Top = Fields
      /\ Len(stack) \in 1..Len(stack)
  BY <1>1, TopWalk
<1>4. Waits(by_digest, Top) /\ i \in 1..Places(n)
  BY <1>1, <1>3, StackIsWalks DEF Waits
<1> DEFINE b == d[Len(stack) - 1]
<1>5. /\ Gathers(by_digest, k, Top, b) /\ Len(stack) <= MAX_JSON_DEPTH
      /\ DigestAt(n, i) # Mistyped /\ d[Len(stack)] = Beyond(by_digest, k, Top, b)
      /\ Yields(by_digest, Left(Len(stack) + 1), Goal(by_digest, stack, token.payload, Len(stack)),
                Returned, d[Len(stack)], encountered)
  BY <1>1, <1>2, <1>3 DEF Recounted, Returned
<1>6. k \in 1..MAX_JSON_DEPTH /\ Left(Len(stack) + 1) = k - 1
  BY <1>3, <1>5, DepthAssumption DEF Left
<1>7. Goal(by_digest, stack, token.payload, Len(stack)) = Wanted(by_digest, Top)
  BY <1>3 DEF Goal
<1>8. f.node = n /\ f.at = i + 1
      /\ f.out = IF n.t = "list" THEN Append(Top.out, Returned)
                 ELSE Put(Top.out, Key(Top), Returned)
  BY <1>3 DEF Advanced, Fields
<1>9. n.t = "object" => Key(Top) = Name(by_digest, n, i)
  <2>1. Digest(Top) = DigestAt(n, i)
    BY <1>3, <1>4, AtAPlace
  <2>2. QED
    BY <2>1 DEF Key, Name
<1>10. f.out = IF n.t = "list" THEN Append(Top.out, Returned)
               ELSE Put(Top.out, Name(by_digest, n, i), Returned)
  BY <1>4, <1>8, <1>9 DEF Waits
<1>11. Yields(by_digest, k - 1, Wanted(by_digest, Top), Returned,
              Beyond(by_digest, k, Top, b), encountered)
  BY <1>5, <1>6, <1>7
<1> HIDE DEF k, b, f
<1>12. Gathers(by_digest, k, f, b) /\ Reached(by_digest, k, f, b) = encountered
  BY <1>3, <1>4, <1>5, <1>6, <1>8, <1>10, <1>11, PassedWith
<1>13. Walks(by_digest, stack, token.payload)
  BY <1>1, StackIsWalks
<1>14. stack' = Append(SubSeq(stack, 1, Len(stack) - 1), f)
  BY <1>1 DEF Below
<1>15. /\ Recounted(by_digest, stack', <<>>, encountered, token.payload, d)
       /\ Fitting(by_digest, stack', token.payload, d)
  BY <1>1, <1>2, <1>3, <1>8, <1>12, <1>13, <1>14, RecountsMove DEF k, b
<1>16. QED
  BY <1>1, <1>15 DEF Retold

\* Return.
LEMMA ReturnRetells ==
  ASSUME Inv, TraceInv, Retold, Return
  PROVE  Retold'
<1> DEFINE k == Left(Len(stack))
           v == Result(Top)
<1>1. /\ phase = "walk" /\ value = <<>> /\ stack # <<>> /\ ~Refused(Top)
      /\ Child(Top) = Nothing /\ Digest(Top) = Nothing
      /\ value' = <<v>> /\ stack' = Below
      /\ UNCHANGED <<token, by_digest, encountered, phase>>
  BY DEF Return, Walking
<1>2. PICK d : /\ Recounted(by_digest, stack, <<>>, encountered, token.payload, d)
               /\ Fitting(by_digest, stack, token.payload, d)
  BY <1>1 DEF Retold
<1>3. /\ Len(stack) \in Nat \ {0} /\ Top = stack[Len(stack)] /\ Shaped(Top.node)
      /\ Top.at \in 1..(Places(Top.node) + 1) /\ Len(stack) \in 1..Len(stack)
  BY <1>1, TopWalk
<1>4. Top.at - 1 = Places(Top.node) /\ Top.at \in Int
  BY <1>1, <1>3, Through
<1>5. Top.node.t # "leaf" => k # 0
  <2>1. ~TooDeep(Top)
    BY <1>1 DEF Refused
  <2>2. Top.node.t # "leaf" => k \in 1..MAX_JSON_DEPTH
    BY <1>1, <2>1, WithinBound
  <2>3. QED
    BY <2>2
<1> DEFINE b == d[Len(stack) - 1]
<1>6. Gathers(by_digest, k, Top, b) /\ encountered = Reached(by_digest, k, Top, b)
  BY <1>1, <1>2, <1>3 DEF Recounted
<1>7. Yields(by_digest, k, Top.node, v, b, encountered)
  <2>1. ~Unlisted(Top)
    BY <1>1 DEF Refused
  <2> HIDE DEF k, b
  <2>2. QED
    BY <1>3, <1>4, <1>5, <1>6, <2>1, ThroughYields
<1>8. Walks(by_digest, stack, token.payload)
  BY <1>1, StackIsWalks
<1> HIDE DEF v
<1>9. /\ Recounted(by_digest, SubSeq(stack, 1, Len(stack) - 1), <<v>>, encountered, token.payload, d)
      /\ Fitting(by_digest, SubSeq(stack, 1, Len(stack) - 1), token.payload, d)
  BY <1>1, <1>2, <1>3, <1>7, <1>8, RecountsPop
<1>10. QED
  BY <1>1, <1>9 DEF Retold, Below

LEMMA AnsweredNext ==
  ASSUME Nothing \notin seen',
         \A g \in seen' : g \in DOMAIN by_digest' =>
           \/ g \in used'
           \/ \E n \in 1..Len(stack') : (n < Len(stack') \/ value' # <<>>) /\ Digest(stack'[n]) = g
  PROVE  Answered'
  BY DEF Answered, Digest, Asks

\* Only what was met is answered.
LEMMA StaysAnswered ==
  ASSUME Inv, Answered, Unmet, [Next]_vars
  PROVE  Answered'
<1>1. Sequence(stack) /\ Len(stack) \in Nat
  BY Pushed DEF Inv, Deep
<1>2. Nothing \notin seen /\ (phase = "walk" => \A g \in seen : g \in DOMAIN by_digest =>
        \/ g \in used
        \/ \E n \in 1..Len(stack) : (n < Len(stack) \/ value # <<>>) /\ Digest(stack[n]) = g)
  BY DEF Answered
<1>3. CASE Index
  <2>1. phase = "index" /\ UNCHANGED seen
    BY <1>3 DEF Index
  <2>2. seen = {}
    <3>1. Len(encountered) = 0
      BY <2>1 DEF Unmet
    <3>2. QED
      BY <3>1 DEF Inv, Counted, MetOnce
  <2>3. QED
    BY <2>1, <2>2 DEF Answered
<1>4. CASE Refuse
  BY <1>2, <1>4 DEF Refuse, Answered
<1>5. CASE Finish
  BY <1>2, <1>5 DEF Finish, Answered
<1>6. CASE YieldChild \/ YieldDisclosed
  <2>1. /\ phase = "walk" /\ value = <<>> /\ stack # <<>> /\ UNCHANGED <<by_digest, value, used, phase>>
        /\ \E w : stack' = Append(stack, w)
        /\ \/ seen' = seen
           \/ Digest(Top) # Nothing /\ seen' = seen \union {Digest(Top)}
    BY <1>6 DEF YieldChild, YieldDisclosed, Walking, Meet
  <2>2. PICK w : stack' = Append(stack, w)
    BY <2>1
  <2>3. /\ Len(stack') = Len(stack) + 1
        /\ \A n \in 1..Len(stack) : n < Len(stack') /\ n \in 1..Len(stack') /\ stack'[n] = stack[n]
    BY <1>1, <2>2, Pushed
  <2>4. Len(stack) \in 1..Len(stack) /\ Top = stack[Len(stack)]
    BY <1>1, <2>1, Popped DEF Top
  <2>5. Nothing \notin seen'
    BY <1>2, <2>1
  <2>6. ASSUME NEW g \in seen', g \in DOMAIN by_digest
        PROVE  g \in used \/ \E n \in 1..Len(stack') : n < Len(stack') /\ Digest(stack'[n]) = g
    <3>1. CASE g \in seen
      <4>1. g \in used \/ \E n \in 1..Len(stack) : Digest(stack[n]) = g
        BY <1>2, <2>1, <2>6, <3>1
      <4>2. QED
        BY <2>3, <4>1
    <3>2. CASE g \notin seen
      <4>1. g = Digest(Top)
        BY <2>1, <2>6, <3>2
      <4>2. QED
        BY <2>3, <2>4, <4>1
    <3>3. QED
      BY <3>1, <3>2
  <2>7. \A g \in seen' : g \in DOMAIN by_digest' =>
          \/ g \in used'
          \/ \E n \in 1..Len(stack') : (n < Len(stack') \/ value' # <<>>) /\ Digest(stack'[n]) = g
    BY <2>1, <2>6
  <2>8. QED
    BY <2>5, <2>7, AnsweredNext
<1>7. CASE Skip
  <2>1. /\ phase = "walk" /\ value = <<>> /\ stack # <<>> /\ UNCHANGED <<by_digest, value, used, phase>>
        /\ stack' = Append(Below, Advanced) /\ Digest(Top) # Nothing
        /\ Digest(Top) \notin DOMAIN by_digest /\ seen' = seen \union {Digest(Top)}
    BY <1>7 DEF Skip, Walking, Meet
  <2>2. Len(stack') = Len(stack) /\ \A n \in 1..Len(stack) : n < Len(stack) => stack'[n] = stack[n]
    BY <1>1, <2>1, Replaced DEF Below
  <2>3. ASSUME NEW g \in seen', g \in DOMAIN by_digest
        PROVE  g \in used \/ \E n \in 1..Len(stack') : n < Len(stack') /\ Digest(stack'[n]) = g
    <3>1. g \in seen
      BY <2>1, <2>3
    <3>2. g \in used \/ \E n \in 1..Len(stack) : n < Len(stack) /\ Digest(stack[n]) = g
      BY <1>2, <2>1, <2>3, <3>1
    <3>3. QED
      BY <2>2, <3>2
  <2>4. Nothing \notin seen'
    BY <1>2, <2>1
  <2>5. \A g \in seen' : g \in DOMAIN by_digest' =>
          \/ g \in used'
          \/ \E n \in 1..Len(stack') : (n < Len(stack') \/ value' # <<>>) /\ Digest(stack'[n]) = g
    BY <2>1, <2>3
  <2>6. QED
    BY <2>4, <2>5, AnsweredNext
<1>8. CASE Return
  <2>1. /\ phase = "walk" /\ value = <<>> /\ stack # <<>> /\ UNCHANGED <<by_digest, seen, used, phase>>
        /\ stack' = Below /\ value' = <<Result(Top)>>
    BY <1>8 DEF Return, Walking
  <2>2. /\ Len(stack') = Len(stack) - 1 /\ Len(stack) \in Nat \ {0}
        /\ \A n \in 1..Len(stack') : stack'[n] = stack[n]
    BY <1>1, <2>1, Popped DEF Below
  <2>3. ASSUME NEW g \in seen, g \in DOMAIN by_digest
        PROVE  g \in used \/ \E n \in 1..Len(stack') : Digest(stack'[n]) = g
    <3>1. g \in used \/ \E n \in 1..Len(stack) : n < Len(stack) /\ Digest(stack[n]) = g
      BY <1>2, <2>1, <2>3
    <3>2. \A n \in 1..Len(stack) : n < Len(stack) => n \in 1..Len(stack')
      BY <2>2
    <3>3. QED
      BY <2>2, <3>1, <3>2
  <2>4. value' # <<>>
    BY <2>1
  <2>5. QED
    BY <1>2, <2>1, <2>3, <2>4 DEF Answered, Digest, Asks
<1>9. CASE Take
  <2>1. /\ phase = "walk" /\ stack # <<>> /\ UNCHANGED <<by_digest, seen, phase>>
        /\ \E f : stack' = Append(Below, f)
        /\ used' = IF Digest(Top) = Nothing THEN used ELSE used \union {Digest(Top)}
    BY <1>9 DEF Take
  <2>2. PICK f : stack' = Append(Below, f)
    BY <2>1
  <2>3. /\ Len(stack') = Len(stack)
        /\ \A n \in 1..Len(stack) : n # Len(stack) => n < Len(stack) /\ stack'[n] = stack[n]
    BY <1>1, <2>1, <2>2, Replaced DEF Below
  <2>4. ASSUME NEW g \in seen, g \in DOMAIN by_digest
        PROVE  g \in used' \/ \E n \in 1..Len(stack') : n < Len(stack') /\ Digest(stack'[n]) = g
    <3>1. g \in used \/ \E n \in 1..Len(stack) : Digest(stack[n]) = g
      BY <1>2, <2>1, <2>4
    <3>2. CASE g \in used
      BY <2>1, <3>2
    <3>3. CASE \E n \in 1..Len(stack) : Digest(stack[n]) = g
      <4>1. PICK n \in 1..Len(stack) : Digest(stack[n]) = g
        BY <3>3
      <4>2. CASE n = Len(stack)
        BY <1>2, <2>1, <4>1, <4>2 DEF Top
      <4>3. CASE n # Len(stack)
        BY <2>3, <4>1, <4>3
      <4>4. QED
        BY <4>2, <4>3
    <3>4. QED
      BY <3>1, <3>2, <3>3
  <2>5. \A g \in seen' : g \in DOMAIN by_digest' =>
          \/ g \in used'
          \/ \E n \in 1..Len(stack') : (n < Len(stack') \/ value' # <<>>) /\ Digest(stack'[n]) = g
    <3>1. seen' = seen /\ by_digest' = by_digest
      BY <2>1
    <3>2. QED
      BY <2>4, <3>1
  <2>6. Nothing \notin seen'
    BY <1>2, <2>1
  <2>7. QED
    BY <2>5, <2>6, AnsweredNext
<1>10. CASE UNCHANGED vars
  BY <1>2, <1>10 DEF vars, Answered, Digest, Asks
<1>11. QED
  BY <1>3, <1>4, <1>5, <1>6, <1>7, <1>8, <1>9, <1>10 DEF Next

\* What the token claims is what its payload expands to.
LEMMA ClaimedIsFull ==
  ASSUME TraceInv, Indexed, phase \in {"walk", "resolved"}
  PROVE  Claimed(token) = Full(by_digest, MAX_JSON_DEPTH, Plain(token.payload))
<1>1. token.payload \in Nodes
  BY NodesAssumption DEF TraceInv, Tabled
<1>2. MAX_JSON_DEPTH \in 0..MAX_JSON_DEPTH
  BY DepthAssumption
<1>3. Expansions(by_digest)[MAX_JSON_DEPTH][token.payload] =
        Full(by_digest, MAX_JSON_DEPTH, Plain(token.payload))
  BY <1>1, <1>2, ExpandsByLevel
<1>4. QED
  BY <1>3 DEF Indexed, Claimed, Expanded

\* No walk of a payload that fits, and names no digest twice, is refused.
LEMMA FittingGoesOn ==
  ASSUME Inv, TraceInv, Retold, Walking, Refused(Top),
         NEW c, c = Full(by_digest, MAX_JSON_DEPTH, Plain(token.payload)), c.fits
  PROVE  ~IsInjective(c.census)
<1> SUFFICES ASSUME IsInjective(c.census) PROVE FALSE
  OBVIOUS
<1> DEFINE T == by_digest
           n == Top.node
           i == Top.at
           k == Left(Len(stack))
           g == Digest(Top)
           e == encountered
<1>1. phase = "walk" /\ value = <<>> /\ stack # <<>>
  BY DEF Walking
<1>2. PICK d : Recounted(T, stack, <<>>, e, token.payload, d) /\ Fitting(T, stack, token.payload, d)
  BY <1>1 DEF Retold
<1>3. /\ Len(stack) \in Nat \ {0} /\ Top = stack[Len(stack)] /\ Shaped(n)
      /\ i \in 1..(Places(n) + 1) /\ OfNodes(T) /\ Top.depth = Len(stack)
      /\ Len(stack) \in 1..Len(stack) /\ Len(stack) <= MAX_JSON_DEPTH + 1
  BY <1>1, TopWalk, StackIsWalks DEF Walks
<1> DEFINE b == d[Len(stack) - 1]
<1>4. Foretold(T, c.census, k, n, b)
  BY <1>2, <1>3 DEF Fitting
<1>5. Gathers(T, k, Top, b) /\ e = Reached(T, k, Top, b)
  BY <1>1, <1>2, <1>3 DEF Recounted
<1>6. Full(T, k, n).fits /\ Continues(c.census, b \o Full(T, k, n).census)
  BY <1>4 DEF Foretold
<1>7. Unfit.fits = FALSE
  BY DEF Unfit
<1>8. n.t # "leaf"
  BY LeavesAskNothing DEF Refused, TooDeep, Unlisted, Misplaced
<1>9. ~TooDeep(Top)
  <2> SUFFICES ASSUME TooDeep(Top) PROVE FALSE
    OBVIOUS
  <2>1. k = 0
    BY <1>3, DepthAssumption DEF TooDeep, Left
  <2>2. Full(T, k, n) = Unfit
    BY <1>8, <2>1 DEF Full, Expansion
  <2>3. QED
    BY <1>6, <1>7, <2>2
<1>10. ~Unlisted(Top)
  <2> SUFFICES ASSUME Unlisted(Top) PROVE FALSE
    OBVIOUS
  <2>1. Full(T, k, n) = Unfit
    BY <1>8 DEF Full, Expansion, Unlisted
  <2>2. QED
    BY <1>6, <1>7, <2>1
<1>11. Misplaced(Top) /\ g # Nothing
  BY <1>9, <1>10 DEF Refused, Misplaced
<1>12. k \in 1..MAX_JSON_DEPTH
  BY <1>1, <1>8, <1>9, WithinBound
<1>13. i \in 1..Places(n)
  BY <1>3, <1>11, NotThrough
<1>14. DigestAt(n, i) = g /\ n.t \in {"list", "object"}
  BY <1>3, <1>13, AtAPlace
<1> DEFINE got == Gathering(T, Of(T, k), n)[i - 1]
           more == More(T, Of(T, k), n, i)
<1>15. /\ g # Mistyped /\ Fits(T, n, i)
       /\ Shown(T, n, i) /\ n.t = "object" => Name(T, n, i) \notin DOMAIN got.out
       /\ Continues(Full(T, k, n).census, got.census \o (Mark(n, i) \o more))
  <2>1. /\ DigestAt(n, i) # Mistyped /\ Fits(T, n, i)
        /\ Shown(T, n, i) => (n.t = "object" => Name(T, n, i) \notin DOMAIN got.out)
        /\ Continues(Full(T, k, n).census, got.census \o (Mark(n, i) \o more))
    BY <1>3, <1>6, <1>12, <1>13, PlaceFits
  <2>2. QED
    BY <1>14, <2>1
<1>16. Top.out = got.out /\ e = b \o got.census
  BY <1>5 DEF Gathers, Gone, Reached
<1>17. CASE g \in seen
  <2>1. Sequence(b) /\ Sequence(got.census)
    <3>1. Sequence(Gone(T, k, Top).census)
      BY <1>3, <1>5, <1>12, WhatIsReached
    <3>2. QED
      BY <1>5, <3>1 DEF Gathers, Gone
  <2>2. Sequence(more)
    <3>1. Listed(T, Of(T, k), n)
      BY <1>3, <1>12, OfLists
    <3>2. QED
      BY <1>13, <3>1, EmptyIsSequence DEF Listed, More
  <2>3. Mark(n, i) = <<g>> /\ Sequence(<<g>>)
    BY <1>11, <1>14, EmptyIsSequence DEF Mark
  <2>4. Continues(c.census, ((b \o got.census) \o <<g>>) \o more)
    <3> DEFINE y == Full(T, k, n).census
               z == c.census
               h == got.census
               m == <<g>>
    <3>1. Continues(z, b \o y) /\ Continues(y, h \o (m \o more))
      BY <1>6, <1>15, <2>3
    <3>2. Sequence(b) /\ Sequence(h) /\ Sequence(m) /\ Sequence(more)
      BY <2>1, <2>2, <2>3
    <3> HIDE DEF b, y, z, h, m, more
    <3>3. Continues(z, ((b \o h) \o m) \o more)
      BY <3>1, <3>2, Continuing
    <3>4. QED
      BY <3>3 DEF z, h, m
  <2>5. PICK r : Sequence(r) /\ c.census = (((b \o got.census) \o <<g>>) \o more) \o r
    BY <2>4 DEF Continues
  <2>6. Sequence(e)
    BY DEF Inv, Counted
  <2> DEFINE t == more \o r
             m == <<g>>
  <2>7. Sequence(t)
    BY <2>2, <2>5, Joined
  <2>8. c.census = (e \o m) \o t
    <3>1. c.census = ((e \o m) \o more) \o r
      BY <1>16, <2>5
    <3>2. Sequence(e \o m)
      BY <2>3, <2>6, Joined
    <3>3. ((e \o m) \o more) \o r = (e \o m) \o (more \o r)
      <4> DEFINE u == e \o m
      <4>1. Sequence(u) /\ Sequence(more) /\ Sequence(r)
        BY <2>2, <2>5, <3>2
      <4> HIDE DEF u, more, e
      <4>2. (u \o more) \o r = u \o (more \o r)
        BY <4>1, Associates
      <4>3. QED
        BY <4>2 DEF u
    <3>4. QED
      BY <3>1, <3>3
  <2> HIDE DEF t, e, g
  <2>9. /\ \A j \in 1..Len(e) : j \in DOMAIN c.census /\ c.census[j] = e[j]
        /\ Len(e) + 1 \in DOMAIN c.census /\ c.census[Len(e) + 1] = g /\ Len(e) \in Nat
    BY <2>6, <2>7, <2>8, JoinedAt
  <2>10. PICK j \in 1..Len(e) : e[j] = g
    BY <1>17 DEF Inv, Counted, MetOnce, e
  <2>11. j = Len(e) + 1
    BY <2>9, <2>10 DEF IsInjective
  <2>12. QED
    BY <2>9, <2>10, <2>11
<1>18. CASE g \notin seen
  <2>1. /\ g \in DOMAIN T
        /\ IF n.t = "list" THEN T[g].form # "array"
           ELSE \/ T[g].form # "object"
                \/ T[g].name \in {Mistyped, "_sd", "..."}
                \/ T[g].name \in DOMAIN Top.out
    BY <1>11, <1>15, <1>18 DEF Misplaced
  <2>2. Shown(T, n, i) /\ Name(T, n, i) = T[g].name
    BY <1>11, <1>14, <2>1 DEF Shown, Name
  <2>3. IF n.t = "list" THEN T[g].form = "array"
        ELSE T[g].form = "object" /\ T[g].name \notin {Mistyped, "_sd", "..."}
    BY <1>11, <1>14, <1>15, <2>1 DEF Fits
  <2>4. n.t = "object" /\ T[g].name \in DOMAIN got.out
    BY <1>14, <1>16, <2>1, <2>3
  <2>5. QED
    BY <1>15, <2>2, <2>4
<1>19. QED
  BY <1>17, <1>18

\* Once the last walk has returned, it has given the claims.
LEMMA ReturnedIsClaimed ==
  ASSUME Inv, TraceInv, Indexed, Retold, phase \in {"walk", "resolved"},
         stack = <<>>, value # <<>>
  PROVE  /\ Claimed(token).fits /\ Claimed(token).value = Returned
         /\ encountered = Claimed(token).census
<1> DEFINE T == by_digest
           p == token.payload
           c == Full(T, MAX_JSON_DEPTH, Plain(p))
<1>1. PICK d : Recounted(T, stack, value, encountered, p, d)
  BY DEF Retold
<1>2. Len(stack) = 0 /\ Left(Len(stack) + 1) = MAX_JSON_DEPTH
  BY DepthAssumption DEF Left
<1>3. Goal(T, stack, p, 0) = Plain(p)
  BY DEF Goal
<1>4. d[0] = <<>> /\ Yields(T, MAX_JSON_DEPTH, Plain(p), value[1], d[0], encountered)
  BY <1>1, <1>2, <1>3 DEF Recounted
<1>5. c.fits /\ c.value = value[1] /\ encountered = <<>> \o c.census
  BY <1>4 DEF Yields
<1>6. Sequence(c.census)
  <2>1. OfNodes(T) /\ p \in Nodes
    BY DisclosedAreNodes, NodesAssumption DEF OfNodes, TraceInv, Tabled
  <2>2. MAX_JSON_DEPTH \in 0..MAX_JSON_DEPTH /\ Shaped(Plain(p))
    BY <2>1, DepthAssumption, NodesAreShaped
  <2>3. QED
    BY <2>1, <2>2, FullLists
<1>7. <<>> \o c.census = c.census
  <2> DEFINE x == c.census
  <2>1. Sequence(x) /\ Sequence(<<>>)
    BY <1>6, EmptyIsSequence
  <2> HIDE DEF x
  <2>2. <<>> \o x = x
    BY <2>1, Joined
  <2>3. QED
    BY <2>2 DEF x
<1>8. Claimed(token) = c
  BY ClaimedIsFull
<1> HIDE DEF c
<1>9. QED
  BY <1>5, <1>7, <1>8 DEF Returned

\* What is resolved is as the recursion has it.
LEMMA ResolvedAsClaimed ==
  ASSUME Inv, TraceInv, RetoldInv, phase = "resolved"
  PROVE  /\ Resolvable(token) /\ Returned = Claimed(token).value
         /\ encountered = Claimed(token).census
         /\ used = DOMAIN TableOf(token.disclosures)
<1>1. /\ by_digest = TableOf(token.disclosures)
      /\ token.sd_alg \in {"absent", "sha-256"}
      /\ \A i \in DOMAIN token.disclosures : token.disclosures[i].form # "malformed"
      /\ \A i, j \in DOMAIN token.disclosures :
           token.disclosures[i].digest = token.disclosures[j].digest => i = j
  BY DEF RetoldInv, Indexed
<1>2. stack = <<>> /\ value # <<>>
  BY DEF Inv, TypeOK
<1>3. /\ Claimed(token).fits /\ Claimed(token).value = Returned
      /\ encountered = Claimed(token).census
  BY <1>2, ReturnedIsClaimed DEF RetoldInv
<1>4. used = DOMAIN by_digest /\ used \subseteq seen
  BY DEF Inv, TypeOK, TraceInv, Used
<1>5. /\ DOMAIN encountered = 1..Len(encountered)
      /\ \A i, j \in 1..Len(encountered) : encountered[i] = encountered[j] => i = j
      /\ seen = {encountered[i] : i \in 1..Len(encountered)}
  <2>1. PICK S : encountered \in Seq(S)
    BY DEF Inv, Counted, Sequence
  <2>2. DOMAIN encountered = 1..Len(encountered)
    BY <2>1
  <2>3. QED
    BY <2>2 DEF Inv, Counted, MetOnce
<1>6. IsInjective(encountered) /\ ToSet(encountered) = seen
  BY <1>5 DEF IsInjective, ToSet
<1>7. DOMAIN TableOf(token.disclosures) \subseteq ToSet(Claimed(token).census)
  BY <1>1, <1>3, <1>4, <1>6
<1>8. QED
  BY <1>1, <1>3, <1>4, <1>6, <1>7 DEF Resolvable

\* What is refused while it is walked is not to be resolved.
LEMMA RefuseJudges ==
  ASSUME Inv, TraceInv, RetoldInv, Refuse
  PROVE  Judged'
<1>1. Walking /\ Refused(Top) /\ phase = "walk" /\ token' = token
  BY DEF Refuse, Walking
<1> DEFINE c == Full(by_digest, MAX_JSON_DEPTH, Plain(token.payload))
<1>2. Claimed(token) = c
  BY <1>1, ClaimedIsFull DEF RetoldInv
<1> HIDE DEF c
<1>3. c.fits => ~IsInjective(c.census)
  BY <1>1, FittingGoesOn DEF RetoldInv, c
<1>4. ~Resolvable(token)
  BY <1>2, <1>3 DEF Resolvable
<1>5. ~Resolvable(token')
  BY <1>1, <1>4
<1>6. QED
  BY <1>5 DEF Judged, Resolvable, Claimed, Expanded

\* A disclosure that no digest of the claims names refuses the token.
LEMMA FinishJudges ==
  ASSUME Inv, TraceInv, RetoldInv, Finish
  PROVE  Judged'
<1>1. /\ phase = "walk" /\ stack = <<>> /\ value # <<>> /\ token' = token
      /\ phase' = "refused" => ~(DOMAIN by_digest \subseteq used)
  BY DEF Finish
<1>2. encountered = Claimed(token).census /\ by_digest = TableOf(token.disclosures)
  BY <1>1, ReturnedIsClaimed DEF RetoldInv, Indexed
<1>3. ToSet(encountered) = seen
  <2>1. PICK S : encountered \in Seq(S)
    BY DEF Inv, Counted, Sequence
  <2>2. DOMAIN encountered = 1..Len(encountered)
    BY <2>1
  <2>3. QED
    BY <2>2 DEF Inv, Counted, MetOnce, ToSet
<1>4. \A g \in seen : g \in DOMAIN by_digest => g \in used
  <2>1. 1..Len(stack) = {}
    BY <1>1
  <2>2. QED
    BY <1>1, <2>1 DEF RetoldInv, Answered
<1>5. phase' = "refused" => ~Resolvable(token)
  BY <1>1, <1>2, <1>3, <1>4 DEF Resolvable
<1>6. phase' = "refused" => ~Resolvable(token')
  BY <1>1, <1>5
<1>7. QED
  BY <1>6 DEF Judged, Resolvable, Claimed, Expanded

\* The table is made, or the token is not to be resolved.
LEMMA IndexJudges ==
  ASSUME Inv, TraceInv, RetoldInv, Index
  PROVE  Indexed' /\ Retold' /\ Judged'
<1>1. phase = "index" /\ UNCHANGED <<token, value, seen, encountered, used>>
  BY DEF Index
<1> DEFINE Bad == \/ token.sd_alg \notin {"absent", "sha-256"}
                  \/ \E i \in Indexes : token.disclosures[i].form = "malformed"
                  \/ \E i, j \in Indexes :
                       i # j /\ token.disclosures[i].digest = token.disclosures[j].digest
<1>2. CASE Bad
  <2>1. phase' = "refused"
    BY <1>2 DEF Index
  <2>2. ~Resolvable(token)
    BY <1>2 DEF Resolvable, Indexes
  <2>3. ~Resolvable(token')
    BY <1>1, <2>2
  <2>4. QED
    BY <2>1, <2>3 DEF Judged, Indexed, Retold, Resolvable, Claimed, Expanded
<1>3. CASE ~Bad
  <2>1. /\ by_digest' = TableOf(token.disclosures) /\ stack' = <<Walk(token.payload, 1)>>
        /\ phase' = "walk"
    BY <1>3 DEF Index, Indexes, TableOf
  <2>2. /\ token.sd_alg \in {"absent", "sha-256"}
        /\ \A i \in DOMAIN token.disclosures : token.disclosures[i].form # "malformed"
        /\ \A i, j \in DOMAIN token.disclosures :
             token.disclosures[i].digest = token.disclosures[j].digest => i = j
    BY <1>3 DEF Indexes
  <2>3. Indexed'
    BY <1>1, <2>1, <2>2 DEF Indexed, TableOf
  <2>4. Retold'
    <3>1. value' = <<>> /\ encountered' = <<>>
      BY <1>1 DEF RetoldInv, Unmet, Inv, Early
    <3>2. OfNodes(by_digest') /\ token.payload \in Nodes
      <4>1. Tabled'
        BY IndexTraces DEF TraceInv
      <4>2. IsTable(by_digest', token.disclosures) /\ token \in Presentations
        BY <1>1, <2>1, <4>1 DEF Tabled, IsTable, TraceInv
      <4>3. ASSUME NEW g \in DOMAIN by_digest' PROVE by_digest'[g].value \in Nodes
        <5>1. PICK i \in DOMAIN token.disclosures : token.disclosures[i].digest = g
          BY <4>2 DEF IsTable
        <5>2. by_digest'[g] = token.disclosures[i] /\ token.disclosures[i].form # "malformed"
          BY <4>2, <5>1 DEF IsTable
        <5>3. token.disclosures[i].value \in Nodes
          BY <4>2, <5>1, <5>2, NodesAssumption
        <5>4. QED
          BY <5>2, <5>3
      <4>4. QED
        BY <4>2, <4>3, NodesAssumption DEF OfNodes
    <3>3. PICK d :
            /\ Recounted(by_digest', <<Walk(token.payload, 1)>>, <<>>, <<>>, token.payload, d)
            /\ Fitting(by_digest', <<Walk(token.payload, 1)>>, token.payload, d)
      BY <3>2, IndexRetells
    <3>4. QED
      BY <1>1, <2>1, <3>1, <3>3 DEF Retold
  <2>5. QED
    BY <2>1, <2>3, <2>4 DEF Judged
<1>4. QED
  BY <1>2, <1>3

\* RetoldInv is inductive, beside the others.
THEOREM AlwaysRetold == Spec => []RetoldInv
<1>1. Init => RetoldInv
  <2>1. Nothing \notin {}
    OBVIOUS
  <2>2. QED
    BY DEF Init, RetoldInv, Indexed, Retold, Answered, Unmet, Judged
<1>2. Inv /\ TraceInv /\ RetoldInv /\ [Next]_vars => RetoldInv'
  <2> SUFFICES ASSUME Inv, TraceInv, RetoldInv, [Next]_vars PROVE RetoldInv'
    OBVIOUS
  <2>1. Answered'
    BY StaysAnswered DEF RetoldInv
  <2>2. Unmet'
    BY DEF RetoldInv, Unmet, Next, vars, Index, Refuse, YieldChild, YieldDisclosed, Skip, Return,
           Take, Finish, Walking
  <2>3. Indexed' /\ Retold' /\ Judged'
    <3>1. CASE Index
      BY <3>1, IndexJudges
    <3>2. CASE Refuse
      <4>1. phase' = "refused"
        BY <3>2 DEF Refuse
      <4>2. QED
        BY <3>2, <4>1, RefuseJudges DEF Indexed, Retold
    <3>3. ASSUME phase = "walk", phase' = "walk", Retold',
                 UNCHANGED <<token, by_digest>>
          PROVE  Indexed' /\ Judged'
      BY <3>3 DEF RetoldInv, Indexed, Judged, TableOf
    <3>4. CASE YieldChild \/ YieldDisclosed
      <4>1. phase = "walk" /\ phase' = "walk" /\ UNCHANGED <<token, by_digest>>
        BY <3>4 DEF YieldChild, YieldDisclosed, Walking
      <4>2. QED
        BY <3>3, <3>4, <4>1, YieldRetells DEF RetoldInv
    <3>5. CASE Skip
      <4>1. phase = "walk" /\ phase' = "walk" /\ UNCHANGED <<token, by_digest>>
        BY <3>5 DEF Skip, Walking
      <4>2. QED
        BY <3>3, <3>5, <4>1, SkipRetells DEF RetoldInv
    <3>6. CASE Return
      <4>1. phase = "walk" /\ phase' = "walk" /\ UNCHANGED <<token, by_digest>>
        BY <3>6 DEF Return, Walking
      <4>2. QED
        BY <3>3, <3>6, <4>1, ReturnRetells DEF RetoldInv
    <3>7. CASE Take
      <4>1. phase = "walk" /\ phase' = "walk" /\ UNCHANGED <<token, by_digest>>
        BY <3>7 DEF Take
      <4>2. QED
        BY <3>3, <3>7, <4>1, TakeRetells DEF RetoldInv
    <3>8. CASE Finish
      <4>1. phase = "walk" /\ UNCHANGED <<token, by_digest, stack, value, encountered>>
        BY <3>8 DEF Finish
      <4>2. Indexed' /\ Retold'
        <5>1. Indexed'
          <6>1. /\ by_digest = TableOf(token.disclosures)
                /\ token.sd_alg \in {"absent", "sha-256"}
                /\ \A i \in DOMAIN token.disclosures : token.disclosures[i].form # "malformed"
                /\ \A i, j \in DOMAIN token.disclosures :
                     token.disclosures[i].digest = token.disclosures[j].digest => i = j
            BY <4>1 DEF RetoldInv, Indexed
          <6>2. by_digest' = by_digest /\ token' = token
            BY <4>1
          <6>3. QED
            BY <6>1, <6>2 DEF Indexed, TableOf
        <5>2. \E d : /\ Recounted(by_digest, stack, value, encountered, token.payload, d)
                     /\ Fitting(by_digest, stack, token.payload, d)
          BY <4>1 DEF RetoldInv, Retold
        <5>3. \E d : /\ Recounted(by_digest', stack', value', encountered', token'.payload, d)
                     /\ Fitting(by_digest', stack', token'.payload, d)
          BY <4>1, <5>2
        <5>4. Retold'
          BY <5>3 DEF Retold
        <5>5. QED
          BY <5>1, <5>4
      <4>3. QED
        BY <3>8, <4>2, FinishJudges
    <3>9. CASE UNCHANGED vars
      <4>1. UNCHANGED <<token, by_digest, stack, value, encountered, phase>>
        BY <3>9 DEF vars
      <4>2. Indexed'
        BY <4>1 DEF RetoldInv, Indexed, TableOf
      <4>3. Retold'
        BY <4>1 DEF RetoldInv, Retold
      <4>4. Judged'
        <5>1. phase' = "refused" => ~Resolvable(token)
          BY <4>1 DEF RetoldInv, Judged
        <5>2. phase' = "refused" => ~Resolvable(token')
          BY <4>1, <5>1
        <5>3. QED
          BY <5>2 DEF Judged, Resolvable, Claimed, Expanded
      <4>5. QED
        BY <4>2, <4>3, <4>4
    <3>10. QED
      BY <3>1, <3>2, <3>4, <3>5, <3>6, <3>7, <3>8, <3>9 DEF Next
  <2>4. QED
    BY <2>1, <2>2, <2>3 DEF RetoldInv
<1>3. QED
  BY <1>1, <1>2, Always, AlwaysTraced, PTL DEF Spec

\* The walk resolves exactly the tokens that the recursion resolves, to its claims and
\* with its census of digests, of any JSON, disclosures and depth: resolve_disclosures'
\* stack of suspended walks computes the recursion that it stands for.
THEOREM ResolvesExactly == Spec => []ResolvesAsReference
<1>1. Inv /\ TraceInv /\ RetoldInv => ResolvesAsReference
  <2> SUFFICES ASSUME Inv, TraceInv, RetoldInv PROVE ResolvesAsReference
    OBVIOUS
  <2>1. phase = "refused" => ~Resolvable(token)
    BY DEF RetoldInv, Judged
  <2>2. QED
    BY <2>1, ResolvedAsClaimed DEF ResolvesAsReference
<1>2. QED
  BY <1>1, Always, AlwaysTraced, AlwaysRetold, PTL

-----------------------------------------------------------------------------
(* What fits, expands: the recursion and the derivations agree.              *)

\* Two derivations are one.
LEMMA DerivedTogether ==
  ASSUME NEW T, NEW D, NEW E, Derivation(T, D), Derivation(T, E)
  PROVE  LET F == Join(D, E)
         IN Derivation(T, F) /\ Pairs(D) \subseteq Pairs(F) /\ Pairs(E) \subseteq Pairs(F)
<1> DEFINE F == D \o E
<1>1. /\ Sequence(D) /\ Sequence(E)
      /\ \A i \in 1..Len(D) : /\ D[i] = [node |-> D[i].node, value |-> D[i].value]
                              /\ Follows(T, D[i].node, D[i].value, Before(D, i))
      /\ \A i \in 1..Len(E) : /\ E[i] = [node |-> E[i].node, value |-> E[i].value]
                              /\ Follows(T, E[i].node, E[i].value, Before(E, i))
  BY DEF Derivation
<1>2. Sequence(F)
  BY <1>1, Joined
<1>3. /\ Len(D) \in Nat /\ Len(E) \in Nat /\ Len(F) = Len(D) + Len(E)
      /\ \A i \in 1..Len(D) : F[i] = D[i]
      /\ \A i \in 1..Len(E) : F[Len(D) + i] = E[i]
  <2>1. PICK S : D \in Seq(S)
    BY <1>1 DEF Sequence
  <2>2. PICK R : E \in Seq(R)
    BY <1>1 DEF Sequence
  <2>3. D \in Seq(S \union R) /\ E \in Seq(S \union R)
    BY <2>1, <2>2
  <2>4. QED
    BY <2>3
<1> HIDE DEF F
<1>4. Pairs(F) = Pairs(D) \union Pairs(E)
  <2>1. \A i \in 1..Len(F) : i \in 1..Len(D) \/ i - Len(D) \in 1..Len(E)
    BY <1>3
  <2>2. \A i \in 1..Len(F) : F[i] \in Pairs(D) \union Pairs(E)
    <3> SUFFICES ASSUME NEW i \in 1..Len(F) PROVE F[i] \in Pairs(D) \union Pairs(E)
      OBVIOUS
    <3>1. CASE i \in 1..Len(D)
      BY <1>3, <3>1 DEF Pairs
    <3>2. CASE i - Len(D) \in 1..Len(E)
      <4>1. Len(D) + (i - Len(D)) = i
        BY <1>3
      <4>2. F[i] = E[i - Len(D)]
        BY <1>3, <3>2, <4>1
      <4>3. QED
        BY <3>2, <4>2 DEF Pairs
    <3>3. QED
      BY <2>1, <3>1, <3>2
  <2>3. \A i \in 1..Len(D) : i \in 1..Len(F)
    BY <1>3
  <2>4. \A i \in 1..Len(E) : Len(D) + i \in 1..Len(F)
    BY <1>3
  <2>5. ASSUME NEW x \in Pairs(D) PROVE x \in Pairs(F)
    <3>1. PICK i \in 1..Len(D) : x = D[i]
      BY <2>5 DEF Pairs
    <3>2. QED
      BY <1>3, <2>3, <3>1 DEF Pairs
  <2>6. ASSUME NEW x \in Pairs(E) PROVE x \in Pairs(F)
    <3>1. PICK i \in 1..Len(E) : x = E[i]
      BY <2>6 DEF Pairs
    <3>2. x = F[Len(D) + i] /\ Len(D) + i \in 1..Len(F)
      BY <1>3, <2>4, <3>1
    <3>3. QED
      BY <3>2 DEF Pairs
  <2>7. ASSUME NEW x \in Pairs(F) PROVE x \in Pairs(D) \union Pairs(E)
    BY <2>2, <2>7 DEF Pairs
  <2>8. QED
    BY <2>5, <2>6, <2>7
<1>5. ASSUME NEW i \in 1..Len(F)
      PROVE  /\ F[i] = [node |-> F[i].node, value |-> F[i].value]
             /\ Follows(T, F[i].node, F[i].value, Before(F, i))
  <2>1. CASE i \in 1..Len(D)
    <3>1. F[i] = D[i]
      BY <1>3, <2>1
    <3>2. Before(F, i) = Before(D, i)
      <4>1. \A j \in 1..(i - 1) : j \in 1..Len(D)
        BY <1>3, <2>1
      <4>2. QED
        BY <1>3, <4>1 DEF Before
    <3>3. QED
      BY <1>1, <2>1, <3>1, <3>2
  <2>2. CASE i \notin 1..Len(D)
    <3> DEFINE j == i - Len(D)
    <3>1. j \in 1..Len(E) /\ Len(D) + j = i
      BY <1>3, <2>2
    <3>2. F[i] = E[j]
      BY <1>3, <3>1
    <3>3. Before(E, j) \subseteq Before(F, i)
      <4>1. \A l \in 1..(j - 1) : l \in 1..Len(E) /\ Len(D) + l \in 1..(i - 1)
        BY <1>3, <3>1
      <4>2. QED
        BY <1>3, <4>1 DEF Before
    <3> HIDE DEF j
    <3>4. Follows(T, E[j].node, E[j].value, Before(F, i))
      BY <1>1, <3>1, <3>3, Monotone DEF Follows
    <3>5. QED
      BY <1>1, <3>1, <3>2, <3>4
  <2>3. QED
    BY <2>1, <2>2
<1>6. Derivation(T, F)
  BY <1>2, <1>5 DEF Derivation
<1>7. F = Join(D, E)
  BY DEF F, Join
<1>8. QED
  BY <1>4, <1>6, <1>7

\* What fits where k more containers may nest, expands.
FitsExpand(T, k) ==
  \A x \in Nodes : Full(T, k, Plain(x)).fits => Expands(T, x, Full(T, k, Plain(x)).value)

\* What the places of a node give is derived.
LEMMA PlacesDerived ==
  ASSUME NEW T, OfNodes(T), NEW k \in 1..MAX_JSON_DEPTH, FitsExpand(T, k - 1),
         NEW n, Shaped(n)
  PROVE  LET g == Gathering(T, Of(T, k), n)
         IN \A m \in 0..Places(n) : g[m].fits =>
              \E D : Derivation(T, D) /\ Gathered(T, n, m, g[m].out, Pairs(D))
<1> DEFINE of == Of(T, k)
           g == Gathering(T, of, n)
           Good(m) == g[m].fits =>
                        \E D : Derivation(T, D) /\ Gathered(T, n, m, g[m].out, Pairs(D))
           B == {m \in Nat : m <= Places(n) /\ ~Good(m)}
<1> SUFFICES ASSUME B # {} PROVE FALSE
  <2>1. \A m \in 0..Places(n) : m \in Nat /\ m <= Places(n)
    BY DEF Shaped
  <2> HIDE DEF Good
  <2>2. \A m \in 0..Places(n) : Good(m)
    BY <2>1
  <2>3. QED
    BY <2>2 DEF Good
<1>1. PICK m \in B : \A l \in B : m <= l
  <2> HIDE DEF Good
  <2>1. B \in SUBSET Nat
    OBVIOUS
  <2> HIDE DEF B
  <2>2. QED
    BY <2>1, LeastNumber
<1>2. Places(n) \in Nat /\ n.t \in {"leaf", "list", "object"} /\ m \in Nat /\ m <= Places(n)
  BY <1>1 DEF Shaped
<1>3. /\ g[0] = Blank
      /\ \A i \in 1..Places(n) : g[i] = Placed(T, of, n, i, g[i - 1])
  BY <1>2, GathersByPlace
<1>4. Listed(T, of, n) /\ \A i \in 0..Places(n) : Sequence(g[i].census)
  BY <1>2, OfLists, GatheringLists
<1> HIDE DEF g, of
<1>5. g[m].fits /\ ~\E D : Derivation(T, D) /\ Gathered(T, n, m, g[m].out, Pairs(D))
  BY <1>1
<1>6. m # 0
  <2> SUFFICES ASSUME m = 0 PROVE FALSE
    OBVIOUS
  <2>1. Derivation(T, <<>>)
    <3>1. Sequence(<<>>) /\ Len(<<>>) = 0
      BY EmptyIsSequence
    <3>2. 1..Len(<<>>) = {}
      BY <3>1
    <3>3. QED
      BY <3>1, <3>2 DEF Derivation
  <2>2. g[0].out = <<>>
    BY <1>3 DEF Blank
  <2>3. Gathered(T, n, 0, <<>>, Pairs(<<>>))
    BY GatheredFirst
  <2>4. QED
    BY <1>5, <2>1, <2>2, <2>3
<1> DEFINE i == m - 1
           got == g[i]
<1>7. m \in 1..Places(n) /\ m \in Nat \ {0} /\ i \in Nat /\ i <= Places(n) /\ ~(m <= i)
      /\ i \in 0..Places(n)
  BY <1>2, <1>6
<1>8. Good(i)
  BY <1>1, <1>7
<1>9. g[m] = Placed(T, of, n, m, got) /\ Sequence(got.census)
  BY <1>3, <1>4, <1>7
<1>10. /\ got.fits /\ Fits(T, n, m)
       /\ Shown(T, n, m) =>
            /\ of[Within(T, n, m)].fits
            /\ n.t = "object" => Name(T, n, m) \notin DOMAIN got.out
  <2> HIDE DEF got
  <2>1. LET p == Placed(T, of, n, m, got)
        IN p.fits => /\ got.fits /\ DigestAt(n, m) # Mistyped /\ Fits(T, n, m)
                     /\ Shown(T, n, m) =>
                          /\ of[Within(T, n, m)].fits
                          /\ n.t = "object" => Name(T, n, m) \notin DOMAIN got.out
    BY <1>4, <1>7, <1>9, PlaceAdds
  <2>2. QED
    BY <1>5, <1>9, <2>1
<1>11. PICK D : Derivation(T, D) /\ Gathered(T, n, i, got.out, Pairs(D))
  BY <1>8, <1>10
<1> HIDE DEF got, i, Good, B
<1>12. CASE ~Shown(T, n, m)
  <2>1. g[m].out = got.out
    BY <1>9, <1>12 DEF Placed
  <2>2. Gathered(T, n, m, got.out, Pairs(D))
    BY <1>7, <1>11, <1>12, GatheredAsBefore DEF i
  <2>3. QED
    BY <1>5, <1>11, <2>1, <2>2
<1>13. CASE Shown(T, n, m)
  <2> DEFINE x == Within(T, n, m)
             v == of[x].value
  <2>1. x \in Nodes
    BY <1>7, <1>13, WithinIsNode
  <2>2. of[x] = Full(T, k - 1, Plain(x))
    BY <2>1, OfIsFull DEF of
  <2>3. Expands(T, x, v)
    BY <1>10, <1>13, <2>1, <2>2 DEF FitsExpand
  <2> HIDE DEF x, v
  <2>4. PICK E : Derivation(T, E) /\ Gives(Pairs(E), x, v)
    BY <2>3 DEF Expands
  <2>12. Derivation(T, D) /\ Derivation(T, E)
    BY <1>11, <2>4
  <2> DEFINE F == Join(D, E)
  <2>5. Derivation(T, F) /\ Pairs(D) \subseteq Pairs(F) /\ Pairs(E) \subseteq Pairs(F)
    BY <2>12, DerivedTogether
  <2> HIDE DEF F
  <2>6. Gives(Pairs(F), x, v)
    BY <2>4, <2>5 DEF Gives
  <2>7. Gathered(T, n, i, got.out, Pairs(F))
    <3> DEFINE o == got.out
               S == Pairs(D)
               R == Pairs(F)
    <3>1. Gathered(T, n, i, o, S) /\ S \subseteq R
      BY <1>11, <2>5
    <3> HIDE DEF o, S, R
    <3>2. Gathered(T, n, i, o, R)
      BY <3>1, Monotone
    <3>3. QED
      BY <3>2 DEF o, R
  <2>8. n.t \in {"list", "object"}
    <3>1. n.t = "leaf" => Places(n) = 0
      BY DEF Places
    <3>2. Places(n) # 0
      BY <1>2, <1>7
    <3>3. QED
      BY <1>2, <3>1, <3>2
  <2>9. Gathered(T, n, m,
          IF n.t = "list" THEN Append(got.out, v) ELSE Put(got.out, Name(T, n, m), v), Pairs(F))
    <3> DEFINE o == got.out
               S == Pairs(F)
    <3>1. /\ Gathered(T, n, m - 1, o, S) /\ Gives(S, Within(T, n, m), v)
          /\ n.t = "object" => Name(T, n, m) \notin DOMAIN o
      BY <1>10, <1>13, <2>6, <2>7 DEF i, x
    <3> HIDE DEF o, S
    <3>2. Gathered(T, n, m,
            IF n.t = "list" THEN Append(o, v) ELSE Put(o, Name(T, n, m), v), S)
      BY <1>7, <1>10, <1>13, <2>8, <3>1, GatheredMore
    <3>3. QED
      BY <3>2 DEF o, S
  <2>10. g[m].out = IF n.t = "list" THEN Append(got.out, v) ELSE Put(got.out, Name(T, n, m), v)
    BY <1>9, <1>13 DEF Placed, x, v
  <2>11. QED
    BY <1>5, <2>5, <2>9, <2>10
<1>14. QED
  BY <1>12, <1>13

\* A container more.
LEMMA MoreFitsExpand ==
  ASSUME NEW T, OfNodes(T), NEW k \in 0..MAX_JSON_DEPTH, k # 0 => FitsExpand(T, k - 1)
  PROVE  FitsExpand(T, k)
<1> SUFFICES ASSUME NEW x \in Nodes, Full(T, k, Plain(x)).fits
             PROVE  Expands(T, x, Full(T, k, Plain(x)).value)
  BY DEF FitsExpand
<1> DEFINE n == Plain(x)
           v == Full(T, k, n).value
<1>1. Shaped(n)
  BY NodesAreShaped
<1> HIDE DEF n
<1>2. n.t \in {"leaf", "list", "object"} /\ Places(n) \in Nat
  BY <1>1 DEF Shaped
<1>3. \E D : Derivation(T, D) /\ Follows(T, n, v, Pairs(D))
  <2>1. CASE n.t = "leaf"
    <3>1. v = n
      BY <2>1 DEF Full, Expansion
    <3>2. Derivation(T, <<>>)
      <4>1. Sequence(<<>>) /\ Len(<<>>) = 0
        BY EmptyIsSequence
      <4>2. 1..Len(<<>>) = {}
        BY <4>1
      <4>3. QED
        BY <4>1, <4>2 DEF Derivation
    <3>3. QED
      BY <2>1, <3>1, <3>2 DEF Follows
  <2>2. CASE n.t # "leaf"
    <3> DEFINE g == Gathering(T, Of(T, k), n)
               all == g[Places(n)]
               w == IF n.t = "list" THEN List(all.out)
                    ELSE [t |-> "object", members |-> all.out]
    <3>1. ~(k = 0 \/ (n.t = "object" /\ n.sd = NotAList))
      <4> SUFFICES ASSUME k = 0 \/ (n.t = "object" /\ n.sd = NotAList) PROVE FALSE
        OBVIOUS
      <4>1. Full(T, k, n) = Unfit
        BY <2>2 DEF Full, Expansion
      <4>2. Full(T, k, n).fits
        BY DEF n
      <4>3. QED
        BY <4>1, <4>2 DEF Unfit
    <3>2. Full(T, k, n) = [fits |-> all.fits, census |-> all.census, value |-> w]
      BY <2>2, <3>1 DEF Full, Expansion
    <3>3. all.fits /\ v = w
      <4> HIDE DEF all, w
      <4>1. Full(T, k, n).fits
        BY DEF n
      <4>2. QED
        BY <3>2, <4>1
    <3>4. k \in 1..MAX_JSON_DEPTH
      BY <3>1, DepthAssumption
    <3>5. Places(n) \in 0..Places(n)
      BY <1>2
    <3>6. PICK D : Derivation(T, D) /\ Gathered(T, n, Places(n), all.out, Pairs(D))
      BY <1>1, <3>1, <3>3, <3>4, <3>5, PlacesDerived
    <3> HIDE DEF all
    <3>7. Follows(T, n, v, Pairs(D))
      BY <1>2, <2>2, <3>1, <3>3, <3>6 DEF Follows
    <3>8. QED
      BY <3>6, <3>7
  <2>3. QED
    BY <2>1, <2>2
<1> HIDE DEF v
<1>4. PICK D : Derivation(T, D) /\ Follows(T, n, v, Pairs(D))
  BY <1>3
<1> DEFINE E == Append(D, [node |-> n, value |-> v])
<1>5. Derivation(T, E) /\ Pairs(E) = Pairs(D) \union {[node |-> n, value |-> v]}
  BY <1>4, Derives
<1> HIDE DEF E
<1>6. Gives(Pairs(E), x, v)
  BY <1>5 DEF Gives, n
<1>7. Expands(T, x, v)
  BY <1>5, <1>6 DEF Expands
<1>8. QED
  BY <1>7 DEF v, n

\* What a token claims, its payload expands to.
LEMMA ClaimedExpands ==
  ASSUME NEW p, p.payload \in Nodes, OfNodes(TableOf(p.disclosures)), Claimed(p).fits
  PROVE  Expands(TableOf(p.disclosures), p.payload, Claimed(p).value)
<1> DEFINE T == TableOf(p.disclosures)
           B == {k \in Nat : k <= MAX_JSON_DEPTH /\ ~FitsExpand(T, k)}
<1>1. B = {}
  <2> SUFFICES ASSUME B # {} PROVE FALSE
    OBVIOUS
  <2>1. PICK k \in B : \A l \in B : k <= l
    <3>1. B \in SUBSET Nat
      OBVIOUS
    <3> HIDE DEF B
    <3>2. QED
      BY <3>1, LeastNumber
  <2>2. k \in 0..MAX_JSON_DEPTH /\ ~FitsExpand(T, k)
    BY <2>1, DepthAssumption
  <2>3. k # 0 => k - 1 \in Nat /\ k - 1 <= MAX_JSON_DEPTH /\ ~(k <= k - 1)
    BY <2>1, <2>2, DepthAssumption
  <2>4. k # 0 => FitsExpand(T, k - 1)
    BY <2>1, <2>3
  <2> HIDE DEF T, B
  <2>5. OfNodes(T)
    BY DEF T
  <2>6. QED
    BY <2>2, <2>4, <2>5, MoreFitsExpand
<1>2. FitsExpand(T, MAX_JSON_DEPTH) /\ MAX_JSON_DEPTH \in 0..MAX_JSON_DEPTH
  BY <1>1, DepthAssumption
<1>3. Claimed(p) = Full(T, MAX_JSON_DEPTH, Plain(p.payload))
  BY <1>2, ExpandsByLevel DEF Claimed, Expanded
<1>4. QED
  BY <1>2, <1>3 DEF FitsExpand

-----------------------------------------------------------------------------
(* The mandates that a holder can show, as the recursion has them.            *)

LEMMA TableHas ==
  ASSUME NEW ds, NEW d \in DOMAIN TableOf(ds)
  PROVE  \E i \in DOMAIN ds : ds[i].digest = d /\ TableOf(ds)[d] = ds[i]
<1>1. d \in {ds[i].digest : i \in DOMAIN ds}
  BY DEF TableOf
<1> DEFINE c == CHOOSE i \in DOMAIN ds : ds[i].digest = d
<1>2. c \in DOMAIN ds /\ ds[c].digest = d
  BY <1>1
<1>3. TableOf(ds)[d] = ds[c]
  BY <1>1 DEF TableOf
<1> HIDE DEF c
<1>4. QED
  BY <1>2, <1>3

LEMMA TableSays ==
  ASSUME NEW ds, \A i, j \in DOMAIN ds : ds[i].digest = ds[j].digest => i = j,
         NEW i \in DOMAIN ds
  PROVE  ds[i].digest \in DOMAIN TableOf(ds) /\ TableOf(ds)[ds[i].digest] = ds[i]
<1>1. ds[i].digest \in DOMAIN TableOf(ds)
  BY DEF TableOf
<1>2. PICK j \in DOMAIN ds : /\ ds[j].digest = ds[i].digest
                            /\ TableOf(ds)[ds[i].digest] = ds[j]
  BY <1>1, TableHas
<1>3. QED
  BY <1>1, <1>2

\* What is shown of the disclosures of a resolved token agrees with it.
LEMMA ShownAgrees ==
  ASSUME TraceInv, RetoldInv, phase = "resolved", NEW z \in SUBSET DOMAIN token.disclosures
  PROVE  LET T == TableOf(Restrict(token.disclosures, z))
         IN Agreeing(T, by_digest) /\ OfNodes(T)
<1> DEFINE D == token.disclosures
           ds == Restrict(D, z)
           T == TableOf(ds)
<1>1. DOMAIN ds = z /\ \A i \in z : ds[i] = D[i] /\ i \in DOMAIN D
  BY DEF Restrict
<1>2. /\ by_digest = TableOf(D)
      /\ \A i \in DOMAIN D : D[i].form # "malformed"
      /\ \A i, j \in DOMAIN D : D[i].digest = D[j].digest => i = j
  BY DEF RetoldInv, Indexed
<1>3. OfNodes(by_digest)
  BY DisclosedAreNodes DEF OfNodes, TraceInv
<1> HIDE DEF D, ds
<1>4. ASSUME NEW d \in DOMAIN T
      PROVE  d \in DOMAIN by_digest /\ T[d] = by_digest[d]
  <2>1. PICK i \in DOMAIN ds : ds[i].digest = d /\ T[d] = ds[i]
    BY TableHas
  <2>2. i \in DOMAIN D /\ D[i].digest = d /\ T[d] = D[i]
    BY <1>1, <2>1
  <2>3. D[i].digest \in DOMAIN TableOf(D) /\ TableOf(D)[D[i].digest] = D[i]
    BY <1>2, <2>2, TableSays
  <2>4. QED
    BY <1>2, <2>2, <2>3
<1> HIDE DEF T
<1>5. Agreeing(T, by_digest) /\ OfNodes(T)
  BY <1>3, <1>4 DEF Agreeing, OfNodes
<1>6. QED
  BY <1>5 DEF T, ds, D

\* A mandate that the holder can show is read with disclosures that agree.
LEMMA MandatesAreRead ==
  ASSUME TraceInv, RetoldInv, phase = "resolved", NEW m \in Mandates(token)
  PROVE  \E T : Agreeing(T, by_digest) /\ ReadAs(T, m)
<1> DEFINE shown(s) == Presenting(token, Restrict(token.disclosures, s))
           content(s) == SdkContent(Claimed(shown(s)).value)
<1>1. PICK s \in SUBSET DOMAIN token.disclosures :
        Resolvable(shown(s)) /\ IsMandate(content(s)) /\ m = content(s)
  BY DEF Mandates
<1> DEFINE p == shown(s)
           T == TableOf(Restrict(token.disclosures, s))
           w == Claimed(p).value
<1>2. /\ p.payload = token.payload
      /\ p.disclosures = Restrict(token.disclosures, s)
  BY DEF Presenting
<1>3. Agreeing(T, by_digest) /\ OfNodes(T)
  BY ShownAgrees
<1>4. token.payload \in Nodes
  BY NodesAssumption DEF TraceInv, Tabled
<1>5. Claimed(p).fits
  BY <1>1 DEF Resolvable
<1> HIDE DEF p
<1>6. Expands(T, token.payload, w)
  BY <1>2, <1>3, <1>4, <1>5, ClaimedExpands
<1>7. m = SdkContent(w) /\ IsMandate(m)
  BY <1>1 DEF p
<1> HIDE DEF w, T
<1>8. ReadAs(T, m)
  BY <1>6, <1>7 DEF ReadAs
<1>9. QED
  BY <1>3, <1>8

\* A record whose reference is plain stays one, in every mandate that the holder can
\* show of it, whatever the token, its disclosures and its depth (_ref_is_plain).
THEOREM PlainReferencesAreKept == Spec => []HolderKeepsTheReference
<1>1. TraceInv /\ RetoldInv /\ RecordsStayRecords => HolderKeepsTheReference
  <2> SUFFICES ASSUME TraceInv, RetoldInv, RecordsStayRecords, Readable, IsRecord(Returned),
                      Reference(token, Returned) = "plain", NEW m \in Mandates(token)
               PROVE  \E i \in DOMAIN ConstraintsOf(m) : ConstraintsOf(m)[i] = TheRef(Returned)
    BY DEF HolderKeepsTheReference
  <2>1. phase = "resolved"
    BY DEF Readable
  <2>2. PICK T : Agreeing(T, by_digest) /\ ReadAs(T, m)
    BY <2>1, MandatesAreRead
  <2>3. QED
    BY <2>2 DEF RecordsStayRecords
<1>2. QED
  BY <1>1, AlwaysTraced, AlwaysRetold, PlainReferencesStay, PTL

-----------------------------------------------------------------------------
(* A part, through and through, is one layer by layer.                        *)

LEMMA LayersExist ==
  ASSUME NEW v, NEW N \in Nat
  PROVE  \E f : f = [l \in 0..N |-> IF l = 0 THEN {v} ELSE Inside(f[l - 1])]
<1> DEFINE Good(n, f) ==
             f = [l \in 0..n |-> IF l = 0 THEN {v} ELSE Inside(f[l - 1])]
           B == {n \in Nat : ~\E f : Good(n, f)}
<1> SUFFICES ASSUME B # {} PROVE FALSE
  OBVIOUS
<1>1. PICK n \in B : \A k \in B : n <= k
  <2> HIDE DEF Good
  <2>1. B \in SUBSET Nat
    OBVIOUS
  <2> HIDE DEF B
  <2>2. QED
    BY <2>1, LeastNumber
<1>2. n # 0
  <2>1. Good(0, [l \in 0..0 |-> {v}])
    OBVIOUS
  <2>2. QED
    BY <1>1, <2>1
<1>3. PICK f : Good(n - 1, f)
  <2> HIDE DEF Good
  <2>1. n - 1 \in Nat /\ ~(n <= n - 1)
    BY <1>1, <1>2
  <2>2. QED
    BY <1>1, <2>1
<1> DEFINE below(F, l) == Inside(F[l - 1])
           g == [l \in 0..n |-> IF l = n THEN below(f, n) ELSE f[l]]
<1>4. Good(n, g)
  <2>0. f = [l \in 0..(n - 1) |-> IF l = 0 THEN {v} ELSE below(f, l)]
    BY <1>3
  <2>1. ASSUME NEW l \in 0..n PROVE g[l] = IF l = 0 THEN {v} ELSE below(g, l)
    <3>1. CASE l = n
      <4>1. g[l] = below(f, l)
        BY <1>1, <1>2, <3>1
      <4>2. g[l - 1] = f[l - 1]
        BY <1>1, <1>2, <3>1
      <4>3. QED
        BY <1>2, <3>1, <4>1, <4>2
    <3>2. CASE l # n
      <4>1. g[l] = f[l] /\ l \in 0..(n - 1)
        BY <1>1, <1>2, <3>2
      <4>2. l # 0 => g[l - 1] = f[l - 1]
        BY <1>1, <1>2, <3>2
      <4>3. f[l] = IF l = 0 THEN {v} ELSE below(f, l)
        BY <2>0, <4>1
      <4>4. QED
        BY <4>1, <4>2, <4>3
    <3>3. QED
      BY <3>1, <3>2
  <2>2. g = [l \in 0..n |-> g[l]]
    OBVIOUS
  <2> HIDE DEF g
  <2>3. QED
    BY <2>1, <2>2
<1>5. QED
  <2> HIDE DEF Good, g
  <2>1. QED
    BY <1>1, <1>4

\* What stands a layer deeper.
LEMMA LayersByDepth ==
  ASSUME NEW v
  PROVE  /\ v \in Layers(v)[0]
         /\ \A l \in 1..MAX_JSON_DEPTH : \A x \in Layers(v)[l - 1] : \A y \in Children(x) :
              y \in Layers(v)[l]
<1> DEFINE N == MAX_JSON_DEPTH
           Is(f) == f = [l \in 0..N |-> IF l = 0 THEN {v} ELSE Inside(f[l - 1])]
           G == CHOOSE f : Is(f)
<1>1. Layers(v) = G
  BY DEF Layers
<1>2. Is(G)
  <2>1. \E f : Is(f)
    BY LayersExist, DepthAssumption
  <2> HIDE DEF Is
  <2>2. QED
    BY <2>1
<1> HIDE DEF G
<1>3. v \in G[0]
  BY <1>2, DepthAssumption
<1>4. ASSUME NEW l \in 1..N PROVE G[l] = Inside(G[l - 1])
  <2>1. l \in 0..N /\ l # 0
    BY DepthAssumption
  <2>2. QED
    BY <1>2, <2>1
<1>5. ASSUME NEW l \in 1..N, NEW x \in G[l - 1], NEW y \in Children(x) PROVE y \in G[l]
  <2>1. y \in Inside(G[l - 1])
    BY DEF Inside
  <2>2. QED
    BY <1>4, <2>1
<1>6. QED
  BY <1>1, <1>3, <1>5

LEMMA PruningsExist ==
  ASSUME NEW a, NEW b, NEW N \in Nat
  PROVE  \E f : f = [k \in 0..N |-> Pruned(a, b, k, IF k = 0 THEN {} ELSE f[k - 1])]
<1> DEFINE Good(n, f) == f = [k \in 0..n |-> Pruned(a, b, k, IF k = 0 THEN {} ELSE f[k - 1])]
           B == {n \in Nat : ~\E f : Good(n, f)}
<1> SUFFICES ASSUME B # {} PROVE FALSE
  OBVIOUS
<1>1. PICK n \in B : \A k \in B : n <= k
  <2> HIDE DEF Good
  <2>1. B \in SUBSET Nat
    OBVIOUS
  <2> HIDE DEF B
  <2>2. QED
    BY <2>1, LeastNumber
<1>2. n # 0
  <2>1. Good(0, [k \in 0..0 |-> Pruned(a, b, 0, {})])
    OBVIOUS
  <2>2. QED
    BY <1>1, <2>1
<1>3. PICK f : Good(n - 1, f)
  <2> HIDE DEF Good
  <2>1. n - 1 \in Nat /\ ~(n <= n - 1)
    BY <1>1, <1>2
  <2>2. QED
    BY <1>1, <2>1
<1> DEFINE g == [k \in 0..n |-> IF k = n THEN Pruned(a, b, n, f[n - 1]) ELSE f[k]]
<1>4. Good(n, g)
  <2>1. ASSUME NEW k \in 0..n PROVE g[k] = Pruned(a, b, k, IF k = 0 THEN {} ELSE g[k - 1])
    <3>1. CASE k = n
      <4>1. g[k] = Pruned(a, b, k, IF k = 0 THEN {} ELSE f[k - 1])
        BY <1>1, <1>2, <3>1
      <4>2. g[k - 1] = f[k - 1]
        BY <1>1, <1>2, <3>1
      <4>3. QED
        BY <1>2, <3>1, <4>1, <4>2
    <3>2. CASE k # n
      <4>1. g[k] = f[k] /\ k \in 0..(n - 1)
        BY <1>1, <1>2, <3>2
      <4>2. f[k] = Pruned(a, b, k, IF k = 0 THEN {} ELSE f[k - 1])
        BY <1>3, <4>1
      <4>3. k # 0 => g[k - 1] = f[k - 1]
        BY <1>1, <1>2, <3>2
      <4>4. QED
        BY <4>1, <4>2, <4>3
    <3>3. QED
      BY <3>1, <3>2
  <2>2. g = [k \in 0..n |-> g[k]]
    OBVIOUS
  <2> HIDE DEF g
  <2>3. QED
    BY <2>1, <2>2
<1>5. QED
  <2> HIDE DEF Good, g
  <2>1. QED
    BY <1>1, <1>4

\* A layer more.
LEMMA PruningsByLayer ==
  ASSUME NEW a, NEW b, NEW k \in 0..MAX_JSON_DEPTH
  PROVE  Prunings(a, b)[k] = Pruned(a, b, k, IF k = 0 THEN {} ELSE Prunings(a, b)[k - 1])
<1> DEFINE G == CHOOSE f : f = [l \in 0..MAX_JSON_DEPTH |-> Pruned(a, b, l, IF l = 0 THEN {} ELSE f[l - 1])]
<1>1. Prunings(a, b) = G
  BY DEF Prunings
<1>2. G = [l \in 0..MAX_JSON_DEPTH |-> Pruned(a, b, l, IF l = 0 THEN {} ELSE G[l - 1])]
  BY PruningsExist, DepthAssumption
<1> HIDE DEF G
<1>3. QED
  BY <1>1, <1>2

\* What is a part of another through and through, is one layer by layer.
LEMMA PartsPrune ==
  ASSUME NEW a, NEW b, PartOf(a, b)
  PROVE  Prunes(a, b)
<1>1. PICK R : <<a, b>> \in R /\ \A r \in R : r = <<r[1], r[2]>> /\ PartIn(r[1], r[2], R)
  BY DEF PartOf
<1> DEFINE A(k) == Layers(a)[MAX_JSON_DEPTH - k]
           C(k) == Layers(b)[MAX_JSON_DEPTH - k]
           P(k) == Prunings(a, b)[k]
           Good(k) == \A x \in A(k), y \in C(k) : <<x, y>> \in R => <<x, y>> \in P(k)
           B == {k \in Nat : k <= MAX_JSON_DEPTH /\ ~Good(k)}
<1>2. B = {}
  <2> SUFFICES ASSUME B # {} PROVE FALSE
    OBVIOUS
  <2>1. PICK k \in B : \A l \in B : k <= l
    <3> HIDE DEF Good
    <3>1. B \in SUBSET Nat
      OBVIOUS
    <3> HIDE DEF B
    <3>2. QED
      BY <3>1, LeastNumber
  <2>2. /\ k \in 0..MAX_JSON_DEPTH /\ ~Good(k)
        /\ k > 0 => /\ k - 1 \in Nat /\ k - 1 <= MAX_JSON_DEPTH /\ ~(k <= k - 1)
                    /\ MAX_JSON_DEPTH - (k - 1) \in 1..MAX_JSON_DEPTH
                    /\ (MAX_JSON_DEPTH - (k - 1)) - 1 = MAX_JSON_DEPTH - k
    <3> HIDE DEF Good
    <3>1. QED
      BY <2>1, DepthAssumption
  <2>3. k > 0 => Good(k - 1)
    <3> HIDE DEF Good
    <3>1. QED
      BY <2>1, <2>2
  <2> HIDE DEF B
  <2>4. PICK x \in A(k), y \in C(k) : <<x, y>> \in R /\ <<x, y>> \notin P(k)
    BY <2>2
  <2>5. PartIn(x, y, R)
    <3> DEFINE r == <<x, y>>
    <3>1. r \in R /\ r[1] = x /\ r[2] = y
      BY <2>4
    <3> HIDE DEF r
    <3>2. QED
      BY <1>1, <3>1
  <2>6. ASSUME k > 0, NEW u \in Children(x), NEW w \in Children(y), <<u, w>> \in R
        PROVE  <<u, w>> \in P(k - 1)
    <3>1. u \in A(k - 1)
      BY <2>2, <2>6, LayersByDepth
    <3>2. w \in C(k - 1)
      BY <2>2, <2>6, LayersByDepth
    <3>3. QED
      BY <2>3, <2>6, <3>1, <3>2
  <2> DEFINE below == IF k = 0 THEN {} ELSE Prunings(a, b)[k - 1]
  <2>7. P(k) = Pruned(a, b, k, below)
    BY <2>2, PruningsByLayer
  <2>8. k > 0 => below = P(k - 1)
    BY <2>2
  <2> HIDE DEF below, P, A, C
  <2>9. \/ x = y
        \/ /\ x.t = "object" /\ y.t = "object"
           /\ \A z \in DOMAIN x.members :
                /\ z \in DOMAIN y.members
                /\ k > 0 => <<x.members[z], y.members[z]>> \in below
        \/ /\ x.t = "list" /\ y.t = "list"
           /\ \E at \in [1..Len(x.items) -> 1..Len(y.items)] :
                /\ \A i, j \in 1..Len(x.items) : i < j => at[i] < at[j]
                /\ k > 0 => \A i \in 1..Len(x.items) :
                              <<x.items[i], y.items[at[i]]>> \in below
    <3>1. CASE x = y
      BY <3>1
    <3>2. CASE /\ x.t = "object" /\ y.t = "object"
               /\ \A z \in DOMAIN x.members :
                    z \in DOMAIN y.members /\ <<x.members[z], y.members[z]>> \in R
      <4>1. ASSUME k > 0, NEW z \in DOMAIN x.members
            PROVE  <<x.members[z], y.members[z]>> \in below
        <5>1. x.members[z] \in Children(x) /\ y.members[z] \in Children(y)
          BY <3>2 DEF Children
        <5>2. QED
          BY <2>6, <2>8, <3>2, <4>1, <5>1
      <4>2. QED
        BY <3>2, <4>1
    <3>3. CASE /\ x.t = "list" /\ y.t = "list"
               /\ \E at \in [1..Len(x.items) -> 1..Len(y.items)] :
                    /\ \A i, j \in 1..Len(x.items) : i < j => at[i] < at[j]
                    /\ \A i \in 1..Len(x.items) : <<x.items[i], y.items[at[i]]>> \in R
      <4>1. PICK at \in [1..Len(x.items) -> 1..Len(y.items)] :
              /\ \A i, j \in 1..Len(x.items) : i < j => at[i] < at[j]
              /\ \A i \in 1..Len(x.items) : <<x.items[i], y.items[at[i]]>> \in R
        BY <3>3
      <4>2. ASSUME k > 0, NEW i \in 1..Len(x.items)
            PROVE  <<x.items[i], y.items[at[i]]>> \in below
        <5>1. x.items[i] \in Children(x)
          BY <3>3 DEF Children
        <5>2. y.items[at[i]] \in Children(y)
          <6>1. at[i] \in 1..Len(y.items) /\ y.t # "object"
            BY <3>3
          <6>2. QED
            BY <3>3, <6>1 DEF Children
        <5>3. QED
          BY <2>6, <2>8, <4>1, <4>2, <5>1, <5>2
      <4>3. QED
        BY <3>3, <4>1, <4>2
    <3>4. QED
      BY <2>5, <3>1, <3>2, <3>3 DEF PartIn
  <2>10. <<x, y>> \in Pruned(a, b, k, below)
    <3> DEFINE q == <<x, y>>
    <3>1. q[1] = x /\ q[2] = y /\ q \in A(k) \X C(k)
      OBVIOUS
    <3> HIDE DEF q
    <3>2. q \in Pruned(a, b, k, below)
      BY <2>9, <3>1 DEF Pruned, A, C
    <3>3. QED
      BY <3>2 DEF q
  <2>11. QED
    BY <2>4, <2>7, <2>10
<1>3. Good(MAX_JSON_DEPTH)
  <2> HIDE DEF Good
  <2>1. QED
    BY <1>2, DepthAssumption
<1>4. a \in A(MAX_JSON_DEPTH) /\ b \in C(MAX_JSON_DEPTH)
  <2>1. MAX_JSON_DEPTH - MAX_JSON_DEPTH = 0
    BY DepthAssumption
  <2>2. QED
    BY <2>1, LayersByDepth
<1>5. QED
  BY <1>1, <1>3, <1>4 DEF Prunes

\* Whatever the holder shows of an original that is compared at all, a verifier of the
\* SDK reads a part of the content that is compared, in any token (_record_refs and
\* _mandate_form of section 11.3).
THEOREM OriginalsHaveOneSetOfTerms == Spec => []OneSetOfTerms
<1>1. TraceInv /\ RetoldInv /\ OneReading => OneSetOfTerms
  <2> SUFFICES ASSUME TraceInv, RetoldInv, OneReading, Readable, ~DpDisclosed(token),
                      NEW m \in Mandates(token)
               PROVE  Prunes(m, MandateForm(Returned).content)
    BY DEF OneSetOfTerms
  <2>1. phase = "resolved"
    BY DEF Readable
  <2>2. PICK T : Agreeing(T, by_digest) /\ ReadAs(T, m)
    BY <2>1, MandatesAreRead
  <2>3. PartOf(m, MandateForm(Returned).content)
    BY <2>2 DEF OneReading
  <2>4. QED
    BY <2>3, PartsPrune
<1>2. QED
  BY <1>1, AlwaysTraced, AlwaysRetold, OriginalsHaveOneReading, PTL

\* Whatever of the issuer's disclosures a token is presented with, it resolves to a part
\* of the claims that the issuer signed, at every depth.
THEOREM PartOfTheSigned == Spec => []WithholdingOnlyWithholds
<1>1. TraceInv /\ RetoldInv /\ Withholds => WithholdingOnlyWithholds
  <2> DEFINE D == token.disclosures
             S == token.issued
             whole == Presenting(token, S)
             U == TableOf(S)
  <2> SUFFICES ASSUME TraceInv, RetoldInv, Withholds, phase = "resolved",
                      ToSet(D) \subseteq ToSet(S), Resolvable(whole)
               PROVE  Prunes(Returned, Claimed(whole).value)
    BY DEF WithholdingOnlyWithholds
  <2>1. token \in Presentations /\ token.payload \in Nodes
    BY NodesAssumption DEF TraceInv, Tabled
  <2>2. by_digest = TableOf(D)
    BY DEF RetoldInv, Indexed
  <2>3. whole.disclosures = S /\ whole.payload = token.payload
    BY DEF Presenting
  <2> HIDE DEF whole
  <2>4. /\ \A i \in DOMAIN S : S[i].form # "malformed"
        /\ \A i, j \in DOMAIN S : S[i].digest = S[j].digest => i = j
        /\ Claimed(whole).fits
    BY <2>3 DEF Resolvable
  <2>5. \A i \in DOMAIN S : S[i].value \in Nodes
    BY <2>1, <2>4, IssuedAssumption
  <2>6. OfNodes(U)
    <3> SUFFICES ASSUME NEW d \in DOMAIN U PROVE U[d].value \in Nodes
      BY DEF OfNodes
    <3>1. PICK i \in DOMAIN S : U[d] = S[i]
      BY TableHas
    <3>2. QED
      BY <2>5, <3>1
  <2>7. Extends(by_digest, U)
    <3> SUFFICES ASSUME NEW d \in DOMAIN by_digest PROVE d \in DOMAIN U /\ by_digest[d] = U[d]
      BY DEF Extends
    <3>1. PICK i \in DOMAIN D : D[i].digest = d /\ by_digest[d] = D[i]
      BY <2>2, TableHas
    <3>2. PICK j \in DOMAIN S : S[j] = D[i]
      BY <3>1 DEF ToSet
    <3>3. S[j].digest \in DOMAIN U /\ U[S[j].digest] = S[j]
      BY <2>4, TableSays
    <3>4. QED
      BY <3>1, <3>2, <3>3
  <2> DEFINE w == Claimed(whole).value
  <2>8. Expands(U, token.payload, w)
    BY <2>1, <2>3, <2>4, <2>6, ClaimedExpands
  <2> HIDE DEF w, U
  <2>9. PartOf(Returned, w)
    BY <2>7, <2>8 DEF Withholds
  <2>10. Prunes(Returned, w)
    BY <2>9, PartsPrune
  <2>11. QED
    BY <2>10 DEF w
<1>2. QED
  BY <1>1, AlwaysTraced, AlwaysRetold, OnlyWithholds, PTL

-----------------------------------------------------------------------------
(* The recursions over levels of modules Elara and Merkle, by name: what     *)
(* each begins with, and its step from a level to the next.                  *)

First(kind, x) ==
  CASE kind = "fold" -> SmtLeaf(x.path, x.value)
    [] kind = "tree" -> [prefix \in [1..Depth -> {0, 1}] |-> HashOf(x, 0, prefix, <<>>)]
    [] kind = "seal" -> x.leaves
    [] kind = "join" -> x.leaf
    [] kind = "power" -> 1

Step(kind, x, m, last) ==
  CASE kind = "fold" ->
         Lift(x.path, Depth - m, last, SiblingAt(x.present, x.siblings, Depth - m))
    [] kind = "tree" ->
         [prefix \in [1..(Depth - m) -> {0, 1}] |-> HashOf(x, m, prefix, last)]
    [] kind = "seal" -> SealLevel(x.tag, last)
    [] kind = "join" -> Combine(x.tag, last, x.siblings[m])
    [] kind = "power" -> 2 * last

Rises(kind, x, N, f) ==
  f = [m \in 0..N |-> IF m = 0 THEN First(kind, x) ELSE Step(kind, x, m, f[m - 1])]

\* Each has values at all levels.
LEMMA RecursionExists ==
  ASSUME NEW kind, NEW x, NEW N \in Nat
  PROVE  \E f : Rises(kind, x, N, f)
<1> DEFINE B == {l \in Nat : ~\E f : Rises(kind, x, l, f)}
<1> SUFFICES ASSUME B # {} PROVE FALSE
  OBVIOUS
<1>1. PICK l \in B : \A k \in B : l <= k
  <2>1. B \in SUBSET Nat
    OBVIOUS
  <2> HIDE DEF B
  <2>2. QED
    BY <2>1, LeastNumber
<1>2. l # 0
  <2>1. Rises(kind, x, 0, [m \in 0..0 |-> First(kind, x)])
    BY DEF Rises
  <2>2. QED
    BY <1>1, <2>1
<1>3. PICK f : Rises(kind, x, l - 1, f)
  <2>1. l - 1 \in Nat /\ ~(l <= l - 1)
    BY <1>1, <1>2
  <2>2. QED
    BY <1>1, <2>1
<1> DEFINE g == [m \in 0..l |-> IF m = l THEN Step(kind, x, l, f[l - 1]) ELSE f[m]]
<1>4. Rises(kind, x, l, g)
  <2>1. ASSUME NEW m \in 0..l
        PROVE  g[m] = IF m = 0 THEN First(kind, x) ELSE Step(kind, x, m, g[m - 1])
    <3>1. CASE m = l
      <4>1. g[m] = Step(kind, x, m, f[m - 1])
        BY <1>1, <1>2, <3>1
      <4>2. g[m - 1] = f[m - 1]
        BY <1>1, <1>2, <3>1
      <4>3. QED
        BY <1>2, <3>1, <4>1, <4>2
    <3>2. CASE m # l
      <4>1. g[m] = f[m] /\ m \in 0..(l - 1)
        BY <1>1, <1>2, <3>2
      <4>2. m # 0 => g[m - 1] = f[m - 1]
        BY <1>1, <1>2, <3>2
      <4>3. f[m] = IF m = 0 THEN First(kind, x) ELSE Step(kind, x, m, f[m - 1])
        BY <1>3, <4>1 DEF Rises
      <4>4. QED
        BY <4>1, <4>2, <4>3
    <3>3. QED
      BY <3>1, <3>2
  <2>2. g = [m \in 0..l |-> g[m]]
    OBVIOUS
  <2> HIDE DEF g
  <2>3. QED
    BY <2>1, <2>2 DEF Rises
<1>5. QED
  <2> HIDE DEF g
  <2>1. QED
    BY <1>1, <1>4

\* It has one value at each: more levels change nothing of those below.
LEMMA RisesAgree ==
  ASSUME NEW kind, NEW x, NEW N \in Nat, NEW M \in Nat, NEW F, NEW G,
         Rises(kind, x, N, F), Rises(kind, x, M, G), NEW m \in 0..N, m <= M
  PROVE  F[m] = G[m]
<1> DEFINE B == {l \in 0..N : l <= M /\ F[l] # G[l]}
<1>1. F[0] = First(kind, x) /\ \A l \in 1..N : F[l] = Step(kind, x, l, F[l - 1])
  BY DEF Rises
<1>2. G[0] = First(kind, x) /\ \A l \in 1..M : G[l] = Step(kind, x, l, G[l - 1])
  BY DEF Rises
<1>3. ASSUME B # {} PROVE FALSE
  <2>1. PICK l \in B : \A k \in B : l <= k
    <3>1. B \in SUBSET Nat
      OBVIOUS
    <3> HIDE DEF B
    <3>2. QED
      BY <1>3, <3>1, LeastNumber
  <2>2. l # 0
    BY <1>1, <1>2, <2>1
  <2>3. l - 1 \notin B
    BY <2>1
  <2>4. F[l - 1] = G[l - 1] /\ l \in 1..N /\ l \in 1..M
    BY <2>1, <2>2, <2>3
  <2>5. F[l] = G[l]
    BY <1>1, <1>2, <2>4
  <2>6. QED
    BY <2>1, <2>5
<1>4. QED
  BY <1>3

-----------------------------------------------------------------------------
(* Powers of two.                                                           *)

Power(k) == Powers(k)[k]

LEMMA PowersRise ==
  ASSUME NEW n \in Nat
  PROVE  Rises("power", <<>>, n, Powers(n))
<1> DEFINE Is(f) == f = [k \in 0..n |-> IF k = 0 THEN 1 ELSE 2 * f[k - 1]]
           G == CHOOSE f : Is(f)
<1>1. Powers(n) = G
  BY DEF Powers
<1>2. PICK f : Rises("power", <<>>, n, f)
  BY RecursionExists
<1>3. Is(f)
  BY <1>2 DEF Rises, First, Step
<1>4. Is(G)
  <2> HIDE DEF Is
  <2>1. QED
    BY <1>3
<1> HIDE DEF G
<1>5. QED
  BY <1>1, <1>4 DEF Rises, First, Step

LEMMA PowerDoubles ==
  /\ Power(0) = 1
  /\ \A k \in Nat : Power(k + 1) = 2 * Power(k)
  /\ \A n \in Nat : \A k \in 0..n : Powers(n)[k] = Power(k)
<1>1. ASSUME NEW n \in Nat, NEW k \in 0..n PROVE Powers(n)[k] = Power(k)
  BY <1>1, PowersRise, RisesAgree DEF Power
<1>2. Power(0) = 1
  BY PowersRise DEF Power, Rises, First
<1>3. ASSUME NEW k \in Nat PROVE Power(k + 1) = 2 * Power(k)
  <2>1. Powers(k + 1)[k + 1] = Step("power", <<>>, k + 1, Powers(k + 1)[(k + 1) - 1])
    BY PowersRise DEF Rises
  <2>2. Powers(k + 1)[k + 1] = 2 * Powers(k + 1)[k]
    BY <2>1 DEF Step
  <2>3. Powers(k + 1)[k] = Power(k)
    BY <1>1
  <2>4. QED
    BY <2>2, <2>3 DEF Power
<1>4. QED
  BY <1>1, <1>2, <1>3

LEMMA PowersGrow ==
  \A k \in Nat : Power(k) \in Nat /\ Power(k) > k
<1> DEFINE B == {k \in Nat : ~(Power(k) \in Nat /\ Power(k) > k)}
<1> SUFFICES ASSUME B # {} PROVE FALSE
  OBVIOUS
<1>1. PICK k \in B : \A l \in B : k <= l
  <2>1. B \in SUBSET Nat
    OBVIOUS
  <2> HIDE DEF B
  <2>2. QED
    BY <2>1, LeastNumber
<1>2. k # 0
  BY <1>1, PowerDoubles
<1>3. k - 1 \in Nat /\ k - 1 \notin B
  BY <1>1, <1>2
<1>4. Power(k - 1) \in Nat /\ Power(k - 1) > k - 1
  BY <1>3
<1>5. Power(k) = 2 * Power(k - 1)
  <2>1. (k - 1) + 1 = k
    BY <1>1
  <2>2. QED
    BY <1>3, <2>1, PowerDoubles
<1>6. QED
  BY <1>1, <1>3, <1>4, <1>5

LEMMA PowersApart ==
  ASSUME NEW j \in Nat, NEW k \in Nat, j < k
  PROVE  2 * Power(j) <= Power(k)
<1> DEFINE B == {l \in Nat : j < l /\ ~(2 * Power(j) <= Power(l))}
<1> SUFFICES ASSUME B # {} PROVE FALSE
  OBVIOUS
<1>1. PICK l \in B : \A i \in B : l <= i
  <2>1. B \in SUBSET Nat
    OBVIOUS
  <2> HIDE DEF B
  <2>2. QED
    BY <2>1, LeastNumber
<1>2. l - 1 \in Nat /\ l - 1 \notin B
  BY <1>1
<1>3. Power(l) = 2 * Power(l - 1)
  <2>1. (l - 1) + 1 = l
    BY <1>1
  <2>2. QED
    BY <1>2, <2>1, PowerDoubles
<1>4. Power(j) \in Nat /\ Power(l - 1) \in Nat
  BY <1>2, PowersGrow
<1>5. CASE l - 1 = j
  BY <1>1, <1>3, <1>4, <1>5
<1>6. CASE l - 1 # j
  <2>1. 2 * Power(j) <= Power(l - 1)
    BY <1>1, <1>2, <1>6
  <2>2. QED
    BY <1>1, <1>3, <1>4, <2>1
<1>7. QED
  BY <1>5, <1>6

\* The power that a number of leaves is split at.
LEMMA HalfIs ==
  ASSUME NEW k \in Nat, NEW c \in Nat, Power(k) < c, c <= 2 * Power(k)
  PROVE  Half(c) = Power(k)
<1> DEFINE Between(p) == p < c /\ c <= 2 * p
           S == {Powers(c)[i] : i \in 0..c}
<1>1. k \in 0..c /\ Power(k) \in S /\ Between(Power(k))
  <2>1. Power(k) \in Nat /\ Power(k) > k
    BY PowersGrow
  <2>2. k \in 0..c
    BY <2>1
  <2>3. QED
    BY <2>2, PowerDoubles
<1>2. ASSUME NEW p \in S, Between(p) PROVE p = Power(k)
  <2>1. PICK i \in 0..c : p = Power(i)
    BY PowerDoubles
  <2>2. Power(i) \in Nat /\ Power(k) \in Nat
    BY PowersGrow
  <2>3. CASE i < k
    BY <1>2, <2>1, <2>2, <2>3, PowersApart
  <2>4. CASE k < i
    BY <1>2, <2>1, <2>2, <2>4, PowersApart
  <2>5. QED
    BY <2>1, <2>3, <2>4
<1>3. Half(c) = CHOOSE p \in S : Between(p)
  BY DEF Half
<1> HIDE DEF Between, S
<1>4. QED
  BY <1>1, <1>2, <1>3

LEMMA HalfBelow ==
  ASSUME NEW c \in Nat, c >= 2
  PROVE  Half(c) \in 1..(c - 1)
<1> DEFINE Split2(d) == \E k \in Nat : Power(k) < d /\ d <= 2 * Power(k)
           B == {d \in Nat : d >= 2 /\ ~Split2(d)}
<1>1. ASSUME B # {} PROVE FALSE
  <2>1. PICK d \in B : \A i \in B : d <= i
    <3>1. B \in SUBSET Nat
      OBVIOUS
    <3> HIDE DEF B
    <3>2. QED
      BY <1>1, <3>1, LeastNumber
  <2>2. d # 2
    <3>1. Power(0) < 2 /\ 2 <= 2 * Power(0) /\ 0 \in Nat
      BY PowerDoubles
    <3>2. Split2(2)
      BY <3>1
    <3> HIDE DEF Split2
    <3>3. QED
      BY <2>1, <3>2
  <2>3. d - 1 \in Nat /\ d - 1 >= 2 /\ d - 1 \notin B
    BY <2>1, <2>2
  <2>4. PICK k \in Nat : Power(k) < d - 1 /\ d - 1 <= 2 * Power(k)
    BY <2>3
  <2>5. Power(k) \in Nat /\ Power(k) > k /\ Power(k + 1) = 2 * Power(k)
    BY PowersGrow, PowerDoubles
  <2>6. Split2(d)
    <3>1. CASE d <= 2 * Power(k)
      BY <2>1, <2>3, <2>4, <2>5, <3>1
    <3>2. CASE ~(d <= 2 * Power(k))
      <4>1. Power(k + 1) < d /\ d <= 2 * Power(k + 1) /\ k + 1 \in Nat
        BY <2>1, <2>4, <2>5, <3>2
      <4>2. QED
        BY <4>1
    <3>3. QED
      BY <3>1, <3>2
  <2> HIDE DEF Split2
  <2>7. QED
    BY <2>1, <2>6
<1>2. PICK k \in Nat : Power(k) < c /\ c <= 2 * Power(k)
  BY <1>1
<1>3. Half(c) = Power(k) /\ Power(k) \in Nat /\ Power(k) > k
  BY <1>2, HalfIs, PowersGrow
<1>4. QED
  BY <1>2, <1>3

-----------------------------------------------------------------------------
(* Depths, the deepest first.                                               *)

\* The place of a depth among others.
LEMMA PlacesDiffer ==
  ASSUME NEW ds, IsFiniteSet(ds), \A d \in ds : d \in Nat, NEW d \in ds
  PROVE  /\ Place(ds, d) \in 1..Cardinality(ds)
         /\ \A e \in ds : e > d => Place(ds, e) < Place(ds, d)
<1> DEFINE Up(x) == {e \in ds : e >= x}
<1>1. /\ Cardinality(ds) \in Nat
      /\ \A x : /\ IsFiniteSet(Up(x)) /\ Cardinality(Up(x)) \in Nat
                /\ Cardinality(Up(x)) <= Cardinality(ds)
  <2>1. ASSUME NEW x
        PROVE  /\ IsFiniteSet(Up(x)) /\ Cardinality(Up(x)) \in Nat
               /\ Cardinality(Up(x)) <= Cardinality(ds)
    <3>1. Up(x) \in SUBSET ds
      OBVIOUS
    <3> HIDE DEF Up
    <3>2. QED
      BY <3>1, FS_Subset, FS_CardinalityType
  <2>2. QED
    BY <2>1, FS_CardinalityType
<1>2. Cardinality(Up(d)) # 0
  <2>1. d \in Up(d)
    OBVIOUS
  <2> HIDE DEF Up
  <2>2. QED
    BY <1>1, <2>1, FS_EmptySet
<1>3. ASSUME NEW e \in ds, e > d PROVE Cardinality(Up(e)) < Cardinality(Up(d))
  <2>1. Up(e) \in SUBSET Up(d) /\ d \in Up(d) /\ d \notin Up(e)
    BY <1>3
  <2> HIDE DEF Up
  <2>2. Up(e) # Up(d)
    BY <2>1
  <2>3. Cardinality(Up(e)) <= Cardinality(Up(d)) /\ Cardinality(Up(e)) # Cardinality(Up(d))
    BY <1>1, <2>1, <2>2, FS_Subset
  <2>4. QED
    BY <1>1, <2>3
<1>4. \A x : Place(ds, x) = Cardinality(Up(x))
  BY DEF Place
<1> HIDE DEF Up
<1>5. QED
  BY <1>1, <1>2, <1>3, <1>4

\* There is an order of them: each is where its place is.
LEMMA DeepestHas ==
  ASSUME NEW ds, IsFiniteSet(ds), \A d \in ds : d \in Nat
  PROVE  /\ Deepest(ds) \in [1..Cardinality(ds) -> ds]
         /\ \A d \in ds : Place(ds, d) \in 1..Cardinality(ds) /\ Deepest(ds)[Place(ds, d)] = d
<1> DEFINE K == Cardinality(ds)
           Falls(s) == \A i, j \in DOMAIN s : i < j => s[i] > s[j]
           at == [d \in ds |-> Place(ds, d)]
<1>1. K \in Nat /\ IsFiniteSet(1..K) /\ Cardinality(1..K) = K
  <2>1. K \in Nat
    BY FS_CardinalityType
  <2> HIDE DEF K
  <2>2. QED
    BY <2>1, FS_Interval
<1>2. at \in [ds -> 1..K] /\ \A d, e \in ds : e > d => at[e] < at[d]
  BY PlacesDiffer
<1> HIDE DEF at
<1>3. at \in Injection(ds, 1..K)
  <2>1. ASSUME NEW d \in ds, NEW e \in ds, at[d] = at[e] PROVE d = e
    <3>1. d \in Nat /\ e \in Nat /\ at[d] \in 1..K
      BY <1>2
    <3>2. ~(e > d) /\ ~(d > e)
      BY <1>1, <1>2, <2>1, <3>1
    <3>3. QED
      BY <3>1, <3>2
  <2>2. QED
    BY <1>2, <2>1 DEF Injection, IsInjective
<1>4. at \in Surjection(ds, 1..K)
  <2> HIDE DEF Falls
  <2>1. QED
    BY <1>1, <1>3, FS_Injection
<1>5. \A k \in 1..K : \E d \in ds : at[d] = k
  BY <1>4 DEF Surjection
<1>6. \E s \in [1..K -> ds] : Falls(s)
  <2> DEFINE s == [k \in 1..K |-> CHOOSE d \in ds : at[d] = k]
  <2>1. s \in [1..K -> ds] /\ \A k \in 1..K : s[k] \in ds /\ at[s[k]] = k
    BY <1>5
  <2> HIDE DEF s
  <2>2. ASSUME NEW i \in 1..K, NEW j \in 1..K, i < j PROVE s[i] > s[j]
    <3>1. s[i] \in ds /\ s[j] \in ds /\ at[s[i]] = i /\ at[s[j]] = j
      BY <2>1
    <3>2. s[i] # s[j] /\ ~(s[j] > s[i])
      BY <1>1, <1>2, <2>2, <3>1
    <3>3. QED
      BY <3>1, <3>2
  <2>3. Falls(s)
    BY <2>1, <2>2
  <2> HIDE DEF Falls
  <2>4. QED
    BY <2>1, <2>3
<1> DEFINE S == Deepest(ds)
<1>7. S \in [1..K -> ds] /\ Falls(S)
  <2>1. S = CHOOSE s \in [1..K -> ds] : Falls(s)
    BY DEF Deepest
  <2> HIDE DEF S, K, Falls
  <2>2. QED
    BY <1>6, <2>1
<1> HIDE DEF S
<1>8. S \in Injection(1..K, ds)
  <2>1. ASSUME NEW i \in 1..K, NEW j \in 1..K, S[i] = S[j] PROVE i = j
    <3>1. S[i] \in ds /\ S[j] \in ds
      BY <1>7
    <3>2. S[i] \in Nat /\ ~(S[i] > S[j]) /\ ~(S[j] > S[i])
      BY <2>1, <3>1
    <3>3. QED
      BY <1>1, <1>7, <3>2
  <2>2. QED
    BY <1>7, <2>1 DEF Injection, IsInjective
<1>9. \A d \in ds : \E k \in 1..K : S[k] = d
  <2>1. S \in Surjection(1..K, ds)
    <3> HIDE DEF Falls, K
    <3>1. Cardinality(1..K) = Cardinality(ds)
      BY <1>1 DEF K
    <3>2. QED
      BY <1>8, <3>1, FS_Injection
  <2>2. QED
    BY <2>1 DEF Surjection
\* As many are at least as deep as the k-th as there are places up to its own.
<1>10. ASSUME NEW k \in 1..K PROVE Place(ds, S[k]) = k
  <2> DEFINE U == {e \in ds : e >= S[k]}
             f == [i \in 1..k |-> S[i]]
  <2>1. f \in [1..k -> U] /\ \A i, j \in 1..k : f[i] = f[j] => i = j
    <3>1. ASSUME NEW i \in 1..k PROVE S[i] \in U
      <4>1. i \in 1..K /\ S[i] \in ds /\ S[k] \in ds
        BY <1>1, <1>7, <1>10, <3>1
      <4>2. S[i] >= S[k]
        <5>1. CASE i = k
          BY <4>1, <5>1
        <5>2. CASE i # k
          <6>1. i < k
            BY <1>10, <3>1, <5>2
          <6>2. S[i] > S[k]
            BY <1>7, <1>10, <4>1, <6>1
          <6>3. QED
            BY <4>1, <6>2
        <5>3. QED
          BY <5>1, <5>2
      <4>3. QED
        BY <4>1, <4>2
    <3>2. \A i, j \in 1..k : S[i] = S[j] => i = j
      BY <1>1, <1>8, <1>10 DEF Injection, IsInjective
    <3> HIDE DEF U
    <3>3. QED
      BY <3>1, <3>2
  <2>2. \A u \in U : \E i \in 1..k : f[i] = u
    <3> SUFFICES ASSUME NEW u \in U PROVE \E i \in 1..k : f[i] = u
      OBVIOUS
    <3>1. PICK i \in 1..K : S[i] = u
      BY <1>9
    <3>2. i <= k
      <4>1. ~(i <= k) => S[k] > S[i]
        BY <1>1, <1>7, <1>10, <3>1
      <4>2. S[k] \in Nat /\ S[i] \in Nat /\ S[i] >= S[k]
        BY <1>7, <1>10, <3>1
      <4>3. QED
        BY <4>1, <4>2
    <3>3. QED
      BY <1>1, <1>10, <3>1, <3>2
  <2> HIDE DEF f
  <2>3. f \in Bijection(1..k, U)
    <3> HIDE DEF U
    <3>1. QED
      BY <2>1, <2>2 DEF Bijection, Injection, IsInjective, Surjection
  <2>4. ExistsBijection(1..k, U)
    BY <2>3 DEF ExistsBijection
  <2>5. k \in Nat
    BY <1>1, <1>10
  <2>6. Place(ds, S[k]) = Cardinality(U)
    BY DEF Place
  <2> HIDE DEF U
  <2>7. QED
    BY <2>4, <2>5, <2>6, FS_CountingElements
<1>11. ASSUME NEW d \in ds PROVE Place(ds, d) \in 1..K /\ S[Place(ds, d)] = d
  <2>1. PICK k \in 1..K : S[k] = d
    BY <1>9
  <2>2. QED
    BY <1>10, <2>1
<1>12. QED
  BY <1>7, <1>11 DEF S

-----------------------------------------------------------------------------
(* Account trees.                                                           *)

Bits == {0, 1}

\* A bit more on a prefix.
LEMMA Longer ==
  ASSUME NEW d \in Nat, NEW prefix \in [1..d -> Bits], NEW b \in Bits
  PROVE  /\ Len(prefix) = d /\ prefix \in Seq(Bits)
         /\ Append(prefix, b) \in [1..(d + 1) -> Bits] /\ Len(Append(prefix, b)) = d + 1
         /\ \A i \in 1..(d + 1) : Append(prefix, b)[i] = IF i = d + 1 THEN b ELSE prefix[i]
<1>1. prefix \in Seq(Bits) /\ Len(prefix) = d
  <2>1. prefix \in Seq(Bits)
    BY DEF Seq
  <2>2. QED
    BY <2>1
<1> HIDE DEF Bits
<1>2. Append(prefix, b) \in Seq(Bits) /\ Len(Append(prefix, b)) = d + 1
  BY <1>1
<1>3. Append(prefix, b) \in [1..(d + 1) -> Bits]
  BY <1>2, LenProperties
<1>4. \A i \in 1..(d + 1) : Append(prefix, b)[i] = IF i = d + 1 THEN b ELSE prefix[i]
  BY <1>1
<1>5. QED
  BY <1>1, <1>2, <1>3, <1>4

\* The prefixes of a path.
LEMMA PrefixLonger ==
  ASSUME NEW p \in Paths, NEW d \in 0..(Depth - 1)
  PROVE  /\ Prefix(p, d) \in [1..d -> Bits]
         /\ p[d + 1] \in Bits
         /\ Append(Prefix(p, d), p[d + 1]) = Prefix(p, d + 1)
<1>1. Depth \in Nat /\ d \in Nat /\ d + 1 \in 1..Depth
  BY TreeAssumption
<1>2. \A i \in 1..(d + 1) : p[i] \in Bits
  BY <1>1 DEF Paths, Bits
<1>3. Prefix(p, d) \in [1..d -> Bits] /\ p[d + 1] \in Bits
  BY <1>1, <1>2 DEF Prefix
<1>4. \A i \in 1..(d + 1) : Append(Prefix(p, d), p[d + 1])[i] = Prefix(p, d + 1)[i]
  <2> SUFFICES ASSUME NEW i \in 1..(d + 1)
               PROVE  Append(Prefix(p, d), p[d + 1])[i] = Prefix(p, d + 1)[i]
    OBVIOUS
  <2>1. Prefix(p, d + 1)[i] = p[i] /\ (i # d + 1 => Prefix(p, d)[i] = p[i])
    BY <1>1 DEF Prefix
  <2>2. QED
    BY <1>1, <1>3, <2>1, Longer
<1>5. Append(Prefix(p, d), p[d + 1]) \in [1..(d + 1) -> Bits]
  BY <1>1, <1>3, Longer
<1>6. Prefix(p, d + 1) = [i \in 1..(d + 1) |-> Prefix(p, d + 1)[i]]
  BY DEF Prefix
<1>7. QED
  BY <1>3, <1>4, <1>5, <1>6

\* The subtrees of a tree.
LEMMA SubtreesRise ==
  ASSUME NEW tree, NEW h \in 0..Depth, NEW prefix \in [1..(Depth - h) -> Bits]
  PROVE  Subtrees(tree)[h][prefix]
           = HashOf(tree, h, prefix, IF h = 0 THEN <<>> ELSE Subtrees(tree)[h - 1])
<1> DEFINE Is(f) ==
             f = [k \in 0..Depth |->
                    [q \in [1..(Depth - k) -> {0, 1}] |->
                       HashOf(tree, k, q, IF k = 0 THEN <<>> ELSE f[k - 1])]]
           G == CHOOSE f : Is(f)
<1>1. Subtrees(tree) = G
  BY DEF Subtrees
<1>2. PICK f : Rises("tree", tree, Depth, f)
  BY TreeAssumption, RecursionExists
<1>3. Is(f)
  <2>1. f = [k \in 0..Depth |-> IF k = 0 THEN First("tree", tree)
                                ELSE Step("tree", tree, k, f[k - 1])]
    BY <1>2 DEF Rises
  <2>2. ASSUME NEW k \in 0..Depth
        PROVE  f[k] = [q \in [1..(Depth - k) -> {0, 1}] |->
                         HashOf(tree, k, q, IF k = 0 THEN <<>> ELSE f[k - 1])]
    <3>1. CASE k = 0
      <4>1. f[k] = [q \in [1..Depth -> {0, 1}] |-> HashOf(tree, 0, q, <<>>)]
        BY <2>1, <3>1, TreeAssumption DEF First
      <4>2. Depth - k = Depth
        BY <3>1, TreeAssumption
      <4>3. QED
        BY <3>1, <4>1, <4>2
    <3>2. CASE k # 0
      <4>1. f[k] = [q \in [1..(Depth - k) -> {0, 1}] |-> HashOf(tree, k, q, f[k - 1])]
        BY <2>1, <3>2, TreeAssumption DEF Step
      <4>2. QED
        BY <3>2, <4>1
    <3>3. QED
      BY <3>1, <3>2
  <2>3. f = [k \in 0..Depth |-> f[k]]
    BY <2>1
  <2>4. QED
    BY <2>2, <2>3
<1>4. Is(G)
  <2> HIDE DEF Is
  <2>1. QED
    BY <1>3
<1> HIDE DEF G
<1>5. G[h] = [q \in [1..(Depth - h) -> {0, 1}] |->
                HashOf(tree, h, q, IF h = 0 THEN <<>> ELSE G[h - 1])]
  BY <1>4
<1>6. QED
  BY <1>1, <1>5 DEF Bits

LEMMA SubRootIs ==
  ASSUME NEW tree, NEW d \in 0..Depth, NEW prefix \in [1..d -> Bits]
  PROVE  SubRoot(tree, prefix)
           = IF Prefixed(tree, prefix) = {} THEN EMPTY
             ELSE IF d = Depth THEN SmtLeaf(prefix, tree[prefix])
             ELSE SmtInterior(SubRoot(tree, Append(prefix, 0)), SubRoot(tree, Append(prefix, 1)))
<1> DEFINE h == Depth - d
           longer == IF h = 0 THEN <<>> ELSE Subtrees(tree)[h - 1]
<1>1. h \in 0..Depth /\ Depth - h = d /\ d \in Nat /\ (h = 0 <=> d = Depth)
  BY TreeAssumption
<1>2. Len(prefix) = d
  <2>1. 0 \in Bits
    BY DEF Bits
  <2>2. QED
    BY <1>1, <2>1, Longer
<1>3. SubRoot(tree, prefix) = HashOf(tree, h, prefix, longer)
  <2>1. SubRoot(tree, prefix) = Subtrees(tree)[h][prefix]
    BY <1>2 DEF SubRoot
  <2> HIDE DEF h
  <2>2. prefix \in [1..(Depth - h) -> Bits]
    BY <1>1
  <2>3. QED
    BY <1>1, <2>1, <2>2, SubtreesRise
<1>4. ASSUME d # Depth, NEW b \in Bits
      PROVE  longer[Append(prefix, b)] = SubRoot(tree, Append(prefix, b))
  <2>1. Len(Append(prefix, b)) = d + 1
    BY <1>1, Longer
  <2>2. h # 0 /\ Depth - (d + 1) = h - 1
    BY <1>1, <1>4, TreeAssumption
  <2>3. QED
    BY <2>1, <2>2 DEF SubRoot
<1>5. 0 \in Bits /\ 1 \in Bits
  BY DEF Bits
<1> HIDE DEF longer, h
<1>6. CASE d = Depth
  BY <1>1, <1>3, <1>6 DEF HashOf
<1>7. CASE d # Depth
  BY <1>1, <1>3, <1>4, <1>5, <1>7 DEF HashOf
<1>8. QED
  BY <1>6, <1>7

\* What stands under a prefix stands under one of the two that are longer.
LEMMA UnderLonger ==
  ASSUME NEW tree, DOMAIN tree \subseteq Paths, NEW p \in Paths
  PROVE  /\ \A d \in 0..Depth : p \in DOMAIN tree => p \in Prefixed(tree, Prefix(p, d))
         /\ Prefixed(tree, Prefix(p, Depth)) = {p} \intersect DOMAIN tree
         /\ Prefix(p, Depth) = p
<1>1. \A d \in 0..Depth : DOMAIN Prefix(p, d) = 1..d /\ \A i \in 1..d : Prefix(p, d)[i] = p[i]
  BY DEF Prefix
<1>2. Prefix(p, Depth) = p
  BY DEF Prefix, Paths
<1>3. ASSUME NEW q \in Prefixed(tree, p) PROVE q = p
  <2>1. q \in Paths /\ \A i \in DOMAIN p : q[i] = p[i]
    BY DEF Prefixed
  <2>2. /\ q = [i \in 1..Depth |-> q[i]] /\ p = [i \in 1..Depth |-> p[i]]
        /\ DOMAIN p = 1..Depth
    BY <2>1 DEF Paths
  <2>3. QED
    BY <2>1, <2>2
<1>4. \A d \in 0..Depth : p \in DOMAIN tree => p \in Prefixed(tree, Prefix(p, d))
  BY <1>1 DEF Prefixed
<1>5. Prefixed(tree, p) \subseteq {p} \intersect DOMAIN tree
  BY <1>3 DEF Prefixed
<1>6. Depth \in 0..Depth
  BY TreeAssumption
<1>7. p \in DOMAIN tree => p \in Prefixed(tree, p)
  BY <1>2, <1>4, <1>6
<1>8. QED
  BY <1>2, <1>4, <1>5, <1>7

\* The values of a fold, depth by depth.
Folded(path, v, present, siblings, f) ==
  /\ f[0] = SmtLeaf(path, v)
  /\ \A m \in 1..Depth :
       f[m] = Lift(path, Depth - m, f[m - 1], SiblingAt(present, siblings, Depth - m))

FoldsTo(path, v, present, siblings, f) ==
  /\ Folded(path, v, present, siblings, f)
  /\ SmtFold(path, v, present, siblings)
       = IF Len(siblings) > Depth \/ Len(siblings) # Cardinality(present) THEN {} ELSE {f[Depth]}

LEMMA FoldIs ==
  ASSUME NEW path, NEW v, NEW present, NEW siblings
  PROVE  \E f : FoldsTo(path, v, present, siblings, f)
<1> DEFINE Is(f) ==
             f = [m \in 0..Depth |->
                    IF m = 0 THEN SmtLeaf(path, v)
                    ELSE Lift(path, Depth - m, f[m - 1],
                              SiblingAt(present, siblings, Depth - m))]
           G == CHOOSE f : Is(f)
           x == [path |-> path, value |-> v, present |-> present, siblings |-> siblings]
<1>1. SmtFold(path, v, present, siblings)
        = IF Len(siblings) > Depth \/ Len(siblings) # Cardinality(present) THEN {} ELSE {G[Depth]}
  BY DEF SmtFold
<1>2. PICK f : Rises("fold", x, Depth, f)
  BY TreeAssumption, RecursionExists
<1>3. Is(f)
  BY <1>2 DEF Rises, First, Step
<1>4. Is(G)
  <2> HIDE DEF Is
  <2>1. QED
    BY <1>3
<1> HIDE DEF G
<1>5. Folded(path, v, present, siblings, G)
  BY <1>4, TreeAssumption DEF Folded
<1>6. QED
  BY <1>1, <1>5 DEF FoldsTo

\* A fold with the siblings of a path has the hash of the prefix at every depth, or,
\* when the tree holds no such value at the path, has it at none.
LEMMA FoldFollows ==
  ASSUME NEW tree, DOMAIN tree \subseteq Paths, NEW path \in Paths, NEW v, NEW f,
         NEW siblings, Folded(path, v, Present(tree, path), siblings, f),
         \A d \in Present(tree, path) :
           siblings[Place(Present(tree, path), d)] = Sibling(tree, path, d),
         NEW m \in 0..Depth
  PROVE  /\ f[m] # EMPTY
         /\ f[m] = SubRoot(tree, Prefix(path, Depth - m))
              <=> path \in DOMAIN tree /\ tree[path] = v
<1> DEFINE holds == path \in DOMAIN tree /\ tree[path] = v
           Root(l) == SubRoot(tree, Prefix(path, Depth - l))
           Good(l) == f[l] # EMPTY /\ (f[l] = Root(l) <=> holds)
           B == {l \in 0..Depth : ~Good(l)}
<1> USE TreeAssumption
<1>1. Good(0)
  <2>1. f[0] = <<"leaf", path, v>> /\ f[0] # EMPTY
    BY DEF Folded, SmtLeaf, EMPTY
  <2>2. Prefix(path, Depth - 0) = path /\ Depth \in 0..Depth
    BY UnderLonger
  <2>3. path \in [1..Depth -> Bits]
    BY DEF Paths, Bits
  <2>4. Root(0) = IF Prefixed(tree, path) = {} THEN EMPTY ELSE SmtLeaf(path, tree[path])
    BY <2>2, <2>3, SubRootIs
  <2>5. Prefixed(tree, path) = {path} \intersect DOMAIN tree
    BY UnderLonger
  <2> HIDE DEF Root
  <2>6. CASE path \in DOMAIN tree
    <3>1. Root(0) = <<"leaf", path, tree[path]>>
      BY <2>4, <2>5, <2>6 DEF SmtLeaf
    <3>2. QED
      BY <2>1, <2>6, <3>1
  <2>7. CASE path \notin DOMAIN tree
    BY <2>1, <2>4, <2>5, <2>7
  <2>8. QED
    BY <2>6, <2>7
<1>2. ASSUME NEW l \in 1..Depth, Good(l - 1) PROVE Good(l)
  <2> DEFINE d == Depth - l
             b == path[d + 1]
             sib == SiblingAt(Present(tree, path), siblings, d)
  <2>1. d \in 0..(Depth - 1) /\ d \in 0..Depth /\ d \in Nat /\ d # Depth /\ d + 1 = Depth - (l - 1)
    OBVIOUS
  <2>2. /\ Prefix(path, d) \in [1..d -> Bits] /\ b \in {0, 1}
        /\ Append(Prefix(path, d), b) = Prefix(path, d + 1)
    BY <2>1, PrefixLonger DEF Bits
  <2>3. sib = Sibling(tree, path, d)
    BY <2>1 DEF SiblingAt, Present
  <2>4. sib = SubRoot(tree, Append(Prefix(path, d), 1 - b))
    BY <2>3 DEF Sibling
  <2>5. f[l] = IF b = 1 THEN <<"node", sib, f[l - 1]>> ELSE <<"node", f[l - 1], sib>>
    BY DEF Folded, Lift, SmtInterior
  <2>6. f[l] # EMPTY
    BY <2>5 DEF EMPTY
  <2>7. Root(l - 1) = SubRoot(tree, Append(Prefix(path, d), b))
    BY <2>1, <2>2
  <2>8. Root(l) = IF Prefixed(tree, Prefix(path, d)) = {} THEN EMPTY
                  ELSE <<"node", SubRoot(tree, Append(Prefix(path, d), 0)),
                                 SubRoot(tree, Append(Prefix(path, d), 1))>>
    BY <2>1, <2>2, SubRootIs DEF SmtInterior
  <2>9. Good(l - 1)
    BY <1>2
  <2>10. path \in DOMAIN tree => Prefixed(tree, Prefix(path, d)) # {}
    BY <2>1, UnderLonger
  <2> HIDE DEF Root, sib, b
  <2>11. CASE Prefixed(tree, Prefix(path, d)) = {}
    BY <2>6, <2>8, <2>10, <2>11
  <2>12. CASE Prefixed(tree, Prefix(path, d)) # {}
    <3>1. CASE b = 1
      <4>1. f[l] = <<"node", sib, f[l - 1]>> /\ Root(l) = <<"node", sib, Root(l - 1)>>
        BY <2>4, <2>5, <2>7, <2>8, <2>12, <3>1
      <4>2. QED
        BY <2>6, <2>9, <4>1
    <3>2. CASE b = 0
      <4>1. f[l] = <<"node", f[l - 1], sib>> /\ Root(l) = <<"node", Root(l - 1), sib>>
        BY <2>4, <2>5, <2>7, <2>8, <2>12, <3>2
      <4>2. QED
        BY <2>6, <2>9, <4>1
    <3>3. QED
      BY <2>2, <3>1, <3>2
  <2>13. QED
    BY <2>11, <2>12
<1>3. ASSUME B # {} PROVE FALSE
  <2> HIDE DEF Good
  <2>1. PICK l \in B : \A k \in B : l <= k
    <3>1. B \in SUBSET Nat
      OBVIOUS
    <3> HIDE DEF B
    <3>2. QED
      BY <1>3, <3>1, LeastNumber
  <2>2. l # 0 /\ l \in 1..Depth
    BY <1>1, <2>1
  <2>3. l - 1 \in 0..Depth /\ l - 1 \notin B
    BY <2>1, <2>2
  <2>4. QED
    BY <1>2, <2>1, <2>2, <2>3
<1>4. Good(m)
  BY <1>3
<1>5. QED
  BY <1>4

\* What a proof of an account folds to (smt_fold), and without its deepest sibling.
LEMMA AccountFolds ==
  ASSUME NEW a, a.path \in Paths, DOMAIN a.tree \subseteq Paths
  PROVE  /\ \E hash : /\ Proven(a, FALSE) = {hash} /\ hash # EMPTY
                      /\ hash = SubRoot(a.tree, <<>>) <=> Holds(a)
         /\ Present(a.tree, a.path) # {} => Proven(a, TRUE) = {}
<1> DEFINE ds == Present(a.tree, a.path)
           K == Cardinality(ds)
           sibs == Siblings(a.tree, a.path)
<1>1. IsFiniteSet(ds) /\ K \in Nat /\ K <= Depth /\ (ds # {} => K # 0) /\ \A d \in ds : d \in Nat
  <2>1. ds \in SUBSET (0..(Depth - 1))
    BY DEF Present
  <2>2. IsFiniteSet(0..(Depth - 1)) /\ Cardinality(0..(Depth - 1)) = Depth
    <3>1. 0 \in Int /\ Depth - 1 \in Int /\ (0 > Depth - 1 => Depth = 0)
      BY TreeAssumption
    <3>2. QED
      BY <3>1, TreeAssumption, FS_Interval
  <2>3. \A d \in ds : d \in Nat
    BY <2>1
  <2> HIDE DEF ds
  <2>4. IsFiniteSet(ds) /\ K <= Depth
    BY <2>1, <2>2, FS_Subset
  <2>5. QED
    BY <2>3, <2>4, FS_CardinalityType, FS_EmptySet
<1>2. /\ Deepest(ds) \in [1..K -> ds]
      /\ \A d \in ds : Place(ds, d) \in 1..K /\ Deepest(ds)[Place(ds, d)] = d
  <2> HIDE DEF ds
  <2>1. QED
    BY <1>1, DeepestHas
<1>3. sibs = [k \in 1..K |-> Sibling(a.tree, a.path, Deepest(ds)[k])]
  <2>1. DOMAIN Deepest(ds) = 1..K
    BY <1>2
  <2>2. QED
    BY <2>1 DEF Siblings
<1> HIDE DEF ds, K, sibs
<1>4. Len(sibs) = K /\ \A d \in ds : sibs[Place(ds, d)] = Sibling(a.tree, a.path, d)
  BY <1>1, <1>2, <1>3
<1>5. PICK f : FoldsTo(a.path, a.value, ds, sibs, f)
  BY FoldIs
<1>6. Proven(a, FALSE) = {f[Depth]}
  <2>1. Proven(a, FALSE) = SmtFold(a.path, a.value, ds, sibs)
    BY DEF Proven, ds, sibs
  <2>2. ~(Len(sibs) > Depth \/ Len(sibs) # Cardinality(ds))
    BY <1>1, <1>4, TreeAssumption DEF K
  <2>3. QED
    BY <1>5, <2>1, <2>2 DEF FoldsTo
<1>7. f[Depth] # EMPTY /\ (f[Depth] = SubRoot(a.tree, <<>>) <=> Holds(a))
  <2>1. Depth \in 0..Depth /\ Depth - Depth = 0
    BY TreeAssumption
  <2>2. Prefix(a.path, 0) = <<>>
    BY DEF Prefix
  <2>3. QED
    BY <1>4, <1>5, <2>1, <2>2, FoldFollows DEF ds, Holds, FoldsTo
<1>8. ASSUME ds # {} PROVE Proven(a, TRUE) = {}
  <2>1. sibs # <<>> /\ Len(Tail(sibs)) # K
    <3>1. K # 0
      BY <1>1, <1>8
    <3>2. Len(sibs) = K
      BY <1>4
    <3>3. sibs # <<>>
      BY <1>1, <3>1, <3>2
    <3>4. sibs \in Seq({sibs[k] : k \in 1..K})
      BY <1>1, <1>3
    <3>5. Len(Tail(sibs)) = K - 1
      BY <3>2, <3>3, <3>4, HeadTailProperties
    <3>6. QED
      BY <1>1, <3>3, <3>5
  <2>2. Proven(a, TRUE) = SmtFold(a.path, a.value, ds, Tail(sibs))
    BY <2>1 DEF Proven, ds, sibs
  <2>3. QED
    BY <2>1, <2>2 DEF SmtFold, K
<1>9. QED
  BY <1>6, <1>7, <1>8 DEF ds

LEMMA AccountsDoSpeak ==
  ASSUME NEW a, a.path \in Paths, DOMAIN a.tree \subseteq Paths
  PROVE  AccountsSpeak(a)
<1> DEFINE root == SubRoot(a.tree, <<>>)
<1>1. PICK hash : Proven(a, FALSE) = {hash} /\ hash # EMPTY /\ (hash = root <=> Holds(a))
  BY AccountFolds
<1>2. Present(a.tree, a.path) # {} => Proven(a, TRUE) = {}
  BY AccountFolds
<1> HIDE DEF root
<1>3. /\ RunVector(Proven(a, FALSE), root, FALSE) = "PASS" <=> Holds(a)
      /\ RunVector(Proven(a, FALSE), root, TRUE) = "PASS" <=> ~Holds(a)
  BY <1>1 DEF RunVector
<1>4. ASSUME NEW claimed \in {root, EMPTY}
      PROVE  RunBinding(Proven(a, FALSE), claimed, root, TRUE) = "PASS"
               <=> Holds(a) /\ claimed = root
  BY <1>1 DEF RunBinding, Bound
<1>5. ASSUME Present(a.tree, a.path) # {}, NEW rejects \in BOOLEAN
      PROVE  RunVector(Proven(a, TRUE), root, rejects) = "FAIL"
  BY <1>2, <1>5 DEF RunVector
<1>6. QED
  BY <1>3, <1>4, <1>5 DEF AccountsSpeak, root

-----------------------------------------------------------------------------
(* Seal trees.                                                              *)

\* A tree of c leaves is made of smaller ones.
LEMMA SplitOfSmaller ==
  ASSUME NEW c \in Nat \ {0}, NEW m, NEW f, NEW g, \A i \in 1..(c - 1) : f[i] = g[i]
  PROVE  Split(f, c, m) = Split(g, c, m)
<1>1. CASE c = 1
  BY <1>1 DEF Split
<1>2. CASE c # 1
  <2>1. Half(c) \in 1..(c - 1)
    BY <1>2, HalfBelow
  <2>2. c - Half(c) \in 1..(c - 1)
    BY <2>1
  <2>3. f[Half(c)] = g[Half(c)] /\ f[c - Half(c)] = g[c - Half(c)]
    BY <2>1, <2>2
  <2>4. QED
    BY <1>2, <2>3 DEF Split
<1>3. QED
  BY <1>1, <1>2

Row(n, f, c) == [m \in 1..n |-> Split(f, c, m)]

LEMMA SplitsExist ==
  ASSUME NEW n, NEW N \in Nat
  PROVE  \E f : f = [c \in 1..N |-> Row(n, f, c)]
<1> DEFINE Good(l, f) == f = [c \in 1..l |-> Row(n, f, c)]
           B == {l \in Nat : ~\E f : Good(l, f)}
<1> SUFFICES ASSUME B # {} PROVE FALSE
  OBVIOUS
<1>1. PICK l \in B : \A k \in B : l <= k
  <2> HIDE DEF Good
  <2>1. B \in SUBSET Nat
    OBVIOUS
  <2> HIDE DEF B
  <2>2. QED
    BY <2>1, LeastNumber
<1>2. l # 0
  <2>1. Good(0, [c \in 1..0 |-> {}])
    OBVIOUS
  <2>2. QED
    BY <1>1, <2>1
<1>3. PICK f : Good(l - 1, f)
  <2> HIDE DEF Good
  <2>1. l - 1 \in Nat /\ ~(l <= l - 1)
    BY <1>1, <1>2
  <2>2. QED
    BY <1>1, <2>1
<1> DEFINE g == [c \in 1..l |-> IF c = l THEN Row(n, f, l) ELSE f[c]]
<1>4. ASSUME NEW c \in 1..(l - 1) PROVE g[c] = f[c] /\ f[c] = Row(n, f, c)
  <2>1. c \in 1..l /\ c # l
    BY <1>1
  <2>2. f = [k \in 1..(l - 1) |-> Row(n, f, k)]
    BY <1>3
  <2>3. f[c] = Row(n, f, c)
    BY <2>2
  <2>4. QED
    BY <2>1, <2>3
<1>5. g[l] = Row(n, f, l) /\ g = [c \in 1..l |-> g[c]]
  BY <1>1, <1>2
<1> HIDE DEF g
<1>6. ASSUME NEW c \in 1..l PROVE g[c] = Row(n, g, c)
  <2>1. c \in Nat \ {0} /\ \A i \in 1..(c - 1) : f[i] = g[i]
    BY <1>1, <1>4, <1>6
  <2>2. \A m : Split(f, c, m) = Split(g, c, m)
    BY <2>1, SplitOfSmaller
  <2>3. Row(n, f, c) = Row(n, g, c)
    BY <2>2 DEF Row
  <2>4. CASE c = l
    BY <1>5, <2>3, <2>4
  <2>5. CASE c # l
    <3>1. c \in 1..(l - 1)
      BY <1>1, <1>6, <2>5
    <3>2. QED
      BY <1>4, <2>3, <3>1
  <2>6. QED
    BY <2>4, <2>5
<1>7. Good(l, g)
  BY <1>5, <1>6
<1>8. QED
  <2> HIDE DEF Good
  <2>1. QED
    BY <1>1, <1>7

\* The tree of the c leaves from m, of n.
TreeOf(n, c, m) == SealSplits(n)[c][m]

LEMMA TreeIs ==
  ASSUME NEW n \in Nat, NEW c \in 1..n, NEW m \in 1..n
  PROVE  /\ c = 1 => TreeOf(n, c, m) = [root |-> Raw(m), up |-> [i \in {m} |-> <<>>]]
         /\ c # 1 =>
              LET l == TreeOf(n, Half(c), m)
                  r == TreeOf(n, c - Half(c), m + Half(c))
              IN TreeOf(n, c, m) =
                   [root |-> SealNode("t", l.root, r.root),
                    up |-> [i \in m..(m + c - 1) |->
                              IF i < m + Half(c)
                                THEN Append(l.up[i], [hash |-> r.root, is_right |-> TRUE])
                                ELSE Append(r.up[i], [hash |-> l.root, is_right |-> FALSE])]]
<1> DEFINE Is(f) == f = [k \in 1..n |-> [j \in 1..n |-> Split(f, k, j)]]
           G == CHOOSE f : Is(f)
<1>1. SealSplits(n) = G
  BY DEF SealSplits
<1>2. Is(G)
  <2>1. PICK f : f = [k \in 1..n |-> Row(n, f, k)]
    BY SplitsExist
  <2>2. Is(f)
    BY <2>1 DEF Row
  <2> HIDE DEF Is
  <2>3. QED
    BY <2>2
<1> HIDE DEF G
<1>3. G[c][m] = Split(G, c, m)
  <2>1. G[c] = [j \in 1..n |-> Split(G, c, j)]
    BY <1>2
  <2>2. QED
    BY <2>1
<1>4. \A k, j : TreeOf(n, k, j) = G[k][j]
  BY <1>1 DEF TreeOf
<1> HIDE DEF Is
<1>5. CASE c = 1
  BY <1>3, <1>4, <1>5 DEF Split
<1>6. CASE c # 1
  <2> DEFINE l == G[Half(c)][m]
             r == G[c - Half(c)][m + Half(c)]
  <2>1. l = TreeOf(n, Half(c), m) /\ r = TreeOf(n, c - Half(c), m + Half(c))
    BY <1>4
  <2>2. Split(G, c, m)
          = [root |-> SealNode("t", l.root, r.root),
             up |-> [i \in m..(m + c - 1) |->
                       IF i < m + Half(c)
                         THEN Append(l.up[i], [hash |-> r.root, is_right |-> TRUE])
                         ELSE Append(r.up[i], [hash |-> l.root, is_right |-> FALSE])]]
    BY <1>6 DEF Split
  <2> HIDE DEF l, r
  <2>3. QED
    BY <1>3, <1>4, <1>6, <2>1, <2>2
<1>7. QED
  BY <1>5, <1>6

LEMMA RootIs ==
  ASSUME NEW n \in Nat, NEW c \in 1..n, NEW m \in 1..n
  PROVE  TreeOf(n, c, m).root
           = IF c = 1 THEN Raw(m)
             ELSE SealNode("t", TreeOf(n, Half(c), m).root,
                                TreeOf(n, c - Half(c), m + Half(c)).root)
<1>1. CASE c = 1
  <2>1. TreeOf(n, c, m) = [root |-> Raw(m), up |-> [i \in {m} |-> <<>>]]
    BY <1>1, TreeIs
  <2>2. QED
    BY <1>1, <2>1
<1>2. CASE c # 1
  <2> DEFINE l == TreeOf(n, Half(c), m)
             r == TreeOf(n, c - Half(c), m + Half(c))
             up == [i \in m..(m + c - 1) |->
                      IF i < m + Half(c)
                        THEN Append(l.up[i], [hash |-> r.root, is_right |-> TRUE])
                        ELSE Append(r.up[i], [hash |-> l.root, is_right |-> FALSE])]
  <2>1. TreeOf(n, c, m) = [root |-> SealNode("t", l.root, r.root), up |-> up]
    BY <1>2, TreeIs
  <2> HIDE DEF up
  <2>2. QED
    BY <1>2, <2>1
<1>3. QED
  BY <1>1, <1>2

-----------------------------------------------------------------------------
(* The way up from a leaf.                                                  *)

\* The values of a fold, sibling by sibling.
LEMMA JoinIs ==
  ASSUME NEW tag, NEW leaf, NEW s, Len(s) \in Nat
  PROVE  \E f : /\ f[0] = leaf
                /\ \A k \in 1..Len(s) : f[k] = Combine(tag, f[k - 1], s[k])
                /\ FoldIncl(tag, leaf, s) = f[Len(s)]
<1> DEFINE Is(f) == f = [k \in 0..Len(s) |-> IF k = 0 THEN leaf ELSE Combine(tag, f[k - 1], s[k])]
           G == CHOOSE f : Is(f)
           x == [tag |-> tag, leaf |-> leaf, siblings |-> s]
<1>1. FoldIncl(tag, leaf, s) = G[Len(s)]
  BY DEF FoldIncl
<1>2. PICK f : Rises("join", x, Len(s), f)
  BY RecursionExists
<1>3. Is(f)
  BY <1>2 DEF Rises, First, Step
<1>4. Is(G)
  <2> HIDE DEF Is
  <2>1. QED
    BY <1>3
<1> HIDE DEF G
<1>5. G[0] = leaf /\ \A k \in 1..Len(s) : G[k] = Combine(tag, G[k - 1], s[k])
  BY <1>4
<1>6. QED
  BY <1>1, <1>5

\* A sibling more on the way up.
LEMMA FoldMore ==
  ASSUME NEW tag, NEW leaf, NEW s, Sequence(s), NEW x
  PROVE  /\ FoldIncl(tag, leaf, <<>>) = leaf
         /\ FoldIncl(tag, leaf, Append(s, x)) = Combine(tag, FoldIncl(tag, leaf, s), x)
<1> DEFINE t == Append(s, x)
           N == Len(s)
<1>1. N \in Nat /\ Len(t) = N + 1 /\ \A k \in 1..(N + 1) : t[k] = IF k = N + 1 THEN x ELSE s[k]
  BY Pushed
<1> HIDE DEF t
<1>2. PICK f : /\ f[0] = leaf
               /\ \A k \in 1..N : f[k] = Combine(tag, f[k - 1], s[k])
               /\ FoldIncl(tag, leaf, s) = f[N]
  BY <1>1, JoinIs
<1>3. PICK g : /\ g[0] = leaf
               /\ \A k \in 1..(N + 1) : g[k] = Combine(tag, g[k - 1], t[k])
               /\ FoldIncl(tag, leaf, t) = g[N + 1]
  BY <1>1, JoinIs
<1> HIDE DEF N
<1> DEFINE B == {k \in 0..N : f[k] # g[k]}
<1>4. ASSUME B # {} PROVE FALSE
  <2>1. PICK k \in B : \A l \in B : k <= l
    <3>1. B \in SUBSET Nat
      OBVIOUS
    <3> HIDE DEF B
    <3>2. QED
      BY <1>4, <3>1, LeastNumber
  <2>2. k # 0 /\ k \in 1..N /\ k \in 1..(N + 1) /\ k # N + 1
    BY <1>1, <1>2, <1>3, <2>1
  <2>3. f[k - 1] = g[k - 1]
    <3>1. k - 1 \in 0..N /\ ~(k <= k - 1)
      BY <1>1, <2>2
    <3>2. QED
      BY <2>1, <3>1
  <2>4. t[k] = s[k]
    BY <1>1, <2>2
  <2>5. f[k] = g[k]
    BY <1>2, <1>3, <2>2, <2>3, <2>4
  <2>6. QED
    BY <2>1, <2>5
<1>5. f[N] = g[N]
  BY <1>1, <1>4
<1>6. N + 1 \in 1..(N + 1) /\ (N + 1) - 1 = N /\ t[N + 1] = x
  BY <1>1
<1>7. FoldIncl(tag, leaf, t) = Combine(tag, FoldIncl(tag, leaf, s), x)
  BY <1>2, <1>3, <1>5, <1>6
<1>8. FoldIncl(tag, leaf, <<>>) = leaf
  <2> DEFINE e == <<>>
  <2>1. Len(e) = 0
    OBVIOUS
  <2> HIDE DEF e
  <2>2. PICK h : h[0] = leaf /\ FoldIncl(tag, leaf, e) = h[Len(e)]
    BY <2>1, JoinIs
  <2>3. FoldIncl(tag, leaf, e) = leaf
    BY <2>1, <2>2
  <2>4. QED
    BY <2>3 DEF e
<1>9. QED
  BY <1>7, <1>8 DEF t

\* The way up from a leaf of a tree leads to its root from no other leaf.
LEMMA WaysUpLead ==
  ASSUME NEW n \in Nat, NEW c \in 1..n, NEW m \in 1..n, m + c - 1 <= n, NEW i \in m..(m + c - 1)
  PROVE  /\ Sequence(TreeOf(n, c, m).up[i])
         /\ \A j : FoldIncl("t", Raw(j), TreeOf(n, c, m).up[i]) = TreeOf(n, c, m).root <=> i = j
<1> DEFINE Leads(k, q, x) ==
             /\ Sequence(TreeOf(n, k, q).up[x])
             /\ \A j : FoldIncl("t", Raw(j), TreeOf(n, k, q).up[x]) = TreeOf(n, k, q).root <=> x = j
           Good(k) == \A q \in 1..n : \A x \in q..(q + k - 1) : q + k - 1 <= n => Leads(k, q, x)
           B == {k \in 1..n : ~Good(k)}
<1>1. ASSUME NEW k \in 1..n, \A l \in 1..(k - 1) : Good(l) PROVE Good(k)
  <2> SUFFICES ASSUME NEW q \in 1..n, NEW x \in q..(q + k - 1), q + k - 1 <= n
               PROVE  Leads(k, q, x)
    OBVIOUS
  <2>1. CASE k = 1
    <3>1. TreeOf(n, k, q).root = Raw(q) /\ TreeOf(n, k, q).up[x] = <<>> /\ x = q
      <4>1. x = q
        BY <2>1
      <4>2. TreeOf(n, k, q) = [root |-> Raw(q), up |-> [z \in {q} |-> <<>>]]
        BY <2>1, TreeIs
      <4>3. QED
        BY <4>1, <4>2
    <3>2. \A j : FoldIncl("t", Raw(j), <<>>) = Raw(j)
      BY EmptyIsSequence, FoldMore
    <3>3. \A j : Raw(j) = Raw(q) <=> q = j
      BY DEF Raw
    <3>4. QED
      BY <3>1, <3>2, <3>3, EmptyIsSequence
  <2>2. CASE k # 1
    <3> DEFINE h == Half(k)
               l == TreeOf(n, h, q)
               r == TreeOf(n, k - h, q + h)
               T == TreeOf(n, k, q)
    <3>1. h \in 1..(k - 1) /\ k - h \in 1..(k - 1) /\ q + h \in 1..n
      <4>1. h \in 1..(k - 1)
        BY <2>2, HalfBelow
      <4> HIDE DEF h
      <4>2. QED
        BY <4>1
    <3>2. T = [root |-> SealNode("t", l.root, r.root),
               up |-> [z \in q..(q + k - 1) |->
                         IF z < q + h THEN Append(l.up[z], [hash |-> r.root, is_right |-> TRUE])
                         ELSE Append(r.up[z], [hash |-> l.root, is_right |-> FALSE])]]
      BY <2>2, TreeIs
    <3>3. T.root = <<"t", l.root, r.root>>
      BY <3>2 DEF SealNode
    <3>4. Good(h) /\ Good(k - h)
      BY <1>1, <3>1
    <3> HIDE DEF T, l, r, h
    <3>5. CASE x < q + h
      <4>1. T.up[x] = Append(l.up[x], [hash |-> r.root, is_right |-> TRUE])
        BY <3>2, <3>5
      <4>2. x \in q..(q + h - 1) /\ q + h - 1 <= n
        BY <3>1, <3>5
      <4>3. Leads(h, q, x)
        BY <3>4, <4>2
      <4>4. Sequence(l.up[x]) /\ \A j : FoldIncl("t", Raw(j), l.up[x]) = l.root <=> x = j
        BY <4>3 DEF l
      <4>5. \A j : FoldIncl("t", Raw(j), T.up[x])
                     = <<"t", FoldIncl("t", Raw(j), l.up[x]), r.root>>
        BY <4>1, <4>4, FoldMore DEF Combine, SealNode
      <4>6. Sequence(T.up[x])
        BY <4>1, <4>4, Pushed
      <4>7. QED
        BY <3>3, <4>4, <4>5, <4>6 DEF T
    <3>6. CASE ~(x < q + h)
      <4>1. T.up[x] = Append(r.up[x], [hash |-> l.root, is_right |-> FALSE])
        BY <3>2, <3>6
      <4>2. x \in (q + h)..((q + h) + (k - h) - 1) /\ (q + h) + (k - h) - 1 <= n
        BY <3>1, <3>6
      <4>3. Leads(k - h, q + h, x)
        BY <3>1, <3>4, <4>2
      <4>4. Sequence(r.up[x]) /\ \A j : FoldIncl("t", Raw(j), r.up[x]) = r.root <=> x = j
        BY <4>3 DEF r
      <4>5. \A j : FoldIncl("t", Raw(j), T.up[x])
                     = <<"t", l.root, FoldIncl("t", Raw(j), r.up[x])>>
        BY <4>1, <4>4, FoldMore DEF Combine, SealNode
      <4>6. Sequence(T.up[x])
        BY <4>1, <4>4, Pushed
      <4>7. QED
        BY <3>3, <4>4, <4>5, <4>6 DEF T
    <3>7. QED
      BY <3>5, <3>6
  <2>3. QED
    BY <2>1, <2>2
<1>2. ASSUME B # {} PROVE FALSE
  <2> HIDE DEF Good
  <2>1. PICK k \in B : \A l \in B : k <= l
    <3>1. B \in SUBSET Nat
      OBVIOUS
    <3> HIDE DEF B
    <3>2. QED
      BY <1>2, <3>1, LeastNumber
  <2>2. \A l \in 1..(k - 1) : l \in 1..n /\ l \notin B
    BY <2>1
  <2>3. QED
    BY <1>1, <2>1, <2>2
<1>3. Good(c)
  BY <1>2
<1>4. QED
  BY <1>3

-----------------------------------------------------------------------------
(* The levels of a seal tree.                                               *)

\* Block i of p leaves each, of n: where it ends, and its hash.
End(n, p, i) == IF i * p <= n THEN i * p ELSE n
Block(n, p, i) == TreeOf(n, End(n, p, i) - (i - 1) * p, (i - 1) * p + 1).root

\* level has the blocks of p leaves.
Blocks(n, p, c, level) ==
  /\ c \in Nat \ {0} /\ (c - 1) * p < n /\ n <= c * p
  /\ level = [i \in 1..c |-> Block(n, p, i)]

\* Half as many blocks, twice as large.
LEMMA HalfAsMany ==
  ASSUME NEW n \in Nat, NEW p \in Nat \ {0}, NEW c \in Nat \ {0}, (c - 1) * p < n, n <= c * p
  PROVE  LET q == (c + 1) \div 2
         IN q \in Nat \ {0} /\ (q - 1) * (2 * p) < n /\ n <= q * (2 * p)
<1> DEFINE q == (c + 1) \div 2
<1>1. q \in Nat \ {0} /\ (c = 2 * q \/ c = 2 * q - 1)
  OBVIOUS
<1> HIDE DEF q
<1>2. (q - 1) * (2 * p) = (2 * q) * p - 2 * p /\ q * (2 * p) = (2 * q) * p
  BY <1>1
<1>3. (c - 1) * p = c * p - p /\ (2 * q - 1) * p = (2 * q) * p - p
  BY <1>1
<1>4. (2 * q) * p \in Nat
  BY <1>1
<1> DEFINE w == (2 * q) * p
<1> HIDE DEF w
<1>5. w - 2 * p < n /\ n <= w
  <2>1. CASE c = 2 * q
    BY <1>1, <1>3, <1>4, <2>1 DEF w
  <2>2. CASE c = 2 * q - 1
    BY <1>1, <1>3, <1>4, <2>2 DEF w
  <2>3. QED
    BY <1>1, <2>1, <2>2
<1>6. QED
  BY <1>1, <1>2, <1>5 DEF q, w

\* Two blocks make one (seal_node).
LEMMA BlocksPair ==
  ASSUME NEW n \in Nat, NEW k \in Nat, NEW c \in Nat \ {0}, (c - 1) * Power(k) < n,
         n <= c * Power(k), NEW i \in Nat \ {0}, 2 * i <= c
  PROVE  SealNode("t", Block(n, Power(k), 2 * i - 1), Block(n, Power(k), 2 * i))
           = Block(n, 2 * Power(k), i)
<1> DEFINE p == Power(k)
           y == (i - 1) * (2 * p)
<1>1. p \in Nat \ {0}
  BY PowersGrow
<1> HIDE DEF p
<1>2. y \in Nat
  <2>1. i - 1 \in Nat /\ 2 * p \in Nat
    BY <1>1
  <2>2. QED
    BY <2>1
<1>3. /\ ((2 * i - 1) - 1) * p = y /\ (2 * i - 1) * p = y + p
      /\ (2 * i) * p = y + 2 * p /\ i * (2 * p) = y + 2 * p
  BY <1>1
<1>4. y + p < n
  <2>1. (c - 1) * p < n
    BY DEF p
  <2>2. (2 * i - 1) * p <= (c - 1) * p
    <3>1. (c - 1) - (2 * i - 1) \in Nat
      OBVIOUS
    <3> DEFINE z == (c - 1) - (2 * i - 1)
    <3>2. z * p \in Nat /\ (c - 1) * p = (2 * i - 1) * p + z * p
      BY <1>1, <3>1
    <3> HIDE DEF z
    <3>3. QED
      BY <1>1, <3>2
  <2> HIDE DEF y
  <2>3. (2 * i - 1) * p \in Int /\ (c - 1) * p \in Int
    BY <1>1
  <2>4. QED
    BY <1>1, <1>2, <1>3, <2>1, <2>2, <2>3
<1> DEFINE e == IF y + 2 * p <= n THEN y + 2 * p ELSE n
<1> HIDE DEF y
<1>5. Block(n, p, 2 * i - 1) = TreeOf(n, p, y + 1).root
  <2>1. End(n, p, 2 * i - 1) = y + p
    BY <1>1, <1>2, <1>3, <1>4 DEF End
  <2>2. (y + p) - y = p
    BY <1>1, <1>2
  <2>3. QED
    BY <1>3, <2>1, <2>2 DEF Block
<1>6. Block(n, p, 2 * i) = TreeOf(n, e - (y + p), y + p + 1).root
  <2>1. End(n, p, 2 * i) = e
    BY <1>3 DEF End
  <2>2. (2 * i - 1) * p = y + p
    BY <1>3
  <2>3. QED
    BY <2>1, <2>2 DEF Block
<1>7. Block(n, 2 * p, i) = TreeOf(n, e - y, y + 1).root
  <2>1. End(n, 2 * p, i) = e /\ (i - 1) * (2 * p) = y
    BY <1>3 DEF End, y
  <2>2. QED
    BY <2>1 DEF Block
<1>8. e \in Nat /\ e <= n /\ y + p < e /\ e <= y + 2 * p
  BY <1>1, <1>2, <1>4
<1> HIDE DEF e
<1>9. Half(e - y) = p
  <2>1. e - y \in Nat /\ p < e - y /\ e - y <= 2 * p
    BY <1>1, <1>2, <1>8
  <2>2. QED
    BY <2>1, HalfIs DEF p
<1>10. TreeOf(n, e - y, y + 1).root
         = SealNode("t", TreeOf(n, p, y + 1).root, TreeOf(n, e - (y + p), y + p + 1).root)
  <2>1. e - y \in 1..n /\ y + 1 \in 1..n /\ e - y # 1
    BY <1>1, <1>2, <1>8
  <2>2. (e - y) - p = e - (y + p) /\ (y + 1) + p = y + p + 1
    BY <1>1, <1>2, <1>8
  <2>3. TreeOf(n, e - y, y + 1).root
          = SealNode("t", TreeOf(n, p, y + 1).root, TreeOf(n, (e - y) - p, (y + 1) + p).root)
    BY <1>9, <2>1, RootIs
  <2>4. QED
    BY <2>2, <2>3
<1>11. QED
  BY <1>5, <1>6, <1>7, <1>10 DEF p

\* An odd block goes up unchanged.
LEMMA BlockAlone ==
  ASSUME NEW n \in Nat, NEW p \in Nat \ {0}, NEW c \in Nat \ {0}, (c - 1) * p < n, n <= c * p,
         NEW i \in Nat \ {0}, c = 2 * i - 1
  PROVE  Block(n, p, c) = Block(n, 2 * p, i)
<1>1. (c - 1) * p = (i - 1) * (2 * p)
  OBVIOUS
<1>2. End(n, p, c) = n
  <2>1. c * p \in Int
    OBVIOUS
  <2>2. QED
    BY <2>1 DEF End
<1>3. End(n, 2 * p, i) = n
  <2>1. i * (2 * p) = c * p + p /\ c * p \in Int
    OBVIOUS
  <2>2. i * (2 * p) > n
    BY <2>1
  <2>3. i * (2 * p) \in Int
    OBVIOUS
  <2>4. QED
    BY <2>2, <2>3 DEF End
<1>4. QED
  BY <1>1, <1>2, <1>3 DEF Block

LEMMA LevelsHalve ==
  ASSUME NEW n \in Nat, NEW k \in Nat, NEW c, NEW level, Blocks(n, Power(k), c, level)
  PROVE  Blocks(n, Power(k + 1), (c + 1) \div 2, SealLevel("t", level))
<1> DEFINE p == Power(k)
           q == (c + 1) \div 2
<1>1. /\ c \in Nat \ {0} /\ (c - 1) * p < n /\ n <= c * p /\ level = [i \in 1..c |-> Block(n, p, i)]
      /\ p \in Nat \ {0} /\ Power(k + 1) = 2 * p
  BY PowersGrow, PowerDoubles DEF Blocks
<1>2. q \in Nat \ {0} /\ (q - 1) * (2 * p) < n /\ n <= q * (2 * p)
  <2> HIDE DEF p
  <2>1. QED
    BY <1>1, HalfAsMany
<1>3. Len(level) = c
  BY <1>1
<1>4. ASSUME NEW i \in 1..q
      PROVE  (IF 2 * i > Len(level) THEN level[2 * i - 1]
              ELSE SealNode("t", level[2 * i - 1], level[2 * i])) = Block(n, 2 * p, i)
  <2>1. i \in Nat \ {0} /\ 2 * i - 1 \in 1..c /\ (2 * i <= c => 2 * i \in 1..c)
    BY <1>1
  <2>2. /\ level[2 * i - 1] = Block(n, p, 2 * i - 1)
        /\ 2 * i <= c => level[2 * i] = Block(n, p, 2 * i)
    BY <1>1, <2>1
  <2>3. CASE 2 * i > c
    <3>1. c = 2 * i - 1
      BY <1>1, <2>1, <2>3
    <3> HIDE DEF p, q
    <3>2. c \in Nat \ {0} /\ (c - 1) * p < n /\ n <= c * p /\ p \in Nat \ {0}
      BY <1>1
    <3>3. i \in Nat \ {0}
      BY <2>1
    <3>4. Block(n, p, c) = Block(n, 2 * p, i)
      BY <3>1, <3>2, <3>3, BlockAlone
    <3>5. QED
      BY <1>3, <2>2, <2>3, <3>1, <3>4
  <2>4. CASE ~(2 * i > c)
    <3>1. 2 * i <= c
      BY <1>1, <2>1, <2>4
    <3>2. SealNode("t", Block(n, p, 2 * i - 1), Block(n, p, 2 * i)) = Block(n, 2 * p, i)
      BY <1>1, <2>1, <3>1, BlocksPair
    <3>3. QED
      BY <1>3, <2>2, <2>4, <3>1, <3>2
  <2>5. QED
    BY <2>3, <2>4
<1> DEFINE next == [i \in 1..q |-> IF 2 * i > Len(level) THEN level[2 * i - 1]
                                   ELSE SealNode("t", level[2 * i - 1], level[2 * i])]
<1>5. SealLevel("t", level) = next
  BY <1>3 DEF SealLevel
<1>6. next = [i \in 1..q |-> Block(n, 2 * p, i)]
  <2> HIDE DEF q
  <2>1. QED
    BY <1>4
<1> HIDE DEF p, q, next
<1>7. QED
  BY <1>1, <1>2, <1>5, <1>6 DEF Blocks, q, p

\* Folding the levels is splitting at powers of two (seal_fold_tree).
LEMMA LevelsSplit ==
  ASSUME NEW n \in Nat \ {0}
  PROVE  SealTree("t", [i \in 1..n |-> Raw(i)]) = {TreeOf(n, n, 1).root}
<1> DEFINE leaves == [i \in 1..n |-> Raw(i)]
           Is(f) == f = [k \in 0..Len(leaves) |->
                           IF k = 0 THEN leaves ELSE SealLevel("t", f[k - 1])]
           G == CHOOSE f : Is(f)
           x == [tag |-> "t", leaves |-> leaves]
<1>1. Len(leaves) = n /\ leaves # <<>>
  <2>1. Len(leaves) = n
    OBVIOUS
  <2>2. QED
    BY <2>1
<1> HIDE DEF leaves
<1>2. SealTree("t", leaves) = {G[Len(leaves)][1]}
  BY <1>1 DEF SealTree
<1>3. Is(G)
  <2>1. PICK f : Rises("seal", x, n, f)
    BY RecursionExists
  <2>2. Is(f)
    BY <1>1, <2>1 DEF Rises, First, Step
  <2> HIDE DEF Is
  <2>3. QED
    BY <2>2
<1> HIDE DEF G
<1>4. G[0] = leaves /\ \A k \in 1..n : G[k] = SealLevel("t", G[k - 1])
  BY <1>1, <1>3
<1> HIDE DEF Is
<1> DEFINE Good(k) == \E c : Blocks(n, Power(k), c, G[k])
           B == {k \in 0..n : ~Good(k)}
<1>5. Good(0)
  <2>1. ASSUME NEW i \in 1..n PROVE Block(n, 1, i) = Raw(i)
    <3>1. End(n, 1, i) = i /\ (i - 1) * 1 = i - 1 /\ i - (i - 1) = 1 /\ (i - 1) + 1 = i
      BY DEF End
    <3>2. Block(n, 1, i) = TreeOf(n, 1, i).root
      BY <3>1 DEF Block
    <3>3. 1 \in 1..n
      OBVIOUS
    <3>4. TreeOf(n, 1, i).root = Raw(i)
      BY <3>3, RootIs
    <3>5. QED
      BY <3>2, <3>4
  <2>2. leaves = [i \in 1..n |-> Block(n, 1, i)]
    BY <2>1 DEF leaves
  <2>3. (n - 1) * 1 < n /\ n <= n * 1
    OBVIOUS
  <2>4. Blocks(n, 1, n, G[0])
    BY <1>4, <2>2, <2>3 DEF Blocks
  <2>5. QED
    BY <2>4, PowerDoubles
<1>6. ASSUME NEW k \in 1..n, Good(k - 1) PROVE Good(k)
  <2>1. PICK c : Blocks(n, Power(k - 1), c, G[k - 1])
    BY <1>6
  <2>2. k - 1 \in Nat /\ (k - 1) + 1 = k
    OBVIOUS
  <2>3. Blocks(n, Power(k), (c + 1) \div 2, G[k])
    BY <1>4, <2>1, <2>2, LevelsHalve
  <2>4. QED
    BY <2>3
<1>7. ASSUME B # {} PROVE FALSE
  <2> HIDE DEF Good
  <2>1. PICK k \in B : \A l \in B : k <= l
    <3>1. B \in SUBSET Nat
      OBVIOUS
    <3> HIDE DEF B
    <3>2. QED
      BY <1>7, <3>1, LeastNumber
  <2>2. k # 0 /\ k \in 1..n /\ k - 1 \in 0..n
    BY <1>5, <2>1
  <2>3. k - 1 \notin B
    BY <2>1, <2>2
  <2>4. QED
    BY <1>6, <2>1, <2>2, <2>3
<1>8. PICK c : Blocks(n, Power(n), c, G[n])
  BY <1>7
<1> DEFINE p == Power(n)
<1>9. p \in Nat /\ p > n
  BY PowersGrow
<1> HIDE DEF p
<1>10. c = 1 /\ G[n] = [i \in 1..1 |-> Block(n, p, i)]
  <2>1. c \in Nat \ {0} /\ (c - 1) * p < n /\ G[n] = [i \in 1..c |-> Block(n, p, i)]
    BY <1>8 DEF Blocks, p
  <2>2. c # 1 => (c - 1) * p >= p
    <3> SUFFICES ASSUME c # 1 PROVE (c - 1) * p >= p
      OBVIOUS
    <3>1. c - 2 \in Nat
      BY <2>1
    <3>2. (c - 2) * p \in Nat /\ (c - 1) * p = (c - 2) * p + p
      BY <1>9, <2>1, <3>1
    <3>3. QED
      BY <1>9, <3>2
  <2>3. (c - 1) * p \in Int
    BY <1>9, <2>1
  <2>4. QED
    BY <1>9, <2>1, <2>2, <2>3
<1>11. Block(n, p, 1) = TreeOf(n, n, 1).root
  <2>1. (1 - 1) * p = 0 /\ 1 * p = p
    BY <1>9
  <2>2. End(n, p, 1) = n
    BY <1>9, <2>1 DEF End
  <2>3. n - 0 = n /\ 0 + 1 = 1
    OBVIOUS
  <2>4. QED
    BY <2>1, <2>2, <2>3 DEF Block
<1>12. G[n][1] = TreeOf(n, n, 1).root
  BY <1>10, <1>11
<1>13. QED
  BY <1>1, <1>2, <1>12 DEF leaves

LEMMA SealsDoSpeak ==
  ASSUME NEW n \in Nat \ {0}
  PROVE  SealsSpeak(n)
<1> DEFINE whole == TreeOf(n, n, 1)
<1>1. whole = SealSplits(n)[n][1]
  BY DEF TreeOf
<1>2. SealTree("t", [i \in 1..n |-> Raw(i)]) = {whole.root}
  BY LevelsSplit
<1>3. ASSUME NEW i \in 1..n, NEW j \in 1..n
      PROVE  FoldIncl("t", Raw(j), whole.up[i]) = whole.root <=> i = j
  <2>1. n \in Nat /\ n \in 1..n /\ 1 \in 1..n /\ 1 + n - 1 <= n /\ i \in 1..(1 + n - 1)
    OBVIOUS
  <2>2. QED
    BY <2>1, WaysUpLead
<1> HIDE DEF whole
<1>4. QED
  BY <1>1, <1>2, <1>3 DEF SealsSpeak

-----------------------------------------------------------------------------
(* What is read beside a token.                                             *)

\* A Merkle proof that the Elara reader folds, of an account or of a seal's leaf, passes
\* for exactly what it was made for: in any tree, of any depth, with any number of leaves
\* (smt_fold, seal_fold_tree, seal_fold_incl and run_vector of elara_reader.py).
THEOREM ProofsSpeak == ReadingSpec => []ProofsSpeakForTheRoot
<1> DEFINE Given == input = Nothing \/ Chosen
<1>1. Start => Given
  BY DEF Start
<1>2. Given /\ [Going]_<<vars, input>> => Given'
  <2> SUFFICES ASSUME Given, [Going]_<<vars, input>> PROVE Given'
    OBVIOUS
  <2>1. input' = input
    BY DEF Going
  <2>2. QED
    BY <2>1 DEF Chosen
<1>3. Given => ProofsSpeakForTheRoot
  <2> SUFFICES ASSUME Given PROVE ProofsSpeakForTheRoot
    OBVIOUS
  <2>1. ASSUME Reads("account") PROVE AccountsSpeak(input.arg)
    <3>1. PICK op \in DOMAIN Inputs : \E arg \in Inputs[op] : input = [op |-> op, arg |-> arg]
      BY <2>1 DEF Reads, Chosen
    <3>2. op = "account" /\ input.arg \in Inputs["account"]
      BY <2>1, <3>1 DEF Reads
    <3>3. input.arg.path \in Paths /\ DOMAIN input.arg.tree \subseteq Paths
      BY <3>1, <3>2, InputsAssumption
    <3>4. QED
      BY <3>3, AccountsDoSpeak
  <2>2. ASSUME Reads("seal") PROVE SealsSpeak(input.arg)
    <3>1. PICK op \in DOMAIN Inputs : \E arg \in Inputs[op] : input = [op |-> op, arg |-> arg]
      BY <2>2 DEF Reads, Chosen
    <3>2. op = "seal" /\ input.arg \in Inputs["seal"]
      BY <2>2, <3>1 DEF Reads
    <3>3. input.arg \in Nat \ {0}
      BY <3>1, <3>2, InputsAssumption
    <3>4. QED
      BY <3>3, SealsDoSpeak
  <2>3. QED
    BY <2>1, <2>2 DEF ProofsSpeakForTheRoot
<1>4. QED
  BY <1>1, <1>2, <1>3, PTL DEF ReadingSpec
=============================================================================
