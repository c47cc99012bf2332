----------------------------- MODULE BuildProofs -----------------------------
(***************************************************************************)
(* Proofs about module Build, for any sessions, any answers of the network  *)
(* and any size bound.                                                      *)
(*                                                                          *)
(* Three invariants carry the properties.  Making is what build knows of    *)
(* each entry it has sealed (Sound) and of the pack around them (Closed),   *)
(* while it builds and of the last pack it reported.  Listing says which    *)
(* literals the context variable holds at each place and what the running   *)
(* calls put back.  Judging is what a verify in progress has found of the   *)
(* file, and of each artifact of a pack that build reported: what build had *)
(* found of it.                                                             *)
(***************************************************************************)
EXTENDS Build, FiniteSetTheorems, SequenceTheorems, WellFoundedInduction, TLAPS

Answers ==
  [error : BOOLEAN, sig : BOOLEAN, claims : BOOLEAN,
   kb : {"absent", "ok", "unknown", "bad_hash", "bad_signature"},
   read : Seq(Literal) \union {Unset}]

\* Every variable has its type; a call runs except between calls.
TypeOK ==
  /\ session \in Seq(Calls) /\ call \in Calls \union {Unset}
  /\ pc \in {"idle", "parse", "key", "check", "seal", "stamp", "nest", "verify",
             "reread", "end"}
  /\ index \in Nat \ {0}
  /\ ctx \in Seq(Literal) \union {Unset}
  /\ saved \in Seq(Seq(Literal) \union {Unset})
  /\ ev \in Packs /\ file \in Packs \union {Absent}
  /\ answers \in Seq(Answers)
  /\ pc # "idle" => call \in Calls

\* The calls that build runs in, and the places of verify.
Ordered ==
  /\ pc \in {"parse", "key", "check", "seal", "stamp"} =>
       call.cmd = "build" /\ ~BadRequest(call)
  /\ pc \in {"parse", "key", "check"} => index \in DOMAIN call.artifacts
  /\ pc = "check" =>
       key \in KeyUsed /\
       \E reply \in JwksReplies :
         key = Chosen(Here.token, Named(call.keys, Here.name),
                      Named(call.urls, Here.name), reply)
  /\ pc \in {"nest", "verify", "reread"} => call.cmd # "build" /\ file \in Packs
  /\ pc \in {"nest", "reread"} => call.cmd = "restriction"

\* The option is in force in the calls made with it, and every call in progress
\* has the value to put back.
InForce ==
  /\ Len(saved) = Depth
  /\ ctx # Unset <=> pc # "idle" /\ call.accept
  /\ Depth # 0 => saved[1] = Unset
  /\ Depth = 2 => (saved[2] # Unset <=> call.accept)

Shape == TypeOK /\ Ordered /\ InForce

-----------------------------------------------------------------------------
(* Numbers and literals.                                                   *)

\* A set of numbers has a least one.
LEMMA LeastNumber ==
  ASSUME NEW T \in SUBSET Nat, T # {}
  PROVE  \E x \in T : \A y \in T : x <= y
<1> DEFINE R == {p \in Nat \X Nat : p[1] < p[2]}
<1>1. IsWellFoundedOn(R, Nat)
  BY NatLessThanWellFounded DEF OpToRel
<1>2. \A x, y \in Nat : y < x => <<y, x>> \in R
  OBVIOUS
<1> HIDE DEF R
<1>3. PICK x \in T : \A y \in T : ~(<<y, x>> \in R)
  BY <1>1, WFMin
<1>4. ASSUME NEW y \in T PROVE x <= y
  <2>1. ~(y < x)
    BY <1>2, <1>3
  <2>2. QED
    BY <2>1
<1>5. QED
  BY <1>4

\* Literals that can be read: none without the option, integral ones with it.
Readable(read, literals) ==
  /\ read = Unset => literals = <<>>
  /\ \A i \in DOMAIN literals : literals[i].integral

\* Reading goes as far as the literals are integral: what is read is a first
\* part of them, and it ends well when it is all of them.
LEMMA ReadingIs ==
  ASSUME NEW read \in Seq(Literal) \union {Unset}, NEW literals \in Seq(Literal)
  PROVE  /\ Reading(read, literals).ok <=> Readable(read, literals)
         /\ read = Unset => Reading(read, literals).read = Unset
         /\ read # Unset =>
              \E p, q \in Seq(Literal) :
                /\ literals = p \o q /\ Reading(read, literals).read = read \o p
                /\ Reading(read, literals).ok => q = <<>>
<1>1. CASE read = Unset
  <2>1. literals = <<>> => DOMAIN literals = {}
    OBVIOUS
  <2>2. QED
    BY <1>1, <2>1 DEF Reading, Readable
<1>2. CASE read # Unset
  <2> DEFINE N == Len(literals)
             Bad == {i \in 1..N : ~literals[i].integral}
             Longest(n) == n \in Integral(literals) /\
                           \A m \in Integral(literals) : m <= n
             n == CHOOSE k \in Integral(literals) : \A m \in Integral(literals) : m <= k
  <2>0. N \in Nat /\ DOMAIN literals = 1..N
    BY LenProperties
  <2>1. \E k : Longest(k)
    <3>1. CASE Bad = {}
      BY <2>0, <3>1 DEF Integral
    <3>2. CASE Bad # {}
      <4>1. Bad \in SUBSET Nat
        BY <2>0
      <4>2. PICK b \in Bad : \A c \in Bad : b <= c
        BY <3>2, <4>1, LeastNumber
      <4>3. b \in 1..N /\ ~literals[b].integral
        BY <4>2
      <4>4. \A i \in 1..(b - 1) : i \in 1..N /\ literals[i].integral
        <5>1. ASSUME NEW i \in 1..(b - 1) PROVE i \in 1..N /\ i \notin Bad
          BY <2>0, <4>2, <4>3
        <5>2. QED
          BY <5>1
      <4>5. b - 1 \in Integral(literals)
        BY <2>0, <4>3, <4>4 DEF Integral
      <4>6. \A m \in Integral(literals) : m <= b - 1
        BY <2>0, <4>3 DEF Integral
      <4>7. QED
        BY <4>5, <4>6
    <3>3. QED
      BY <3>1, <3>2
  <2>2. Longest(n)
    BY <2>1
  <2>3. n \in 0..N /\ \A i \in 1..n : literals[i].integral
    BY <2>2 DEF Integral
  <2>4. n = N <=> \A i \in DOMAIN literals : literals[i].integral
    BY <2>0, <2>2, <2>3 DEF Integral
  <2> DEFINE p == SubSeq(literals, 1, n)
             q == SubSeq(literals, n + 1, N)
  <2>5. /\ Reading(read, literals).ok <=> n = N
        /\ Reading(read, literals).read = read \o p
    BY <1>2 DEF Reading
  <2> HIDE DEF n
  <2>6. literals = p \o q
    <3>1. 1 \in 1..N+1 /\ n \in 0..N /\ N \in n..N
      BY <2>0, <2>3
    <3>2. p \o q = SubSeq(literals, 1, N)
      BY <3>1, ConcatAdjacentSubSeq, 1 - 1 = 0
    <3>3. QED
      BY <3>2, SubSeqFull
  <2>7. p \in Seq(Literal) /\ q \in Seq(Literal)
    BY <2>0, <2>3, SubSeqProperties, ElementOfSeq
  <2>8. n = N => q = <<>>
    BY <2>0, SubSeqEmpty
  <2> HIDE DEF p, q
  <2>9. QED
    BY <1>2, <2>4, <2>5, <2>6, <2>7, <2>8 DEF Readable
<1>3. QED
  BY <1>1, <1>2

\* Two lists are readable one after the other exactly when they are as one.
LEMMA ReadableConcat ==
  ASSUME NEW read, NEW a \in Seq(Literal), NEW b \in Seq(Literal)
  PROVE  Readable(read, a \o b) <=> Readable(read, a) /\ Readable(read, b)
<1>1. a \o b = <<>> <=> a = <<>> /\ b = <<>>
  BY ConcatEqualIffEmpty
<1>2. (\A i \in DOMAIN (a \o b) : (a \o b)[i].integral) <=>
        (\A i \in DOMAIN a : a[i].integral) /\ (\A i \in DOMAIN b : b[i].integral)
  <2>0. /\ Len(a) \in Nat /\ Len(b) \in Nat /\ DOMAIN a = 1..Len(a) /\ DOMAIN b = 1..Len(b)
        /\ DOMAIN (a \o b) = 1..(Len(a) + Len(b))
        /\ \A i \in 1..(Len(a) + Len(b)) :
             (a \o b)[i] = IF i <= Len(a) THEN a[i] ELSE b[i - Len(a)]
    BY LenProperties, ConcatProperties
  <2>1. \A i \in 1..Len(a) : i \in 1..(Len(a) + Len(b)) /\ (a \o b)[i] = a[i]
    BY <2>0
  <2>2. \A i \in 1..Len(b) : /\ i + Len(a) \in 1..(Len(a) + Len(b))
                             /\ (a \o b)[i + Len(a)] = b[i]
    BY <2>0
  <2>3. \A i \in 1..(Len(a) + Len(b)) :
          \/ i \in 1..Len(a) /\ (a \o b)[i] = a[i]
          \/ i - Len(a) \in 1..Len(b) /\ (a \o b)[i] = b[i - Len(a)]
    BY <2>0
  <2>4. QED
    BY <2>0, <2>1, <2>2, <2>3
<1>3. QED
  BY <1>1, <1>2 DEF Readable

\* Lists of literals are added up in any order of brackets.
LEMMA Brackets ==
  ASSUME NEW a \in Seq(Literal), NEW b \in Seq(Literal), NEW c \in Seq(Literal)
  PROVE  (a \o b) \o c = a \o (b \o c)
BY ConcatAssociative

LEMMA Lists ==
  ASSUME NEW a \in Seq(Literal), NEW b \in Seq(Literal)
  PROVE  /\ <<>> \in Seq(Literal) /\ a \o <<>> = a /\ <<>> \o a = a
         /\ a \o b \in Seq(Literal)
         /\ a \o b = <<>> <=> a = <<>> /\ b = <<>>
BY EmptySeq, ConcatEmptySeq, ConcatProperties, ConcatEqualIffEmpty

\* The first part of a list.
LEMMA HeadIs ==
  ASSUME NEW a \in Seq(Literal), NEW b \in Seq(Literal)
  PROVE  Len(a) <= Len(a \o b) /\ SubSeq(a \o b, 1, Len(a)) = a
<1> DEFINE s == SubSeq(a \o b, 1, Len(a))
<1>1. /\ Len(a) \in Nat /\ Len(b) \in Nat /\ Len(a \o b) = Len(a) + Len(b)
      /\ \A i \in 1..(Len(a) + Len(b)) :
           (a \o b)[i] = IF i <= Len(a) THEN a[i] ELSE b[i - Len(a)]
  BY LenProperties, ConcatProperties
<1>2. \A i \in 1..Len(a) : (a \o b)[i] = a[i] /\ (a \o b)[i] \in Literal
  BY <1>1, ElementOfSeq
<1>3. /\ s \in Seq(Literal)
      /\ Len(s) = IF 1 <= Len(a) THEN Len(a) - 1 + 1 ELSE 0
      /\ \A i \in 1..(Len(a) - 1 + 1) : s[i] = (a \o b)[1 + i - 1]
  BY <1>1, <1>2, SubSeqProperties
<1> HIDE DEF s
<1>4. Len(s) = Len(a)
  BY <1>1, <1>3
<1>5. ASSUME NEW i \in 1..Len(a) PROVE s[i] = a[i]
  <2>1. i \in 1..(Len(a) - 1 + 1) /\ 1 + i - 1 = i
    BY <1>1
  <2>2. QED
    BY <1>2, <1>3, <2>1
<1>6. s = a
  BY <1>3, <1>4, <1>5, SeqEqual
<1>7. QED
  BY <1>1, <1>6 DEF s

\* What follows a first part of a list.
LEMMA TailIs ==
  ASSUME NEW a \in Seq(Literal), NEW b \in Seq(Literal)
  PROVE  SubSeq(a \o b, Len(a) + 1, Len(a \o b)) = b
<1> DEFINE s == SubSeq(a \o b, Len(a) + 1, Len(a \o b))
<1>1. /\ Len(a) \in Nat /\ Len(b) \in Nat /\ Len(a \o b) = Len(a) + Len(b)
      /\ a \o b \in Seq(Literal)
      /\ \A i \in 1..(Len(a) + Len(b)) :
           (a \o b)[i] = IF i <= Len(a) THEN a[i] ELSE b[i - Len(a)]
  BY LenProperties, ConcatProperties
<1>2. \A i \in (Len(a) + 1)..(Len(a) + Len(b)) : (a \o b)[i] \in Literal
  BY <1>1, ElementOfSeq
<1>3. /\ s \in Seq(Literal)
      /\ Len(s) = IF Len(a) + 1 <= Len(a) + Len(b)
                    THEN Len(a) + Len(b) - (Len(a) + 1) + 1 ELSE 0
      /\ \A i \in 1..(Len(a) + Len(b) - (Len(a) + 1) + 1) :
           s[i] = (a \o b)[(Len(a) + 1) + i - 1]
  BY <1>1, <1>2, SubSeqProperties
<1> HIDE DEF s
<1>4. Len(s) = Len(b)
  BY <1>1, <1>3
<1>5. ASSUME NEW i \in 1..Len(b) PROVE s[i] = b[i]
  <2>1. /\ i \in 1..(Len(a) + Len(b) - (Len(a) + 1) + 1)
        /\ (Len(a) + 1) + i - 1 = Len(a) + i
        /\ Len(a) + i \in 1..(Len(a) + Len(b)) /\ ~(Len(a) + i <= Len(a))
        /\ (Len(a) + i) - Len(a) = i
    BY <1>1
  <2>2. s[i] = (a \o b)[Len(a) + i]
    BY <1>3, <2>1
  <2>3. (a \o b)[Len(a) + i] = b[(Len(a) + i) - Len(a)]
    BY <1>1, <2>1
  <2>4. QED
    BY <2>1, <2>2, <2>3
<1>6. s = b
  BY <1>3, <1>4, <1>5, SeqEqual
<1>7. QED
  BY <1>6 DEF s

\* What is read of a token after its header and payload.
Rest(t) == t.disclosed \o (IF t.kb = Absent THEN <<>> ELSE t.kb.literals)

LEMMA LiteralsAre ==
  ASSUME NEW t \in Tokens
  PROVE  /\ t.jwt \in Seq(Literal) /\ Rest(t) \in Seq(Literal)
         /\ Literals(t) \in Seq(Literal)
         /\ Literals(t) = t.jwt \o Rest(t)
<1> DEFINE k == IF t.kb = Absent THEN <<>> ELSE t.kb.literals
<1>1. t.jwt \in Seq(Literal) /\ t.disclosed \in Seq(Literal) /\ k \in Seq(Literal)
  BY TokensAssumption, EmptySeq
<1>2. Literals(t) = (t.jwt \o t.disclosed) \o k /\ Rest(t) = t.disclosed \o k
  BY DEF Literals, Rest
<1> HIDE DEF k
<1> DEFINE a == t.jwt
           b == t.disclosed
<1>a. a \in Seq(Literal) /\ b \in Seq(Literal)
  BY <1>1
<1> HIDE DEF a, b
<1>3. (a \o b) \o k = a \o (b \o k)
  BY <1>1, <1>a, Brackets, SMTT(30)
<1> USE DEF a, b
<1>4. Rest(t) \in Seq(Literal)
  BY <1>1, <1>2, Lists
<1>5. t.jwt \o Rest(t) \in Seq(Literal)
  BY <1>1, <1>4, Lists
<1>6. QED
  BY <1>1, <1>2, <1>3, <1>4, <1>5

\* The checks after the header and payload end with the state of the KB-JWT, if
\* the key is one, the disclosures resolve, nothing stands between and what is
\* left to read can be read; what they read is a first part of it.
LEMMA CheckingIs ==
  ASSUME NEW read \in Seq(Literal) \union {Unset}, NEW t \in Tokens, NEW jwk,
         NEW after \in BOOLEAN
  PROVE  /\ Checking(read, t, jwk, after).kb =
              IF /\ jwk \in Keys /\ t.resolves /\ after
                 /\ Readable(read, Rest(t))
                THEN KbState(t) ELSE "error"
         /\ read = Unset => Checking(read, t, jwk, after).read = Unset
         /\ read # Unset =>
              \E p, q \in Seq(Literal) :
                /\ Rest(t) = p \o q
                /\ Checking(read, t, jwk, after).read = read \o p
                /\ Checking(read, t, jwk, after).kb # "error" => q = <<>>
<1> DEFINE ds == t.disclosed
           ks == IF t.kb = Absent THEN <<>> ELSE t.kb.literals
           d == Reading(read, ds)
           k == IF t.kb = Absent THEN [ok |-> TRUE, read |-> d.read]
                ELSE Reading(d.read, t.kb.literals)
           C == Checking(read, t, jwk, after)
<1>0. ds \in Seq(Literal) /\ ks \in Seq(Literal) /\ Rest(t) = ds \o ks
  BY TokensAssumption, EmptySeq DEF Rest
<1>s. ds \in Seq(Literal) /\ ks \in Seq(Literal)
  BY <1>0
<1>r. \A p \in Seq(Literal) : read # Unset => read \o p \in Seq(Literal) /\ read \o p # Unset
  BY ConcatProperties, AbsentAssumption
<1>1. /\ d.ok <=> Readable(read, ds)
      /\ read = Unset => d.read = Unset
      /\ read # Unset =>
           \E p, q \in Seq(Literal) :
             ds = p \o q /\ d.read = read \o p /\ (d.ok => q = <<>>)
  BY <1>0, ReadingIs
<1>2. d.read \in Seq(Literal) \union {Unset} /\ (d.read = Unset <=> read = Unset)
  BY <1>1, <1>r
<1>3. /\ k.ok <=> Readable(d.read, ks)
      /\ read = Unset => k.read = Unset
      /\ read # Unset =>
           \E p, q \in Seq(Literal) :
             ks = p \o q /\ k.read = d.read \o p /\ (k.ok => q = <<>>)
  <2>1. CASE t.kb = Absent
    <3>1. k.ok /\ k.read = d.read /\ ks = <<>> /\ DOMAIN ks = {}
      BY <2>1
    <3>2. d.read # Unset => k.read = d.read \o <<>>
      BY <1>2, <3>1, ConcatEmptySeq
    <3>3. <<>> \o <<>> = <<>> /\ <<>> \in Seq(Literal)
      BY EmptySeq, ConcatEmptySeq
    <3>4. QED
      BY <1>1, <1>2, <3>1, <3>2, <3>3 DEF Readable
  <2>2. CASE t.kb # Absent
    <3>1. k = Reading(d.read, ks) /\ ks = t.kb.literals
      BY <2>2
    <3> HIDE DEF d, k, ks
    <3>2. d.read \in Seq(Literal) \union {Unset} /\ ks \in Seq(Literal)
      BY <1>s, <1>2
    <3>3. /\ Reading(d.read, ks).ok <=> Readable(d.read, ks)
          /\ d.read = Unset => Reading(d.read, ks).read = Unset
          /\ d.read # Unset =>
               \E p, q \in Seq(Literal) :
                 /\ ks = p \o q /\ Reading(d.read, ks).read = d.read \o p
                 /\ Reading(d.read, ks).ok => q = <<>>
      BY <3>2, ReadingIs
    <3>4. QED
      BY <1>2, <3>1, <3>3
  <2>3. QED
    BY <2>1, <2>2
<1> HIDE DEF d, k, ds, ks
<1>4. Readable(read, Rest(t)) <=> d.ok /\ k.ok
  <2>1. Readable(d.read, ks) <=> Readable(read, ks)
    BY <1>2 DEF Readable
  <2>2. Readable(read, Rest(t)) <=> Readable(read, ds) /\ Readable(read, ks)
    <3>1. Readable(read, ds \o ks) <=> Readable(read, ds) /\ Readable(read, ks)
      BY <1>s, ReadableConcat
    <3>2. QED
      BY <1>0, <3>1
  <2>3. QED
    BY <1>1, <1>3, <2>1, <2>2
<1>5. C = IF jwk \notin Keys THEN [read |-> read, kb |-> "error"]
          ELSE IF ~d.ok \/ ~t.resolves \/ ~after THEN [read |-> d.read, kb |-> "error"]
          ELSE IF ~k.ok THEN [read |-> k.read, kb |-> "error"]
          ELSE [read |-> k.read, kb |-> KbState(t)]
  BY DEF Checking, d, k, ds
<1> HIDE DEF C
<1>6. C.kb = IF /\ jwk \in Keys /\ t.resolves /\ after /\ Readable(read, Rest(t))
               THEN KbState(t) ELSE "error"
  BY <1>4, <1>5
<1>7. read = Unset => C.read = Unset
  BY <1>1, <1>3, <1>5
<1>8. ASSUME read # Unset
      PROVE  \E p, q \in Seq(Literal) :
               Rest(t) = p \o q /\ C.read = read \o p /\ (C.kb # "error" => q = <<>>)
  <2>1. PICK p1, q1 \in Seq(Literal) :
          ds = p1 \o q1 /\ d.read = read \o p1 /\ (d.ok => q1 = <<>>)
    BY <1>1, <1>8
  <2>2. PICK p2, q2 \in Seq(Literal) :
          ks = p2 \o q2 /\ k.read = d.read \o p2 /\ (k.ok => q2 = <<>>)
    BY <1>3, <1>8
  <2>e. <<>> \in Seq(Literal) /\ Rest(t) \in Seq(Literal) /\ Rest(t) = <<>> \o Rest(t)
        /\ read = read \o <<>>
    BY <1>0, <1>8, EmptySeq, ConcatEmptySeq, ConcatProperties
  <2>3. CASE jwk \notin Keys
    BY <1>5, <2>3, <2>e
  <2>4. CASE jwk \in Keys /\ (~d.ok \/ ~t.resolves \/ ~after)
    <3>1. C.read = read \o p1 /\ C.kb = "error"
      BY <1>5, <2>1, <2>4
    <3>2. (p1 \o q1) \o ks = p1 \o (q1 \o ks) /\ q1 \o ks \in Seq(Literal)
      <4>1. ks \in Seq(Literal)
        BY <1>s
      <4>2. (p1 \o q1) \o ks = p1 \o (q1 \o ks)
        BY <4>1, Brackets, SMTT(30)
      <4>3. q1 \o ks \in Seq(Literal)
        BY <4>1, Lists
      <4>4. QED
        BY <4>2, <4>3
    <3>3. QED
      BY <1>0, <2>1, <3>1, <3>2
  <2>5. CASE jwk \in Keys /\ d.ok /\ t.resolves /\ after
    <3>1. C.read = (read \o p1) \o p2 /\ ds = p1 \o <<>> /\ (C.kb # "error" => q2 = <<>>)
      BY <1>5, <2>1, <2>2, <2>5
    <3>2. ds = p1
      BY <3>1, ConcatEmptySeq
    <3>3. Rest(t) = (p1 \o p2) \o q2
      <4>1. (p1 \o p2) \o q2 = p1 \o (p2 \o q2)
        BY Brackets, SMTT(30)
      <4>2. QED
        BY <1>0, <2>2, <3>2, <4>1
    <3>4. C.read = read \o (p1 \o p2)
      <4>1. read \in Seq(Literal)
        BY <1>8
      <4>2. (read \o p1) \o p2 = read \o (p1 \o p2)
        BY <4>1, Brackets
      <4>3. QED
        BY <3>1, <4>2
    <3>5. p1 \o p2 \in Seq(Literal)
      BY Lists
    <3>6. QED
      BY <3>1, <3>3, <3>4, <3>5
  <2>6. QED
    BY <2>3, <2>4, <2>5
<1>9. QED
  BY <1>6, <1>7, <1>8 DEF C

-----------------------------------------------------------------------------
(* The literals of a whole pack.                                           *)

\* f adds up the literals of the first n entries.
Adds(es, n, f) ==
  f = [m \in 0..n |-> IF m = 0 THEN <<>> ELSE f[m - 1] \o Literals(es[m].token)]

LEMMA Added ==
  ASSUME NEW es, NEW n \in Nat, NEW f, Adds(es, n, f)
  PROVE  /\ DOMAIN f = 0..n /\ f[0] = <<>>
         /\ \A m \in 1..n : f[m] = f[m - 1] \o Literals(es[m].token)
<1> DEFINE g == [m \in 0..n |-> IF m = 0 THEN <<>> ELSE f[m - 1] \o Literals(es[m].token)]
<1>1. f = g
  BY DEF Adds
<1>2. DOMAIN g = 0..n /\ g[0] = <<>>
  OBVIOUS
<1>3. ASSUME NEW m \in 1..n PROVE g[m] = f[m - 1] \o Literals(es[m].token)
  <2>1. m \in 0..n /\ m # 0
    OBVIOUS
  <2>2. QED
    BY <2>1
<1> HIDE DEF g
<1>4. QED
  BY <1>1, <1>2, <1>3

LEMMA AddsExists ==
  ASSUME NEW es, NEW N \in Nat
  PROVE  \E f : Adds(es, N, f)
<1> DEFINE Bad == {n \in Nat : ~\E f : Adds(es, n, f)}
<1>1. SUFFICES Bad = {}
  OBVIOUS
<1>2. SUFFICES ASSUME Bad # {} PROVE FALSE
  OBVIOUS
<1>3. PICK n \in Bad : \A m \in Bad : n <= m
  BY <1>2, LeastNumber
<1>4. n \in Nat /\ ~\E f : Adds(es, n, f)
  BY <1>3
<1>5. n # 0
  <2> DEFINE f0 == [m \in 0..0 |-> <<>>]
  <2>1. \A m \in 0..0 : m = 0
    OBVIOUS
  <2>2. Adds(es, 0, f0)
    BY <2>1 DEF Adds
  <2>3. QED
    BY <1>4, <2>2
<1>6. n - 1 \in Nat /\ n - 1 \notin Bad
  <2>1. n - 1 \in Nat /\ ~(n <= n - 1)
    BY <1>4, <1>5
  <2>2. QED
    BY <1>3, <2>1
<1>7. PICK f : Adds(es, n - 1, f)
  BY <1>6
<1> DEFINE g == [m \in 0..n |-> IF m = n THEN f[n - 1] \o Literals(es[n].token) ELSE f[m]]
<1>8. /\ DOMAIN f = 0..(n - 1) /\ f[0] = <<>>
      /\ \A m \in 1..(n - 1) : f[m] = f[m - 1] \o Literals(es[m].token)
  BY <1>6, <1>7, Added
<1>9. ASSUME NEW m \in 0..n
      PROVE  g[m] = IF m = 0 THEN <<>> ELSE g[m - 1] \o Literals(es[m].token)
  <2>1. CASE m = 0
    BY <1>4, <1>5, <1>8, <2>1
  <2>2. CASE m = n
    <3>1. g[m] = f[n - 1] \o Literals(es[n].token)
      BY <2>2
    <3>2. g[n - 1] = f[n - 1]
      BY <1>4, <1>6
    <3> HIDE DEF g
    <3>3. QED
      BY <1>5, <2>2, <3>1, <3>2
  <2>3. CASE m # 0 /\ m # n
    <3>1. m \in 1..(n - 1) /\ m - 1 \in 0..n /\ m - 1 # n
      BY <1>4, <2>3
    <3>2. g[m] = f[m] /\ g[m - 1] = f[m - 1]
      BY <2>3, <3>1
    <3> HIDE DEF g
    <3>3. QED
      BY <1>8, <2>3, <3>1, <3>2
  <2>4. QED
    BY <2>1, <2>2, <2>3
<1>10. Adds(es, n, g)
  <2>1. g = [m \in 0..n |-> g[m]]
    OBVIOUS
  <2> HIDE DEF g
  <2>2. [m \in 0..n |-> g[m]] =
          [m \in 0..n |-> IF m = 0 THEN <<>> ELSE g[m - 1] \o Literals(es[m].token)]
    BY <1>9
  <2>3. QED
    BY <2>1, <2>2 DEF Adds
<1>11. QED
  BY <1>4, <1>10

\* What is added up over a whole pack.
LEMMA AllLiteralsAdds ==
  ASSUME NEW es, Len(es) \in Nat
  PROVE  \E f : Adds(es, Len(es), f) /\ AllLiterals(es) = f[Len(es)]
<1> DEFINE all[n \in 0..Len(es)] ==
             IF n = 0 THEN <<>> ELSE all[n - 1] \o Literals(es[n].token)
<1>1. AllLiterals(es) = all[Len(es)]
  BY DEF AllLiterals
<1>2. \E f : Adds(es, Len(es), f)
  BY AddsExists
<1>3. \E f : f = [n \in 0..Len(es) |-> IF n = 0 THEN <<>> ELSE f[n - 1] \o Literals(es[n].token)]
  BY <1>2 DEF Adds
<1>4. all = CHOOSE f : f = [n \in 0..Len(es) |-> IF n = 0 THEN <<>> ELSE f[n - 1] \o Literals(es[n].token)]
  BY DEF all
<1> HIDE DEF all
<1>5. Adds(es, Len(es), all)
  BY <1>3, <1>4 DEF Adds
<1>6. QED
  BY <1>1, <1>5

\* Where two packs have the same entries, the same is added up.
LEMMA AddsAgree ==
  ASSUME NEW es, NEW fs, NEW n \in Nat, NEW N \in Nat, n <= N, NEW f, NEW g,
         Adds(es, n, f), Adds(fs, N, g), \A i \in 1..n : es[i] = fs[i]
  PROVE  \A m \in 0..n : f[m] = g[m]
<1> DEFINE Bad == {m \in 0..n : f[m] # g[m]}
<1>1. SUFFICES ASSUME Bad # {} PROVE FALSE
  OBVIOUS
<1>2. Bad \in SUBSET Nat
  OBVIOUS
<1>3. PICK m \in Bad : \A k \in Bad : m <= k
  BY <1>1, <1>2, LeastNumber
<1>4. m \in 0..n /\ f[m] # g[m]
  BY <1>3
<1>5. f[0] = <<>> /\ \A k \in 1..n : f[k] = f[k - 1] \o Literals(es[k].token)
  BY Added
<1>6. g[0] = <<>> /\ \A k \in 1..N : g[k] = g[k - 1] \o Literals(fs[k].token)
  BY Added
<1>7. m # 0
  BY <1>4, <1>5, <1>6
<1>8. m \in 1..n /\ m \in 1..N /\ m - 1 \in 0..n /\ ~(m <= m - 1)
  BY <1>4, <1>7
<1>9. f[m - 1] = g[m - 1]
  <2>1. m - 1 \notin Bad
    BY <1>3, <1>8
  <2>2. QED
    BY <1>8, <2>1
<1>10. es[m] = fs[m]
  BY <1>8
<1>11. f[m] = g[m]
  BY <1>5, <1>6, <1>8, <1>9, <1>10
<1>12. QED
  BY <1>4, <1>11

\* What is added up is a list of literals, empty when every part of it is.
LEMMA AddsLists ==
  ASSUME NEW es \in Seq(Entries), NEW f, Adds(es, Len(es), f)
  PROVE  \A m \in 0..Len(es) :
           /\ f[m] \in Seq(Literal)
           /\ f[m] = <<>> <=> \A i \in 1..m : Literals(es[i].token) = <<>>
<1> DEFINE Holds(m) == /\ f[m] \in Seq(Literal)
                       /\ f[m] = <<>> <=> \A i \in 1..m : Literals(es[i].token) = <<>>
           Bad == {m \in 0..Len(es) : ~Holds(m)}
<1>0. Len(es) \in Nat
  BY LenProperties
<1>1. SUFFICES ASSUME Bad # {} PROVE FALSE
  OBVIOUS
<1>2. Bad \in SUBSET Nat
  BY <1>0
<1>3. PICK m \in Bad : \A k \in Bad : m <= k
  BY <1>1, <1>2, LeastNumber
<1>4. m \in 0..Len(es) /\ ~Holds(m)
  BY <1>3
<1>5. f[0] = <<>> /\ \A k \in 1..Len(es) : f[k] = f[k - 1] \o Literals(es[k].token)
  BY <1>0, Added
<1>6. Holds(0)
  BY <1>5, EmptySeq
<1>7. m \in 1..Len(es) /\ m - 1 \in 0..Len(es) /\ ~(m <= m - 1)
  BY <1>0, <1>4, <1>6
<1>8. Holds(m - 1)
  <2>1. m - 1 \notin Bad
    BY <1>3, <1>7
  <2>2. QED
    BY <1>7, <2>1
<1>9. Literals(es[m].token) \in Seq(Literal)
  <2>1. es[m] \in Entries
    BY <1>7, ElementOfSeq
  <2>2. es[m].token \in Tokens
    BY <2>1 DEF Entries
  <2>3. QED
    BY <2>2, LiteralsAre
<1>10. f[m] = f[m - 1] \o Literals(es[m].token)
  BY <1>5, <1>7
<1>11. f[m] \in Seq(Literal)
  BY <1>8, <1>9, <1>10, Lists
<1>12. f[m] = <<>> <=> f[m - 1] = <<>> /\ Literals(es[m].token) = <<>>
  BY <1>8, <1>9, <1>10, Lists
<1>13. \A i : i \in 1..m <=> i \in 1..(m - 1) \/ i = m
  BY <1>7
<1>14. Holds(m)
  BY <1>8, <1>11, <1>12, <1>13
<1>15. QED
  BY <1>4, <1>14

\* No entry, no literals; an entry more, its literals more; nothing read when no
\* entry has anything to read.
LEMMA AllLiteralsAre ==
  /\ AllLiterals(<<>>) = <<>>
  /\ \A es \in Seq(Entries), e \in Entries :
       AllLiterals(Append(es, e)) = AllLiterals(es) \o Literals(e.token)
  /\ \A es \in Seq(Entries) :
       /\ AllLiterals(es) \in Seq(Literal)
       /\ AllLiterals(es) = <<>> <=>
            \A i \in DOMAIN es : Literals(es[i].token) = <<>>
<1>1. AllLiterals(<<>>) = <<>>
  <2> DEFINE es == <<>>
  <2>1. Len(es) = 0
    BY EmptySeq
  <2>2. PICK f : Adds(es, 0, f) /\ AllLiterals(es) = f[0]
    BY <2>1, AllLiteralsAdds
  <2>3. f[0] = <<>>
    BY <2>2, Added
  <2>4. QED
    BY <2>2, <2>3
<1>2. ASSUME NEW es \in Seq(Entries), NEW e \in Entries
      PROVE  AllLiterals(Append(es, e)) = AllLiterals(es) \o Literals(e.token)
  <2> DEFINE fs == Append(es, e)
             n == Len(es)
  <2>1. /\ n \in Nat /\ Len(fs) = n + 1 /\ fs[n + 1] = e
        /\ \A i \in 1..n : fs[i] = es[i]
    BY LenProperties, AppendProperties
  <2> HIDE DEF fs, n
  <2>2. PICK f : Adds(es, n, f) /\ AllLiterals(es) = f[n]
    BY <2>1, AllLiteralsAdds DEF n
  <2>3. PICK g : Adds(fs, n + 1, g) /\ AllLiterals(fs) = g[n + 1]
    BY <2>1, AllLiteralsAdds
  <2>4. f[n] = g[n]
    <3>1. n <= n + 1 /\ n + 1 \in Nat /\ n \in 0..n
      BY <2>1
    <3>2. \A i \in 1..n : es[i] = fs[i]
      BY <2>1
    <3>3. QED
      BY <2>1, <2>2, <2>3, <3>1, <3>2, AddsAgree
  <2>5. g[n + 1] = g[n] \o Literals(fs[n + 1].token)
    <3>1. n + 1 \in 1..(n + 1) /\ (n + 1) - 1 = n /\ n + 1 \in Nat
      BY <2>1
    <3>2. g[n + 1] = g[(n + 1) - 1] \o Literals(fs[n + 1].token)
      BY <2>3, <3>1, Added
    <3>3. QED
      BY <3>1, <3>2
  <2>6. QED
    BY <2>1, <2>2, <2>3, <2>4, <2>5 DEF fs
<1>3. ASSUME NEW es \in Seq(Entries)
      PROVE  /\ AllLiterals(es) \in Seq(Literal)
             /\ AllLiterals(es) = <<>> <=>
                  \A i \in DOMAIN es : Literals(es[i].token) = <<>>
  <2>1. Len(es) \in Nat /\ DOMAIN es = 1..Len(es) /\ Len(es) \in 0..Len(es)
    BY LenProperties
  <2>2. PICK f : Adds(es, Len(es), f) /\ AllLiterals(es) = f[Len(es)]
    BY <2>1, AllLiteralsAdds
  <2>3. QED
    BY <2>1, <2>2, AddsLists
<1>4. QED
  BY <1>1, <1>2, <1>3

-----------------------------------------------------------------------------
(* The key.                                                                *)

\* A reply of a URL that a key is taken from names it alone.
NamesAlone(r, h, jwk) ==
  /\ r.outcome = "keys"
  /\ \E j \in DOMAIN r.keys :
       /\ r.keys[j].jwk = jwk
       /\ \A k \in DOMAIN r.keys \ {j} :
            Usable(r.keys[k]) => h.kid # Absent /\ r.keys[k].kid # h.kid

LEMMA FetchedIs ==
  ASSUME NEW h, NEW r \in JwksReplies, Fetched(h.kid, r) # Refused
  PROVE  /\ Fetched(h.kid, r).jwk \in Jwks /\ Fetched(h.kid, r).class = "jwks_fetched"
         /\ NamesAlone(r, h, Fetched(h.kid, r).jwk)
<1> DEFINE C == Candidates(h.kid, r.keys)
           i == CHOOSE j \in C : TRUE
<1>1. r.outcome = "keys" /\ Cardinality(C) = 1
  BY DEF Fetched
<1>2. Fetched(h.kid, r) = [jwk |-> r.keys[i].jwk, class |-> "jwks_fetched"]
  BY DEF Fetched
<1>3. r.keys \in Seq({r.keys[k] : k \in DOMAIN r.keys})
  BY <1>1, RepliesAssumption
<1>4. IsFiniteSet(C)
  <2>1. DOMAIN r.keys = 1..Len(r.keys) /\ Len(r.keys) \in Nat
    BY <1>3, LenProperties
  <2>2. IsFiniteSet(DOMAIN r.keys)
    <3>1. 1 \in Int /\ Len(r.keys) \in Int
      BY <2>1
    <3>2. IsFiniteSet(1..Len(r.keys))
      BY <3>1, FS_Interval
    <3>3. QED
      BY <2>1, <3>2
  <2>3. C \subseteq DOMAIN r.keys
    BY DEF Candidates
  <2>4. QED
    BY <2>2, <2>3, FS_Subset
<1>5. \E x : C = {x}
  BY <1>1, <1>4, FS_Singleton
<1>6. C = {i}
  BY <1>5
<1>7. i \in DOMAIN r.keys /\ Usable(r.keys[i])
  BY <1>6 DEF Candidates
<1>8. \A k \in DOMAIN r.keys \ {i} :
        Usable(r.keys[k]) => h.kid # Absent /\ r.keys[k].kid # h.kid
  BY <1>6 DEF Candidates
<1>9. r.keys[i].jwk \in Jwks
  BY <1>1, <1>7, RepliesAssumption
<1> HIDE DEF i
<1>10. QED
  BY <1>1, <1>2, <1>7, <1>8, <1>9 DEF NamesAlone

\* The key chosen for an artifact of a call that is not refused: the caller's, or
\* the only one of the set at the caller's URL, or the header's.
LEMMA ChosenIs ==
  ASSUME NEW c \in Calls, ~BadRequest(c), NEW i \in DOMAIN c.artifacts,
         NEW reply \in JwksReplies, NEW k,
         k = Chosen(c.artifacts[i].token, Named(c.keys, c.artifacts[i].name),
                    Named(c.urls, c.artifacts[i].name), reply),
         k # Refused
  PROVE  /\ k \in KeyUsed
         /\ ProvenanceHolds(c.artifacts[i].token, k)
         /\ c.artifacts[i].name \in DOMAIN c.keys =>
              k.jwk = c.keys[c.artifacts[i].name]
         /\ c.artifacts[i].name \in DOMAIN c.urls =>
              NamesAlone(reply, c.artifacts[i].token, k.jwk)
<1> DEFINE h == c.artifacts[i].token
           n == c.artifacts[i].name
<1> HIDE DEF h, n
<1>1. /\ n \in DOMAIN c.keys => c.keys[n] \in Jwks
      /\ n \in DOMAIN c.urls => c.urls[n] = "https"
      /\ ~(n \in DOMAIN c.keys /\ n \in DOMAIN c.urls)
  BY DEF BadRequest
<1>2. Absent \notin Jwks
  BY KeysAssumption DEF Jwks
<1>3. k = Chosen(h, Named(c.keys, n), Named(c.urls, n), reply)
  BY DEF h, n
<1>4. CASE n \in DOMAIN c.keys
  <2>1. k = [jwk |-> c.keys[n], class |-> "supplied"]
    BY <1>1, <1>2, <1>3, <1>4 DEF Chosen, Named
  <2>2. QED
    BY <1>1, <1>4, <2>1 DEF KeyUsed, ProvenanceHolds, h, n
<1>5. CASE n \notin DOMAIN c.keys /\ n \in DOMAIN c.urls
  <2>1. k = Fetched(h.kid, reply)
    BY <1>1, <1>3, <1>5, AbsentAssumption DEF Chosen, Named
  <2>2. k.jwk \in Jwks /\ k.class = "jwks_fetched" /\ NamesAlone(reply, h, k.jwk)
    BY <2>1, FetchedIs
  <2>3. k = [jwk |-> k.jwk, class |-> k.class]
    BY <2>1 DEF Fetched, Refused
  <2>4. k \in KeyUsed
    BY <2>2, <2>3 DEF KeyUsed
  <2>5. QED
    BY <1>5, <2>2, <2>4 DEF ProvenanceHolds, h, n
<1>6. CASE n \notin DOMAIN c.keys /\ n \notin DOMAIN c.urls
  <2>1. k = FromHeader(h)
    BY <1>3, <1>6 DEF Chosen, Named
  <2>2. \/ k = [jwk |-> LeafKey(h), class |-> "x5c_header"] /\ LeafKey(h) \in Keys
        \/ k = [jwk |-> h.jwk, class |-> "jwk_header"] /\ h.jwk \in Jwks
    BY <2>1 DEF FromHeader
  <2>3. QED
    BY <1>6, <2>2 DEF KeyUsed, ProvenanceHolds, Jwks, h, n
<1>7. QED
  BY <1>4, <1>5, <1>6

-----------------------------------------------------------------------------
(* The shape of a run, action by action.                                   *)

LEMMA InitShape == Init => Shape
<1>1. SUFFICES ASSUME Init PROVE Shape
  OBVIOUS
<1>2. PICK s \in Sessions : session = s.calls /\ file = s.file
  BY <1>1 DEF Init
<1>3. session \in Seq(Calls) /\ file \in Packs \union {Absent}
  BY <1>2, SessionsAssumption
<1>4. /\ call = Unset /\ pc = "idle" /\ index = 1 /\ ctx = Unset /\ saved = <<>>
      /\ ev = EmptyPack /\ answers = <<>>
  BY <1>1 DEF Init
<1>5. EmptyPack \in Packs
  <2>1. <<>> \in Seq(Entries) /\ <<>> \in Seq(Stamps)
    BY EmptySeq
  <2>2. QED
    BY <2>1 DEF EmptyPack, Packs
<1>6. /\ saved \in Seq(Seq(Literal) \union {Unset}) /\ Len(saved) = 0
      /\ answers \in Seq(Answers)
  BY <1>4, EmptySeq
<1>7. QED
  BY <1>3, <1>4, <1>5, <1>6 DEF Shape, TypeOK, Ordered, InForce, Depth

\* An empty pack is one, and so is what build seals and what it has stamped.
LEMMA PacksAre ==
  /\ EmptyPack \in Packs
  /\ \A pk \in Packs : Content(pk) \in Contents
  /\ \A pk \in Packs, es \in Seq(Entries) : [pk EXCEPT !.artifacts = es] \in Packs
  /\ \A pk \in Packs :
       /\ Sealed(pk) \in Packs
       /\ Sealed(pk).artifacts = pk.artifacts
       /\ Sealed(pk).block = pk.block /\ Sealed(pk).anchors = pk.anchors
       /\ Sealed(pk).bindings = FindBindings(pk.artifacts)
       /\ Sealed(pk).digest = <<pk.artifacts, FindBindings(pk.artifacts)>>
  /\ \A pk \in Packs, s \in Stamps :
       /\ [pk EXCEPT !.block = s] \in Packs
       /\ [pk EXCEPT !.anchors = Append(pk.anchors, s)] \in Packs
<1>1. EmptyPack \in Packs
  <2>1. <<>> \in Seq(Entries) /\ <<>> \in Seq(Stamps)
    BY EmptySeq
  <2>2. QED
    BY <2>1 DEF EmptyPack, Packs
<1>2. \A pk \in Packs : Content(pk) \in Contents
  BY DEF Packs, Content, Contents
<1>3. \A pk \in Packs, es \in Seq(Entries) : [pk EXCEPT !.artifacts = es] \in Packs
  BY DEF Packs
<1>4. ASSUME NEW pk \in Packs
      PROVE  /\ Sealed(pk) \in Packs
             /\ Sealed(pk).artifacts = pk.artifacts
             /\ Sealed(pk).block = pk.block /\ Sealed(pk).anchors = pk.anchors
             /\ Sealed(pk).bindings = FindBindings(pk.artifacts)
             /\ Sealed(pk).digest = <<pk.artifacts, FindBindings(pk.artifacts)>>
  <2> DEFINE es == pk.artifacts
             F == FindBindings(es)
             whole == [pk EXCEPT !.bindings = F]
  <2>1. F \in SUBSET Bindings
    <3>1. es \in Seq(Entries)
      BY DEF Packs
    <3>2. \A i \in DOMAIN es : es[i] \in Entries
      BY <3>1, ElementOfSeq, LenProperties
    <3>3. \A i \in DOMAIN es : es[i].name \in Titles
      BY <3>2 DEF Entries
    <3>4. {[in |-> e.name, commits_to |-> f.name] :
            e \in {es[i] : i \in DOMAIN es}, f \in {es[i] : i \in DOMAIN es}}
          \subseteq Bindings
      BY <3>3 DEF Bindings
    <3>5. QED
      BY <3>4 DEF FindBindings
  <2> HIDE DEF F
  <2>2. /\ whole \in Packs /\ whole.artifacts = es /\ whole.bindings = F
        /\ whole.block = pk.block /\ whole.anchors = pk.anchors
    BY <2>1 DEF Packs
  <2>3. Sealed(pk) = [whole EXCEPT !.digest = Content(whole)]
    BY DEF Sealed, F
  <2> HIDE DEF whole
  <2>4. Content(whole) = <<es, F>> /\ Content(whole) \in Contents
    BY <1>2, <2>2 DEF Content
  <2>5. QED
    BY <2>2, <2>3, <2>4 DEF Packs, F
<1>5. ASSUME NEW pk \in Packs, NEW s \in Stamps
      PROVE  /\ [pk EXCEPT !.block = s] \in Packs
             /\ [pk EXCEPT !.anchors = Append(pk.anchors, s)] \in Packs
  <2>1. Append(pk.anchors, s) \in Seq(Stamps)
    BY AppendProperties DEF Packs
  <2>2. QED
    BY <2>1 DEF Packs
<1>6. QED
  BY <1>1, <1>2, <1>3, <1>4, <1>5

\* What calls save and put back.
LEMMA Saves ==
  ASSUME saved \in Seq(Seq(Literal) \union {Unset}),
         ctx \in Seq(Literal) \union {Unset}, NEW accept \in BOOLEAN, Set(accept)
  PROVE  /\ ctx' \in Seq(Literal) \union {Unset} /\ (ctx' # Unset <=> accept)
         /\ ctx' # Unset => ctx' = <<>>
         /\ saved' \in Seq(Seq(Literal) \union {Unset})
         /\ Len(saved') = Len(saved) + 1
         /\ saved'[Len(saved) + 1] = ctx
         /\ \A i \in 1..Len(saved) : saved'[i] = saved[i]
<1>1. ctx' = (IF accept THEN <<>> ELSE Unset) /\ saved' = Append(saved, ctx)
  BY DEF Set
<1>2. <<>> \in Seq(Literal) /\ <<>> # Unset
  BY EmptySeq, AbsentAssumption
<1>3. QED
  BY <1>1, <1>2, AppendProperties

LEMMA PutsBack ==
  ASSUME saved \in Seq(Seq(Literal) \union {Unset}), Len(saved) \in {1, 2}, Reset
  PROVE  /\ ctx' = saved[Len(saved)] /\ ctx' \in Seq(Literal) \union {Unset}
         /\ saved' \in Seq(Seq(Literal) \union {Unset})
         /\ Len(saved') = Len(saved) - 1
         /\ Len(saved) = 2 => saved'[1] = saved[1]
<1>1. ctx' = saved[Len(saved)] /\ saved' = SubSeq(saved, 1, Len(saved) - 1)
  BY DEF Reset
<1>2. Len(saved) \in 1..Len(saved)
  OBVIOUS
<1>3. ctx' \in Seq(Literal) \union {Unset}
  BY <1>1, <1>2, ElementOfSeq
<1>4. \A i \in 1..(Len(saved) - 1) : saved[i] \in Seq(Literal) \union {Unset}
  BY ElementOfSeq
<1>5. /\ saved' \in Seq(Seq(Literal) \union {Unset})
      /\ Len(saved') = IF 1 <= Len(saved) - 1 THEN (Len(saved) - 1) - 1 + 1 ELSE 0
      /\ \A i \in 1..((Len(saved) - 1) - 1 + 1) : saved'[i] = saved[1 + i - 1]
  BY <1>1, <1>4, SubSeqProperties
<1>6. Len(saved') = Len(saved) - 1
  <2>1. CASE Len(saved) = 1
    BY <1>1, <2>1, SubSeqEmpty, EmptySeq
  <2>2. CASE Len(saved) = 2
    BY <1>5, <2>2
  <2>3. QED
    BY <2>1, <2>2
<1>7. ASSUME Len(saved) = 2 PROVE saved'[1] = saved[1]
  <2>1. 1 \in 1..((Len(saved) - 1) - 1 + 1) /\ 1 + 1 - 1 = 1
    BY <1>7
  <2>2. saved'[1] = saved[1 + 1 - 1]
    BY <1>5, <2>1
  <2>3. QED
    BY <2>1, <2>2
<1>8. QED
  BY <1>1, <1>3, <1>5, <1>6, <1>7

LEMMA BeginShape ==
  ASSUME Shape, Begin
  PROVE  Shape'
<1>1. /\ pc = "idle" /\ session # <<>> /\ call' = Head(session)
      /\ session' = Tail(session) /\ Set(call'.accept)
      /\ index' = 1 /\ ev' = EmptyPack /\ answers' = <<>>
      /\ UNCHANGED <<key, file, asked, built>>
  BY DEF Begin
<1>2. call' \in Calls /\ session' \in Seq(Calls)
  BY <1>1, HeadTailProperties DEF Shape, TypeOK
<1>3. /\ call'.cmd \in {"build", "verify", "restriction"} /\ call'.accept \in BOOLEAN
      /\ call'.artifacts \in Seq([name : Titles, token : Tokens])
  BY <1>2, CallsAssumption
<1>4. pc' \in {"end", "nest", "verify", "seal", "parse"}
  BY <1>3 DEF Begin, EndWith, Goto
<1>5. /\ pc' \in {"nest", "verify"} => call'.cmd # "build" /\ file # Absent
      /\ pc' = "nest" => call'.cmd = "restriction"
      /\ pc' = "verify" => call'.cmd # "restriction"
      /\ pc' \in {"seal", "parse"} => call'.cmd = "build" /\ ~BadRequest(call')
      /\ pc' = "parse" => call'.artifacts # <<>>
  BY <1>3 DEF Begin, EndWith, Goto
<1>6. pc' = "parse" => 1 \in DOMAIN call'.artifacts
  BY <1>3, <1>5, EmptySeq, LenProperties
<1>7. /\ saved \in Seq(Seq(Literal) \union {Unset}) /\ Len(saved) = 0
      /\ ctx \in Seq(Literal) \union {Unset} /\ ctx = Unset
  BY <1>1 DEF Shape, TypeOK, InForce, Depth
<1>8. /\ ctx' \in Seq(Literal) \union {Unset} /\ (ctx' # Unset <=> call'.accept)
      /\ saved' \in Seq(Seq(Literal) \union {Unset})
      /\ Len(saved') = 1 /\ saved'[1] = Unset
  <2>1. Len(saved') = Len(saved) + 1 /\ saved'[Len(saved) + 1] = ctx
    BY <1>1, <1>3, <1>7, Saves
  <2>2. QED
    BY <1>1, <1>3, <1>7, <2>1, Saves
<1>9. Depth' = 1
  BY <1>4, <1>5 DEF Depth
<1>10. TypeOK'
  BY <1>1, <1>2, <1>4, <1>8, PacksAre, EmptySeq DEF Shape, TypeOK
<1>11. Ordered'
  BY <1>1, <1>4, <1>5, <1>6 DEF Shape, TypeOK, Ordered
<1>12. InForce'
  BY <1>4, <1>8, <1>9 DEF InForce
<1>13. QED
  BY <1>10, <1>11, <1>12 DEF Shape

LEMMA EndShape ==
  ASSUME Shape, End
  PROVE  Shape'
<1>1. /\ pc = "end" /\ Reset /\ pc' = "idle"
      /\ UNCHANGED <<session, call, index, key, ev, answers, file, result, asked, built>>
  BY DEF End, Goto
<1>2. /\ saved \in Seq(Seq(Literal) \union {Unset}) /\ Len(saved) = 1 /\ saved[1] = Unset
  BY <1>1 DEF Shape, TypeOK, InForce, Depth
<1>3. /\ ctx' = Unset /\ saved' \in Seq(Seq(Literal) \union {Unset}) /\ Len(saved') = 0
  BY <1>1, <1>2, PutsBack
<1>4. QED
  BY <1>1, <1>3 DEF Shape, TypeOK, Ordered, InForce, Depth

\* Where the context variable stays what it is, or grows by what is read, the
\* option stays in force.
LEMMA ReadsOn ==
  ASSUME Shape, UNCHANGED <<saved, call>>, pc # "idle", pc' # "idle", Depth' = Depth,
         ctx' \in Seq(Literal) \union {Unset}, ctx' = Unset <=> ctx = Unset
  PROVE  InForce'
BY DEF Shape, InForce

LEMMA ReadKeeps ==
  ASSUME NEW read \in Seq(Literal) \union {Unset}, NEW literals \in Seq(Literal)
  PROVE  /\ Reading(read, literals).read \in Seq(Literal) \union {Unset}
         /\ Reading(read, literals).read = Unset <=> read = Unset
<1>1. CASE read = Unset
  BY <1>1, ReadingIs
<1>2. CASE read # Unset
  <2>1. PICK p \in Seq(Literal) : Reading(read, literals).read = read \o p
    BY <1>2, ReadingIs
  <2>2. read \o p \in Seq(Literal)
    BY <1>2, Lists
  <2>3. QED
    BY <1>2, <2>1, <2>2, AbsentAssumption
<1>3. QED
  BY <1>1, <1>2

LEMMA CheckKeeps ==
  ASSUME NEW read \in Seq(Literal) \union {Unset}, NEW t \in Tokens, NEW jwk,
         NEW after \in BOOLEAN
  PROVE  /\ Checking(read, t, jwk, after).read \in Seq(Literal) \union {Unset}
         /\ Checking(read, t, jwk, after).read = Unset <=> read = Unset
<1>1. CASE read = Unset
  BY <1>1, CheckingIs
<1>2. CASE read # Unset
  <2>0. \E p, q \in Seq(Literal) :
          /\ Rest(t) = p \o q
          /\ Checking(read, t, jwk, after).read = read \o p
          /\ Checking(read, t, jwk, after).kb # "error" => q = <<>>
    BY <1>2, CheckingIs
  <2>1. PICK p \in Seq(Literal) : Checking(read, t, jwk, after).read = read \o p
    BY <2>0
  <2>2. read \o p \in Seq(Literal)
    BY <1>2, Lists
  <2>3. QED
    BY <1>2, <2>1, <2>2, AbsentAssumption
<1>3. QED
  BY <1>1, <1>2

\* The artifact at hand, and what is read of it.
LEMMA HereIs ==
  ASSUME Shape, pc \in {"parse", "key", "check"}
  PROVE  /\ call \in Calls /\ index \in 1..Len(call.artifacts)
         /\ Len(call.artifacts) \in Nat
         /\ Here.name \in Titles /\ Here.token \in Tokens
<1>1. call \in Calls /\ index \in DOMAIN call.artifacts
  BY DEF Shape, TypeOK, Ordered
<1>2. call.artifacts \in Seq([name : Titles, token : Tokens])
  BY <1>1, CallsAssumption
<1>3. index \in 1..Len(call.artifacts) /\ Len(call.artifacts) \in Nat
  BY <1>1, <1>2, LenProperties
<1>4. Here \in [name : Titles, token : Tokens]
  BY <1>2, <1>3, ElementOfSeq DEF Here
<1>5. QED
  BY <1>1, <1>3, <1>4

LEMMA ParseShape ==
  ASSUME Shape, Parse
  PROVE  Shape'
<1> DEFINE r == Reading(ctx, Here.token.jwt)
<1>1. /\ pc = "parse" /\ ctx' = r.read /\ pc' \in {"key", "end"}
      /\ UNCHANGED <<session, call, index, saved, key, ev, answers, file, asked, built>>
  BY DEF Parse, EndWith, Goto
<1>2. ctx \in Seq(Literal) \union {Unset} /\ Here.token.jwt \in Seq(Literal)
  BY <1>1, HereIs, LiteralsAre DEF Shape, TypeOK
<1>3. ctx' \in Seq(Literal) \union {Unset} /\ (ctx' = Unset <=> ctx = Unset)
  BY <1>1, <1>2, ReadKeeps
<1>4. InForce'
  BY <1>1, <1>3, ReadsOn DEF Depth
<1>5. QED
  BY <1>1, <1>3, <1>4 DEF Shape, TypeOK, Ordered

LEMMA ChooseKeyShape ==
  ASSUME Shape, ChooseKey
  PROVE  Shape'
<1>1. /\ pc = "key"
      /\ pc' = (IF key' = Refused THEN "end" ELSE "check")
      /\ UNCHANGED <<session, call, index, ctx, saved, ev, answers, file, asked, built>>
  BY DEF ChooseKey, EndWith, Goto
<1>2. PICK reply \in JwksReplies :
        key' = Chosen(Here.token, Named(call.keys, Here.name),
                      Named(call.urls, Here.name), reply)
  BY DEF ChooseKey
<1>3. key' # Refused => key' \in KeyUsed
  <2>1. call \in Calls /\ ~BadRequest(call) /\ index \in DOMAIN call.artifacts
    BY <1>1 DEF Shape, TypeOK, Ordered
  <2>2. QED
    BY <1>2, <2>1, ChosenIs DEF Here
<1>4. Here' = Here
  BY <1>1 DEF Here
<1>5. InForce'
  BY <1>1 DEF Shape, InForce, Depth
<1>6. Ordered'
  BY <1>1, <1>2, <1>3, <1>4 DEF Shape, Ordered
<1>7. TypeOK'
  BY <1>1 DEF Shape, TypeOK, Ordered
<1>8. QED
  BY <1>5, <1>6, <1>7 DEF Shape

\* The entry that CheckArtifact seals, and what must hold for it to.
Checked == Checking(ctx, Here.token, key.jwk,
                    SigOk(Here.token, key.jwk) /\ Reconciled(Here.token, key))
NewEntry == [name |-> Here.name, token |-> Here.token, key |-> key,
             kb |-> Checked.kb, claims |-> Here.token.id]

LEMMA CheckArtifactIs ==
  ASSUME Shape, CheckArtifact
  PROVE  /\ pc = "check" /\ ctx' = Checked.read
         /\ UNCHANGED <<session, call, saved, key, answers, file, asked, built>>
         /\ \/ /\ Checked.kb \in {"error", "bad_hash", "bad_signature"}
               /\ pc' = "end" /\ result' = "refused" /\ UNCHANGED <<index, ev>>
            \/ /\ Checked.kb \notin {"error", "bad_hash", "bad_signature"}
               /\ ev' = [ev EXCEPT !.artifacts = Append(ev.artifacts, NewEntry)]
               /\ index' = index + 1 /\ UNCHANGED result
               /\ pc' = (IF index = Len(call.artifacts) THEN "seal" ELSE "parse")
BY DEF CheckArtifact, EndWith, Goto, Checked, NewEntry

\* A KB-JWT's state is one of these.
LEMMA KbStates ==
  ASSUME NEW t
  PROVE  KbState(t) \in {"absent", "error", "unknown", "bad_signature", "bad_hash", "ok"}
BY DEF KbState

LEMMA NewEntryIs ==
  ASSUME Shape, pc = "check", Checked.kb \notin {"error", "bad_hash", "bad_signature"}
  PROVE  /\ NewEntry \in Entries
         /\ key.jwk \in Keys /\ Here.token.resolves
         /\ SigOk(Here.token, key.jwk) /\ Reconciled(Here.token, key)
         /\ Readable(ctx, Rest(Here.token))
         /\ Checked.kb = KbState(Here.token)
         /\ KbState(Here.token) \in {"absent", "unknown", "ok"}
<1> DEFINE after == SigOk(Here.token, key.jwk) /\ Reconciled(Here.token, key)
<1>1. /\ ctx \in Seq(Literal) \union {Unset} /\ Here.token \in Tokens
      /\ Here.name \in Titles /\ key \in KeyUsed
  BY HereIs DEF Shape, TypeOK, Ordered
<1>2. after \in BOOLEAN
  BY DEF SigOk, Reconciled
<1> HIDE DEF after
<1>3. Checked.kb = IF /\ key.jwk \in Keys /\ Here.token.resolves /\ after
                      /\ Readable(ctx, Rest(Here.token))
                     THEN KbState(Here.token) ELSE "error"
  <2>1. Checked = Checking(ctx, Here.token, key.jwk, after)
    BY DEF Checked, after
  <2>2. QED
    BY <1>1, <1>2, <2>1, CheckingIs
<1>4. /\ key.jwk \in Keys /\ Here.token.resolves /\ after
      /\ Readable(ctx, Rest(Here.token)) /\ Checked.kb = KbState(Here.token)
  BY <1>3
<1>5. KbState(Here.token) \in {"absent", "unknown", "ok"}
  BY <1>4, KbStates
<1>6. NewEntry \in Entries
  BY <1>1, <1>4, <1>5 DEF NewEntry, Entries
<1>7. QED
  BY <1>4, <1>5, <1>6 DEF after

LEMMA CheckArtifactShape ==
  ASSUME Shape, CheckArtifact
  PROVE  Shape'
<1>1. /\ pc = "check" /\ ctx' = Checked.read
      /\ UNCHANGED <<session, call, saved, key, answers, file, asked, built>>
      /\ \/ pc' = "end" /\ UNCHANGED <<index, ev>>
         \/ /\ Checked.kb \notin {"error", "bad_hash", "bad_signature"}
            /\ ev' = [ev EXCEPT !.artifacts = Append(ev.artifacts, NewEntry)]
            /\ index' = index + 1
            /\ pc' = (IF index = Len(call.artifacts) THEN "seal" ELSE "parse")
  BY CheckArtifactIs
<1>2. /\ index \in 1..Len(call.artifacts) /\ Len(call.artifacts) \in Nat
      /\ DOMAIN call.artifacts = 1..Len(call.artifacts)
  <2>1. call.artifacts \in Seq([name : Titles, token : Tokens])
    BY <1>1, HereIs, CallsAssumption
  <2>2. QED
    BY <1>1, <2>1, HereIs, LenProperties
<1>3. ctx' \in Seq(Literal) \union {Unset} /\ (ctx' = Unset <=> ctx = Unset)
  <2>1. (SigOk(Here.token, key.jwk) /\ Reconciled(Here.token, key)) \in BOOLEAN
    BY DEF SigOk, Reconciled
  <2>2. ctx \in Seq(Literal) \union {Unset} /\ Here.token \in Tokens
    BY <1>1, HereIs DEF Shape, TypeOK
  <2>3. QED
    BY <1>1, <2>1, <2>2, CheckKeeps DEF Checked
<1>4. ev' \in Packs
  <2>1. CASE UNCHANGED ev
    BY <2>1 DEF Shape, TypeOK
  <2>2. CASE Checked.kb \notin {"error", "bad_hash", "bad_signature"} /\
             ev' = [ev EXCEPT !.artifacts = Append(ev.artifacts, NewEntry)]
    <3>1. ev \in Packs /\ ev.artifacts \in Seq(Entries)
      BY DEF Shape, TypeOK, Packs
    <3>2. Append(ev.artifacts, NewEntry) \in Seq(Entries)
      BY <1>1, <2>2, <3>1, NewEntryIs, AppendProperties
    <3>3. QED
      BY <2>2, <3>1, <3>2, PacksAre
  <2>3. QED
    BY <1>1, <2>1, <2>2
<1>5. InForce'
  <2>1. Depth' = Depth /\ pc # "idle" /\ pc' # "idle"
    BY <1>1 DEF Depth
  <2>2. QED
    BY <1>1, <1>3, <2>1, ReadsOn
<1>6. Ordered'
  BY <1>1, <1>2 DEF Shape, Ordered
<1>7. TypeOK'
  BY <1>1, <1>2, <1>3, <1>4 DEF Shape, TypeOK
<1>8. QED
  BY <1>5, <1>6, <1>7 DEF Shape

LEMMA SealShape ==
  ASSUME Shape, Seal
  PROVE  Shape'
<1>1. /\ pc = "seal" /\ ev' = Sealed(ev) /\ index' = 1 /\ pc' \in {"end", "stamp"}
      /\ UNCHANGED <<session, call, ctx, saved, key, answers, file, asked, built>>
  BY DEF Seal, EndWith, Goto
<1>2. ev' \in Packs
  BY <1>1, PacksAre DEF Shape, TypeOK
<1>3. QED
  BY <1>1, <1>2 DEF Shape, TypeOK, Ordered, InForce, Depth

\* The TSA's reply as it is kept: nothing, the token of the block, or another.
LEMMA StampIs ==
  ASSUME Shape, Stamp
  PROVE  /\ pc = "stamp" /\ asked' = asked \union {ev.digest} /\ index' = index + 1
         /\ UNCHANGED <<session, call, pc, ctx, saved, key, answers, file, result, built>>
         /\ \/ ev' = ev
            \/ \E s \in Stamps :
                 /\ s.granted /\ s.imprint = ev.digest
                 /\ \/ ev' = [ev EXCEPT !.block = s]
                    \/ ev' = [ev EXCEPT !.anchors = Append(ev.anchors, s)]
<1>1. PICK r \in TsaReplies :
        LET reply == IF r = Absent THEN Absent
                     ELSE [granted |-> r.granted,
                           imprint |-> IF r.same THEN ev.digest ELSE Absent]
        IN ev' = IF ~Anchors(reply) THEN ev
                 ELSE IF index = 1 THEN [ev EXCEPT !.block = reply]
                 ELSE [ev EXCEPT !.anchors = Append(@, reply)]
  BY DEF Stamp
<1> DEFINE reply == IF r = Absent THEN Absent
                    ELSE [granted |-> r.granted,
                          imprint |-> IF r.same THEN ev.digest ELSE Absent]
<1>2. reply # Absent => reply \in Stamps
  <2>1. r # Absent => r \in [granted : BOOLEAN, same : BOOLEAN]
    BY RepliesAssumption
  <2>2. ev.digest \in Contents \union {Absent}
    BY DEF Shape, TypeOK, Packs
  <2>3. QED
    BY <2>1, <2>2 DEF Stamps
<1> HIDE DEF reply
<1>3. ev' = IF ~Anchors(reply) THEN ev
            ELSE IF index = 1 THEN [ev EXCEPT !.block = reply]
            ELSE [ev EXCEPT !.anchors = Append(ev.anchors, reply)]
  BY <1>1 DEF reply
<1>4. Anchors(reply) => reply \in Stamps /\ reply.granted /\ reply.imprint = ev.digest
  BY <1>2 DEF Anchors
<1>5. \/ ev' = ev
      \/ \E s \in Stamps :
           /\ s.granted /\ s.imprint = ev.digest
           /\ \/ ev' = [ev EXCEPT !.block = s]
              \/ ev' = [ev EXCEPT !.anchors = Append(ev.anchors, s)]
  BY <1>3, <1>4
<1>6. QED
  BY <1>5 DEF Stamp

LEMMA StampShape ==
  ASSUME Shape, Stamp
  PROVE  Shape'
<1>1. /\ pc = "stamp" /\ index' = index + 1
      /\ UNCHANGED <<session, call, pc, ctx, saved, key, answers, file, result, built>>
  BY StampIs
<1>2. ev' \in Packs
  <2>1. ev \in Packs
    BY DEF Shape, TypeOK
  <2>2. CASE ev' = ev
    BY <2>1, <2>2
  <2>3. ASSUME NEW s \in Stamps,
               \/ ev' = [ev EXCEPT !.block = s]
               \/ ev' = [ev EXCEPT !.anchors = Append(ev.anchors, s)]
        PROVE  ev' \in Packs
    BY <2>1, <2>3, PacksAre
  <2>4. QED
    BY <2>2, <2>3, StampIs
<1>3. TypeOK'
  BY <1>1, <1>2 DEF Shape, TypeOK
<1>4. QED
  BY <1>1, <1>3 DEF Shape, Ordered, InForce, Depth

LEMMA WriteIs ==
  ASSUME Shape, Write
  PROVE  /\ pc = "stamp" /\ pc' = "end"
         /\ UNCHANGED <<session, call, index, ctx, saved, key, ev, answers, asked>>
         /\ \/ /\ ~TooLarge(ev) /\ file' = ev
               /\ built' = [pack |-> ev, read |-> ctx, call |-> call]
            \/ UNCHANGED <<file, built>>
BY DEF Write, EndWith, Goto

LEMMA WriteShape ==
  ASSUME Shape, Write
  PROVE  Shape'
<1>1. /\ pc = "stamp" /\ pc' = "end"
      /\ UNCHANGED <<session, call, index, ctx, saved, key, ev, answers>>
      /\ file' \in {ev, file}
  BY WriteIs
<1>2. QED
  BY <1>1 DEF Shape, TypeOK, Ordered, InForce, Depth

LEMMA NestShape ==
  ASSUME Shape, Nest
  PROVE  Shape'
<1>1. /\ pc = "nest" /\ Set(ctx # Unset) /\ pc' = "verify"
      /\ UNCHANGED <<session, call, index, key, ev, answers, file, result, asked, built>>
  BY DEF Nest, Goto
<1>2. /\ ctx \in Seq(Literal) \union {Unset} /\ (ctx # Unset <=> call.accept)
      /\ saved \in Seq(Seq(Literal) \union {Unset}) /\ Len(saved) = 1 /\ saved[1] = Unset
      /\ call.cmd = "restriction"
  BY <1>1 DEF Shape, TypeOK, Ordered, InForce, Depth
<1>3. /\ ctx' \in Seq(Literal) \union {Unset} /\ (ctx' # Unset <=> ctx # Unset)
      /\ saved' \in Seq(Seq(Literal) \union {Unset})
      /\ Len(saved') = Len(saved) + 1
      /\ saved'[Len(saved) + 1] = ctx
      /\ \A i \in 1..Len(saved) : saved'[i] = saved[i]
  <2>1. (ctx # Unset) \in BOOLEAN
    OBVIOUS
  <2>2. QED
    BY <1>1, <1>2, <2>1, Saves
<1>4. Len(saved') = 2 /\ saved'[2] = ctx /\ saved'[1] = Unset
  BY <1>2, <1>3
<1>5. Depth' = 2
  BY <1>1, <1>2 DEF Depth
<1>6. InForce'
  BY <1>1, <1>2, <1>3, <1>4, <1>5 DEF InForce
<1>7. QED
  BY <1>1, <1>2, <1>3, <1>6 DEF Shape, TypeOK, Ordered

\* The entry at hand in verify, and what verify says of it.
Entry == file.artifacts[index]

LEMMA EntryIs ==
  ASSUME Shape, pc \in {"verify", "reread"}, index <= Len(file.artifacts)
  PROVE  /\ file.artifacts \in Seq(Entries) /\ index \in DOMAIN file.artifacts
         /\ Entry \in Entries /\ Entry.token \in Tokens
         /\ ctx \in Seq(Literal) \union {Unset}
<1>1. file.artifacts \in Seq(Entries)
  BY DEF Shape, Ordered, Packs
<1>2. index \in 1..Len(file.artifacts) /\ DOMAIN file.artifacts = 1..Len(file.artifacts)
  BY <1>1, LenProperties DEF Shape, TypeOK
<1>3. Entry \in Entries
  BY <1>1, <1>2, ElementOfSeq DEF Entry
<1>4. QED
  BY <1>1, <1>2, <1>3 DEF Entries, Shape, TypeOK

Header == Reading(ctx, Entry.token.jwt)
Inside ==
  IF /\ Header.ok /\ Entry.token.formed /\ ~Entry.token.crit
     /\ ProvenanceHolds(Entry.token, Entry.key) /\ Reconciled(Entry.token, Entry.key)
    THEN Checking(Header.read, Entry.token, Entry.key.jwk, TRUE)
    ELSE [read |-> Header.read, kb |-> "error"]
Wrong == Inside.kb = "error" \/ Entry.kb # Inside.kb
Finding ==
  [error |-> Wrong, sig |-> SigOk(Entry.token, Entry.key.jwk),
   claims |-> Entry.claims = Entry.token.id,
   kb |-> IF Wrong THEN "absent" ELSE Inside.kb, read |-> ReadSince(Inside.read, ctx)]

LEMMA VerifyArtifactIs ==
  ASSUME VerifyArtifact
  PROVE  /\ pc = "verify" /\ index <= Len(file.artifacts)
         /\ ctx' = Inside.read /\ answers' = Append(answers, Finding) /\ index' = index + 1
         /\ UNCHANGED <<session, call, pc, saved, key, ev, file, result, asked, built>>
BY DEF VerifyArtifact, Inside, Wrong, Finding, Header, Entry

\* verify reads an artifact as far as its literals are integral, all of it unless
\* it is an error, and lists what it has read.
LEMMA InsideIs ==
  ASSUME Shape, pc = "verify", index <= Len(file.artifacts)
  PROVE  /\ Inside.read \in Seq(Literal) \union {Unset}
         /\ Inside.read = Unset <=> ctx = Unset
         /\ Inside.kb = IF /\ Entry.token.formed /\ ~Entry.token.crit
                           /\ ProvenanceHolds(Entry.token, Entry.key)
                           /\ Reconciled(Entry.token, Entry.key)
                           /\ Entry.key.jwk \in Keys /\ Entry.token.resolves
                           /\ Readable(ctx, Literals(Entry.token))
                          THEN KbState(Entry.token) ELSE "error"
         /\ ctx = Unset => ReadSince(Inside.read, ctx) = Unset
         /\ ctx # Unset =>
              \E p, q \in Seq(Literal) :
                /\ Literals(Entry.token) = p \o q /\ ReadSince(Inside.read, ctx) = p
                /\ Inside.read = ctx \o p
                /\ Inside.kb # "error" => q = <<>>
<1> DEFINE t == Entry.token
           well == /\ t.formed /\ ~t.crit
                   /\ ProvenanceHolds(t, Entry.key) /\ Reconciled(t, Entry.key)
           C == Checking(Header.read, t, Entry.key.jwk, TRUE)
<1> HIDE DEF t, well, C
<1>1. t \in Tokens /\ ctx \in Seq(Literal) \union {Unset}
  BY EntryIs DEF t
<1>2. t.jwt \in Seq(Literal) /\ Rest(t) \in Seq(Literal) /\ Literals(t) = t.jwt \o Rest(t)
  BY <1>1, LiteralsAre
<1>3. Header = Reading(ctx, t.jwt)
  BY DEF Header, t
<1>4. /\ Header.ok <=> Readable(ctx, t.jwt)
      /\ ctx = Unset => Header.read = Unset
      /\ ctx # Unset =>
           \E p, q \in Seq(Literal) :
             t.jwt = p \o q /\ Header.read = ctx \o p /\ (Header.ok => q = <<>>)
  <2>1. ctx \in Seq(Literal) \union {Unset} /\ t.jwt \in Seq(Literal)
    BY <1>1, <1>2
  <2>2. /\ Reading(ctx, t.jwt).ok <=> Readable(ctx, t.jwt)
        /\ ctx = Unset => Reading(ctx, t.jwt).read = Unset
        /\ ctx # Unset =>
             \E p, q \in Seq(Literal) :
               /\ t.jwt = p \o q /\ Reading(ctx, t.jwt).read = ctx \o p
               /\ Reading(ctx, t.jwt).ok => q = <<>>
    BY <2>1, ReadingIs
  <2>3. QED
    BY <1>3, <2>2
<1>5. /\ Header.read \in Seq(Literal) \union {Unset}
      /\ Header.read = Unset <=> ctx = Unset
  BY <1>1, <1>2, <1>3, ReadKeeps
<1>6. /\ C.kb = IF Entry.key.jwk \in Keys /\ t.resolves /\ TRUE /\
                   Readable(Header.read, Rest(t))
                  THEN KbState(t) ELSE "error"
      /\ Header.read = Unset => C.read = Unset
      /\ Header.read # Unset =>
           \E p, q \in Seq(Literal) :
             Rest(t) = p \o q /\ C.read = Header.read \o p /\ (C.kb # "error" => q = <<>>)
  <2> DEFINE k == Entry.key.jwk
  <2> HIDE DEF k
  <2>1. Header.read \in Seq(Literal) \union {Unset} /\ t \in Tokens /\ TRUE \in BOOLEAN
    BY <1>1, <1>5
  <2>2. /\ Checking(Header.read, t, k, TRUE).kb =
             IF /\ k \in Keys /\ t.resolves /\ TRUE
                /\ Readable(Header.read, Rest(t))
               THEN KbState(t) ELSE "error"
        /\ Header.read = Unset => Checking(Header.read, t, k, TRUE).read = Unset
        /\ Header.read # Unset =>
             \E p, q \in Seq(Literal) :
               /\ Rest(t) = p \o q
               /\ Checking(Header.read, t, k, TRUE).read = Header.read \o p
               /\ Checking(Header.read, t, k, TRUE).kb # "error" => q = <<>>
    BY <2>1, CheckingIs
  <2>3. QED
    BY <2>2 DEF C, k
<1>7. C.read \in Seq(Literal) \union {Unset} /\ (C.read = Unset <=> Header.read = Unset)
  BY <1>1, <1>5, CheckKeeps DEF C
<1>8. Inside = IF Header.ok /\ well THEN C ELSE [read |-> Header.read, kb |-> "error"]
  BY DEF Inside, well, C, t
<1>9. Readable(ctx, Literals(t)) <=> Readable(ctx, t.jwt) /\ Readable(Header.read, Rest(t))
  <2>1. Readable(ctx, t.jwt \o Rest(t)) <=> Readable(ctx, t.jwt) /\ Readable(ctx, Rest(t))
    BY <1>2, ReadableConcat
  <2>2. Readable(Header.read, Rest(t)) <=> Readable(ctx, Rest(t))
    BY <1>5 DEF Readable
  <2>3. QED
    BY <1>2, <2>1, <2>2
<1>10. Inside.read \in Seq(Literal) \union {Unset} /\ (Inside.read = Unset <=> ctx = Unset)
  BY <1>5, <1>7, <1>8
<1>11. Inside.kb = IF /\ well /\ Entry.key.jwk \in Keys /\ t.resolves
                      /\ Readable(ctx, Literals(t))
                     THEN KbState(t) ELSE "error"
  BY <1>4, <1>6, <1>8, <1>9
<1>12. ASSUME ctx # Unset
       PROVE  \E p, q \in Seq(Literal) :
                /\ Literals(t) = p \o q /\ ReadSince(Inside.read, ctx) = p
                /\ Inside.read = ctx \o p
                /\ Inside.kb # "error" => q = <<>>
  <2>0. ctx \in Seq(Literal)
    BY <1>1, <1>12
  <2>1. \E p, q \in Seq(Literal) :
          /\ Literals(t) = p \o q /\ Inside.read = ctx \o p
          /\ Inside.kb # "error" => q = <<>>
    <3>1. PICK p1, q1 \in Seq(Literal) :
            t.jwt = p1 \o q1 /\ Header.read = ctx \o p1 /\ (Header.ok => q1 = <<>>)
      BY <1>4, <1>12
    <3>2. PICK p2, q2 \in Seq(Literal) :
            Rest(t) = p2 \o q2 /\ C.read = Header.read \o p2 /\ (C.kb # "error" => q2 = <<>>)
      BY <1>5, <1>6, <1>12
    <3>3. CASE Header.ok /\ well
      <4>1. t.jwt = p1 /\ Inside = C
        BY <1>8, <3>1, <3>3, ConcatEmptySeq
      <4>2. (p1 \o p2) \o q2 = p1 \o (p2 \o q2) /\ p1 \o p2 \in Seq(Literal)
        <5>1. (p1 \o p2) \o q2 = p1 \o (p2 \o q2)
          BY Brackets
        <5>2. p1 \o p2 \in Seq(Literal)
          BY Lists
        <5>3. QED
          BY <5>1, <5>2
      <4>3. (ctx \o p1) \o p2 = ctx \o (p1 \o p2)
        BY <2>0, Brackets
      <4>4. Literals(t) = (p1 \o p2) \o q2 /\ Inside.read = ctx \o (p1 \o p2)
        BY <1>2, <3>1, <3>2, <4>1, <4>2, <4>3
      <4>5. QED
        BY <3>2, <4>1, <4>2, <4>4
    <3>4. CASE ~(Header.ok /\ well)
      <4>1. Inside.read = ctx \o p1 /\ Inside.kb = "error"
        BY <1>8, <3>1, <3>4
      <4>2. /\ Rest(t) \in Seq(Literal)
            /\ (p1 \o q1) \o Rest(t) = p1 \o (q1 \o Rest(t))
            /\ q1 \o Rest(t) \in Seq(Literal)
        <5> DEFINE r == Rest(t)
        <5>1. r \in Seq(Literal)
          BY <1>2
        <5> HIDE DEF r
        <5>2. (p1 \o q1) \o r = p1 \o (q1 \o r)
          BY <5>1, Brackets, SMTT(30)
        <5>3. q1 \o r \in Seq(Literal)
          BY <5>1, Lists
        <5>4. QED
          BY <5>1, <5>2, <5>3 DEF r
      <4>3. QED
        BY <1>2, <3>1, <4>1, <4>2
    <3>5. QED
      BY <3>3, <3>4
  <2>2. PICK p, q \in Seq(Literal) :
          /\ Literals(t) = p \o q /\ Inside.read = ctx \o p
          /\ Inside.kb # "error" => q = <<>>
    BY <2>1
  <2>3. ReadSince(Inside.read, ctx) = p
    <3>1. Inside.read # Unset
      BY <1>10, <1>12
    <3>2. ReadSince(Inside.read, ctx) = SubSeq(ctx \o p, Len(ctx) + 1, Len(ctx \o p))
      BY <2>2, <3>1 DEF ReadSince
    <3>3. SubSeq(ctx \o p, Len(ctx) + 1, Len(ctx \o p)) = p
      BY <2>0, TailIs
    <3>4. QED
      BY <3>2, <3>3
  <2>4. QED
    BY <2>2, <2>3
<1>13. ctx = Unset => ReadSince(Inside.read, ctx) = Unset
  BY <1>10 DEF ReadSince
<1>14. QED
  BY <1>10, <1>11, <1>12, <1>13 DEF t, well

LEMMA FindingIs ==
  ASSUME Shape, pc = "verify", index <= Len(file.artifacts)
  PROVE  Finding \in Answers
<1>1. /\ Inside.kb = IF /\ Entry.token.formed /\ ~Entry.token.crit
                         /\ ProvenanceHolds(Entry.token, Entry.key)
                         /\ Reconciled(Entry.token, Entry.key)
                         /\ Entry.key.jwk \in Keys /\ Entry.token.resolves
                         /\ Readable(ctx, Literals(Entry.token))
                        THEN KbState(Entry.token) ELSE "error"
      /\ ctx = Unset => ReadSince(Inside.read, ctx) = Unset
      /\ ctx # Unset => \E p, q \in Seq(Literal) : ReadSince(Inside.read, ctx) = p
  <2>1. ctx # Unset =>
              \E p, q \in Seq(Literal) :
                /\ Literals(Entry.token) = p \o q /\ ReadSince(Inside.read, ctx) = p
                /\ Inside.read = ctx \o p
                /\ Inside.kb # "error" => q = <<>>
    BY InsideIs
  <2>2. QED
    BY <2>1, InsideIs
<1>2. ReadSince(Inside.read, ctx) \in Seq(Literal) \union {Unset}
  BY <1>1
<1>3. Inside.kb \in {"absent", "error", "unknown", "bad_signature", "bad_hash", "ok"}
  BY <1>1, KbStates
<1>4. Wrong \in BOOLEAN /\ SigOk(Entry.token, Entry.key.jwk) \in BOOLEAN
  BY DEF Wrong, SigOk
<1>5. (IF Wrong THEN "absent" ELSE Inside.kb)
        \in {"absent", "ok", "unknown", "bad_hash", "bad_signature"}
  BY <1>3 DEF Wrong
<1>6. QED
  BY <1>2, <1>4, <1>5 DEF Finding, Answers

LEMMA VerifyArtifactShape ==
  ASSUME Shape, VerifyArtifact
  PROVE  Shape'
<1>1. /\ pc = "verify" /\ index <= Len(file.artifacts)
      /\ ctx' = Inside.read /\ answers' = Append(answers, Finding) /\ index' = index + 1
      /\ UNCHANGED <<session, call, pc, saved, key, ev, file, result, asked, built>>
  BY VerifyArtifactIs
<1>2. ctx' \in Seq(Literal) \union {Unset} /\ (ctx' = Unset <=> ctx = Unset)
  BY <1>1, InsideIs
<1>3. answers' \in Seq(Answers)
  <2>1. Finding \in Answers /\ answers \in Seq(Answers)
    BY <1>1, FindingIs DEF Shape, TypeOK
  <2>2. QED
    BY <1>1, <2>1, AppendProperties
<1>4. InForce'
  BY <1>1, <1>2, ReadsOn DEF Depth
<1>5. TypeOK' /\ Ordered'
  BY <1>1, <1>2, <1>3 DEF Shape, TypeOK, Ordered
<1>6. QED
  BY <1>4, <1>5 DEF Shape

LEMMA VerifiedShape ==
  ASSUME Shape, Verified
  PROVE  Shape'
<1>1. /\ pc = "verify"
      /\ UNCHANGED <<session, call, key, ev, answers, file, asked, built>>
      /\ call \in Calls /\ call.cmd # "build" /\ file \in Packs
  BY DEF Verified, Shape, TypeOK, Ordered
<1>2. CASE call.cmd = "verify"
  <2>1. pc' = "end" /\ UNCHANGED <<ctx, saved, index>>
    BY <1>2 DEF Verified, Goto
  <2>2. QED
    BY <1>1, <1>2, <2>1 DEF Shape, TypeOK, Ordered, InForce, Depth
<1>3. CASE call.cmd # "verify"
  <2>1. Reset /\ pc' = "reread" /\ index' = 1
    BY <1>3 DEF Verified, Goto
  <2>2. call.cmd = "restriction"
    BY <1>1, <1>3, CallsAssumption
  <2>3. /\ saved \in Seq(Seq(Literal) \union {Unset}) /\ Len(saved) = 2
        /\ saved[1] = Unset /\ (saved[2] # Unset <=> call.accept)
    BY <1>1, <2>2 DEF Shape, TypeOK, InForce, Depth
  <2>4. /\ ctx' = saved[Len(saved)] /\ ctx' \in Seq(Literal) \union {Unset}
        /\ saved' \in Seq(Seq(Literal) \union {Unset})
        /\ Len(saved') = Len(saved) - 1
        /\ Len(saved) = 2 => saved'[1] = saved[1]
    BY <2>1, <2>3, PutsBack
  <2>5. InForce'
    <3>1. Depth' = 1
      BY <2>1 DEF Depth
    <3>2. QED
      BY <1>1, <2>1, <2>3, <2>4, <3>1 DEF InForce
  <2>6. QED
    BY <1>1, <2>1, <2>2, <2>4, <2>5 DEF Shape, TypeOK, Ordered
<1>4. QED
  BY <1>2, <1>3

LEMMA RereadShape ==
  ASSUME Shape, Reread
  PROVE  Shape'
<1> DEFINE t == Entry.token
           r == Reading(ctx, t.jwt)
<1>1. /\ pc = "reread" /\ index <= Len(file.artifacts) /\ index' = index + 1
      /\ ctx' = IF r.ok /\ t.formed THEN Reading(r.read, t.disclosed).read ELSE r.read
      /\ UNCHANGED <<session, call, pc, saved, key, ev, answers, file, result, asked, built>>
  BY DEF Reread, Entry
<1>2. /\ ctx \in Seq(Literal) \union {Unset} /\ t.jwt \in Seq(Literal)
      /\ t.disclosed \in Seq(Literal)
  BY <1>1, EntryIs, TokensAssumption
<1>3. r.read \in Seq(Literal) \union {Unset} /\ (r.read = Unset <=> ctx = Unset)
  BY <1>2, ReadKeeps
<1> HIDE DEF r
<1>4. /\ Reading(r.read, t.disclosed).read \in Seq(Literal) \union {Unset}
      /\ Reading(r.read, t.disclosed).read = Unset <=> r.read = Unset
  <2> DEFINE ds == t.disclosed
             x == r.read
  <2>1. ds \in Seq(Literal) /\ x \in Seq(Literal) \union {Unset}
    BY <1>2, <1>3
  <2> HIDE DEF ds, x
  <2>2. /\ Reading(x, ds).read \in Seq(Literal) \union {Unset}
        /\ Reading(x, ds).read = Unset <=> x = Unset
    BY <2>1, ReadKeeps
  <2>3. QED
    BY <2>2 DEF ds, x
<1>5. ctx' \in Seq(Literal) \union {Unset} /\ (ctx' = Unset <=> ctx = Unset)
  BY <1>1, <1>3, <1>4
<1>6. InForce'
  BY <1>1, <1>5, ReadsOn DEF Depth
<1>7. TypeOK' /\ Ordered'
  BY <1>1, <1>5 DEF Shape, TypeOK, Ordered
<1>8. QED
  BY <1>6, <1>7 DEF Shape

LEMMA ComparedShape ==
  ASSUME Shape, Compared
  PROVE  Shape'
<1>1. /\ pc = "reread" /\ pc' = "end"
      /\ UNCHANGED <<session, call, index, ctx, saved, key, ev, answers, file, result,
                     asked, built>>
  BY DEF Compared, Goto
<1>2. QED
  BY <1>1 DEF Shape, TypeOK, Ordered, InForce, Depth

LEMMA StutterShape ==
  ASSUME Shape, UNCHANGED vars
  PROVE  Shape'
BY DEF Shape, TypeOK, Ordered, InForce, Depth, vars, Here

\* Every variable has its type, the calls are at the places they can be at, and
\* the option to read literals is in force in the calls made with it and in no
\* others: every call puts back what it found.
THEOREM ShapeHolds == Spec => []Shape
<1>1. Shape /\ [Next]_vars => Shape'
  BY BeginShape, EndShape, ParseShape, ChooseKeyShape, CheckArtifactShape, SealShape,
     StampShape, WriteShape, NestShape, VerifyArtifactShape, VerifiedShape,
     RereadShape, ComparedShape, StutterShape DEF Next
<1>2. QED
  BY <1>1, InitShape, PTL DEF Spec

\* Every variable has its type.
THEOREM TypeCorrect == Spec => []TypeOK
<1>1. Shape => TypeOK
  BY DEF Shape
<1>2. QED
  BY <1>1, ShapeHolds, PTL

-----------------------------------------------------------------------------
(* What build knows of the entries it seals.                               *)

\* Of an entry sealed by call c.
Sound(e, c) ==
  /\ OneKey(e, c) /\ Green(e)
  /\ e.key.jwk \in Keys
  /\ ProvenanceHolds(e.token, e.key) /\ Reconciled(e.token, e.key)
  /\ e.claims = e.token.id
  /\ e.kb = KbState(e.token) /\ e.kb \in {"absent", "unknown", "ok"}

\* A token over the content of the pack.
Over(s, pk) == s.granted /\ s.imprint = Content(pk)

\* Of what is around the entries.
Closed(pk) ==
  /\ pk.bindings = FindBindings(pk.artifacts) /\ pk.digest = Content(pk)
  /\ ~TooDeep(pk)
  /\ pk.block # Absent => Over(pk.block, pk)
  /\ \A i \in DOMAIN pk.anchors : Over(pk.anchors[i], pk)

Building == {"parse", "key", "check", "seal", "stamp"}

Making ==
  /\ pc \in Building \ {"stamp"} => ev.block = Absent /\ ev.anchors = <<>>
  /\ pc \in Building => \A i \in DOMAIN ev.artifacts : Sound(ev.artifacts[i], call)
  /\ pc \in {"key", "check"} =>
       Here.token.formed /\ ~Here.token.crit /\ Readable(ctx, Here.token.jwt)
  /\ pc = "stamp" => Closed(ev)
  /\ built # Unset =>
       /\ built.pack \in Packs /\ Closed(built.pack) /\ ~TooLarge(built.pack)
       /\ \A i \in DOMAIN built.pack.artifacts : Sound(built.pack.artifacts[i], built.call)
  /\ \A content \in asked : \A i \in DOMAIN content[1] : Green(content[1][i])

\* The entry that CheckArtifact seals is sound.
LEMMA NewEntrySound ==
  ASSUME Shape, Making, pc = "check",
         Checked.kb \notin {"error", "bad_hash", "bad_signature"}
  PROVE  Sound(NewEntry, call)
<1> DEFINE t == Here.token
<1> HIDE DEF t
<1>1. /\ key.jwk \in Keys /\ t.resolves /\ t.signer = key.jwk /\ Reconciled(t, key)
      /\ Readable(ctx, Rest(t)) /\ Checked.kb = KbState(t)
      /\ KbState(t) \in {"absent", "unknown", "ok"}
  BY NewEntryIs DEF SigOk, t
<1>2. t.formed /\ ~t.crit /\ Readable(ctx, t.jwt)
  BY DEF Making, t
<1>3. /\ NewEntry.name = Here.name /\ NewEntry.token = t /\ NewEntry.key = key
      /\ NewEntry.kb = Checked.kb /\ NewEntry.claims = t.id
  BY DEF NewEntry, t
<1>4. /\ call \in Calls /\ ~BadRequest(call) /\ index \in DOMAIN call.artifacts
      /\ key \in KeyUsed
  BY DEF Shape, TypeOK, Ordered
<1>5. PICK reply \in JwksReplies :
        key = Chosen(t, Named(call.keys, Here.name), Named(call.urls, Here.name), reply)
  BY DEF Shape, Ordered, t
<1>6. key # Refused
  <2>1. key.jwk # Absent
    BY <1>1, KeysAssumption
  <2>2. QED
    BY <2>1 DEF Refused
<1>7. /\ ProvenanceHolds(t, key)
      /\ Here.name \in DOMAIN call.keys => key.jwk = call.keys[Here.name]
      /\ Here.name \in DOMAIN call.urls => NamesAlone(reply, t, key.jwk)
  BY <1>4, <1>5, <1>6, ChosenIs DEF Here, t
<1>8. t.jwk # Absent => t.jwk = key.jwk
  BY <1>1, <1>7 DEF Reconciled, ProvenanceHolds
<1>9. t.x5c # Absent => LeafKey(t) = key.jwk
  BY <1>1, <1>7 DEF Reconciled, ProvenanceHolds
<1>10. OneKey(NewEntry, call)
  BY <1>3, <1>7, <1>8, <1>9 DEF OneKey, NamesAlone
<1>11. \A i \in DOMAIN Literals(t) : Literals(t)[i].integral
  <2>1. t \in Tokens
    BY HereIs DEF t
  <2>2. Readable(ctx, t.jwt \o Rest(t))
    BY <1>1, <1>2, <2>1, LiteralsAre, ReadableConcat
  <2>3. QED
    BY <2>1, <2>2, LiteralsAre DEF Readable
<1>12. t.kb # Absent =>
         t.kb.formed /\ (t.cnf # Absent => t.kb.signer = t.cnf /\ t.kb.over = t.id)
  BY <1>1 DEF KbState
<1>13. Green(NewEntry)
  BY <1>1, <1>2, <1>3, <1>11, <1>12 DEF Green
<1>14. QED
  BY <1>1, <1>3, <1>7, <1>10, <1>13 DEF Sound

LEMMA InitMaking == Init => Making
BY DEF Init, Making, Building

\* The actions that leave a build alone.
LEMMA QuietMaking ==
  ASSUME Shape, Making, UNCHANGED <<asked, built>>, pc' \notin Building
  PROVE  Making'
BY DEF Making, Building

LEMMA BeginMaking ==
  ASSUME Shape, Making, Begin
  PROVE  Making'
<1>1. /\ ev' = EmptyPack /\ UNCHANGED <<asked, built>>
      /\ pc' \in {"end", "nest", "verify", "seal", "parse"}
  BY DEF Begin, EndWith, Goto
<1>2. ev'.block = Absent /\ ev'.anchors = <<>> /\ DOMAIN ev'.artifacts = {}
  BY <1>1 DEF EmptyPack
<1>3. QED
  BY <1>1, <1>2 DEF Making, Building

LEMMA ParseMaking ==
  ASSUME Shape, Making, Parse
  PROVE  Making'
<1> DEFINE r == Reading(ctx, Here.token.jwt)
<1>1. /\ pc = "parse" /\ ctx' = r.read
      /\ \/ pc' = "end"
         \/ pc' = "key" /\ r.ok /\ Here.token.formed /\ ~Here.token.crit
      /\ UNCHANGED <<session, call, index, saved, key, ev, answers, file, asked, built>>
  BY DEF Parse, EndWith, Goto
<1>2. Here' = Here
  BY <1>1 DEF Here
<1>3. ctx \in Seq(Literal) \union {Unset} /\ Here.token.jwt \in Seq(Literal)
  BY <1>1, HereIs, LiteralsAre DEF Shape, TypeOK
<1>4. (r.ok <=> Readable(ctx, Here.token.jwt)) /\ (r.read = Unset <=> ctx = Unset)
  BY <1>3, ReadingIs, ReadKeeps
<1>5. r.ok => Readable(ctx', Here.token.jwt)
  BY <1>1, <1>4 DEF Readable
<1> HIDE DEF r
<1>6. QED
  BY <1>1, <1>2, <1>5 DEF Making, Building

LEMMA ChooseKeyMaking ==
  ASSUME Shape, Making, ChooseKey
  PROVE  Making'
<1>1. /\ pc = "key" /\ pc' \in {"end", "check"}
      /\ UNCHANGED <<session, call, index, ctx, saved, ev, answers, file, asked, built>>
  BY DEF ChooseKey, EndWith, Goto
<1>2. Here' = Here
  BY <1>1 DEF Here
<1>3. QED
  BY <1>1, <1>2 DEF Making, Building

LEMMA CheckArtifactMaking ==
  ASSUME Shape, Making, CheckArtifact
  PROVE  Making'
<1>1. /\ pc = "check"
      /\ UNCHANGED <<session, call, saved, key, answers, file, asked, built>>
      /\ \/ pc' = "end"
         \/ /\ Checked.kb \notin {"error", "bad_hash", "bad_signature"}
            /\ ev' = [ev EXCEPT !.artifacts = Append(ev.artifacts, NewEntry)]
            /\ pc' \in {"seal", "parse"}
  BY CheckArtifactIs
<1>2. CASE pc' = "end"
  BY <1>1, <1>2, QuietMaking DEF Building
<1>3. CASE pc' # "end"
  <2>1. ev \in Packs /\ ev.artifacts \in Seq(Entries) /\ NewEntry \in Entries
    BY <1>1, <1>3, NewEntryIs DEF Shape, TypeOK, Packs
  <2>2. /\ ev'.artifacts = Append(ev.artifacts, NewEntry)
        /\ ev'.block = Absent /\ ev'.anchors = <<>>
    BY <1>1, <1>3, <2>1 DEF Making, Building, Packs
  <2>3. \A i \in DOMAIN ev'.artifacts : Sound(ev'.artifacts[i], call)
    <3>1. Sound(NewEntry, call)
      BY <1>1, <1>3, NewEntrySound
    <3>2. \A i \in DOMAIN ev.artifacts : Sound(ev.artifacts[i], call)
      BY <1>1 DEF Making, Building
    <3>3. /\ ev'.artifacts \in Seq(Entries)
          /\ Len(ev'.artifacts) = Len(ev.artifacts) + 1 /\ Len(ev.artifacts) \in Nat
          /\ \A i \in 1..Len(ev.artifacts) : ev'.artifacts[i] = ev.artifacts[i]
          /\ ev'.artifacts[Len(ev.artifacts) + 1] = NewEntry
      BY <2>1, <2>2, AppendProperties, LenProperties
    <3>4. /\ DOMAIN ev.artifacts = 1..Len(ev.artifacts)
          /\ DOMAIN ev'.artifacts = 1..(Len(ev.artifacts) + 1)
      BY <2>1, <3>3, LenProperties
    <3>5. ASSUME NEW i \in DOMAIN ev'.artifacts PROVE Sound(ev'.artifacts[i], call)
      <4>1. CASE i = Len(ev.artifacts) + 1
        BY <3>1, <3>3, <4>1
      <4>2. CASE i # Len(ev.artifacts) + 1
        <5>1. i \in 1..Len(ev.artifacts)
          BY <3>3, <3>4, <4>2
        <5>2. QED
          BY <3>2, <3>3, <3>4, <5>1
      <4>3. QED
        BY <4>1, <4>2
    <3>6. QED
      BY <3>5
  <2>4. QED
    BY <1>1, <1>3, <2>2, <2>3 DEF Making, Building
<1>4. QED
  BY <1>2, <1>3

LEMMA SealMaking ==
  ASSUME Shape, Making, Seal
  PROVE  Making'
<1>1. /\ pc = "seal" /\ ev' = Sealed(ev)
      /\ \/ pc' = "end"
         \/ pc' = "stamp" /\ ~TooDeep(ev')
      /\ UNCHANGED <<session, call, ctx, saved, key, answers, file, asked, built>>
  BY DEF Seal, EndWith, Goto
<1>2. /\ ev'.artifacts = ev.artifacts /\ ev'.block = ev.block /\ ev'.anchors = ev.anchors
      /\ ev'.bindings = FindBindings(ev.artifacts)
      /\ ev'.digest = <<ev.artifacts, FindBindings(ev.artifacts)>>
  BY <1>1, PacksAre DEF Shape, TypeOK
<1>3. ev.block = Absent /\ ev.anchors = <<>>
  BY <1>1 DEF Making, Building
<1>4. pc' = "stamp" => Closed(ev)'
  <2>1. DOMAIN ev'.anchors = {}
    BY <1>2, <1>3
  <2>2. QED
    BY <1>1, <1>2, <1>3, <2>1 DEF Closed, Content
<1>5. QED
  BY <1>1, <1>2, <1>4 DEF Making, Building

\* A token over the pack joins it: the pack stays closed.
LEMMA StampedStaysClosed ==
  ASSUME NEW pk \in Packs, Closed(pk), NEW s \in Stamps, Over(s, pk), NEW qk,
         \/ qk = [pk EXCEPT !.block = s]
         \/ qk = [pk EXCEPT !.anchors = Append(pk.anchors, s)]
  PROVE  Closed(qk) /\ qk.artifacts = pk.artifacts
<1>1. /\ qk.artifacts = pk.artifacts /\ qk.bindings = pk.bindings /\ qk.digest = pk.digest
      /\ \/ qk.block = s /\ qk.anchors = pk.anchors
         \/ qk.block = pk.block /\ qk.anchors = Append(pk.anchors, s)
  BY DEF Packs
<1>2. Content(qk) = Content(pk) /\ (TooDeep(qk) <=> TooDeep(pk))
  BY <1>1 DEF Content, TooDeep
<1>3. \A i \in DOMAIN qk.anchors : Over(qk.anchors[i], pk)
  <2>1. CASE qk.anchors = pk.anchors
    BY <2>1 DEF Closed
  <2>2. CASE qk.anchors = Append(pk.anchors, s)
    <3>1. pk.anchors \in Seq(Stamps)
      BY DEF Packs
    <3>2. /\ Len(pk.anchors) \in Nat /\ DOMAIN pk.anchors = 1..Len(pk.anchors)
          /\ Len(qk.anchors) = Len(pk.anchors) + 1
          /\ qk.anchors \in Seq(Stamps)
          /\ \A i \in 1..Len(pk.anchors) : qk.anchors[i] = pk.anchors[i]
          /\ qk.anchors[Len(pk.anchors) + 1] = s
      BY <2>2, <3>1, AppendProperties, LenProperties
    <3>3. DOMAIN qk.anchors = 1..(Len(pk.anchors) + 1)
      BY <3>2, LenProperties
    <3>4. ASSUME NEW i \in DOMAIN qk.anchors PROVE Over(qk.anchors[i], pk)
      <4>1. i = Len(pk.anchors) + 1 \/ i \in 1..Len(pk.anchors)
        BY <3>2, <3>3
      <4>2. QED
        BY <3>2, <4>1 DEF Closed
    <3>5. QED
      BY <3>4
  <2>3. QED
    BY <1>1, <2>1, <2>2
<1>4. qk.block # Absent => Over(qk.block, pk)
  BY <1>1 DEF Closed
<1>5. QED
  BY <1>1, <1>2, <1>3, <1>4 DEF Closed, Over

LEMMA StampMaking ==
  ASSUME Shape, Making, Stamp
  PROVE  Making'
<1>1. /\ pc = "stamp" /\ asked' = asked \union {ev.digest}
      /\ UNCHANGED <<session, call, pc, ctx, saved, key, answers, file, result, built>>
  BY StampIs
<1>2. ev \in Packs /\ Closed(ev) /\ \A i \in DOMAIN ev.artifacts : Sound(ev.artifacts[i], call)
  BY <1>1 DEF Shape, TypeOK, Making, Building
<1>3. Closed(ev)' /\ ev'.artifacts = ev.artifacts
  <2>1. CASE ev' = ev
    BY <1>2, <2>1 DEF Closed, Content, Over, TooDeep
  <2>2. ASSUME NEW s \in Stamps, s.granted, s.imprint = ev.digest,
               \/ ev' = [ev EXCEPT !.block = s]
               \/ ev' = [ev EXCEPT !.anchors = Append(ev.anchors, s)]
        PROVE  Closed(ev)' /\ ev'.artifacts = ev.artifacts
    <3>1. Over(s, ev)
      BY <1>2, <2>2 DEF Closed, Over
    <3>2. QED
      BY <1>2, <2>2, <3>1, StampedStaysClosed
  <2>3. QED
    BY <2>1, <2>2, StampIs
<1>4. \A content \in asked' : \A i \in DOMAIN content[1] : Green(content[1][i])
  <2>1. ev.digest[1] = ev.artifacts
    BY <1>2 DEF Closed, Content
  <2>2. \A i \in DOMAIN ev.artifacts : Green(ev.artifacts[i])
    BY <1>2 DEF Sound
  <2>3. \A content \in asked : \A i \in DOMAIN content[1] : Green(content[1][i])
    BY DEF Making
  <2>4. QED
    BY <1>1, <2>1, <2>2, <2>3
<1>5. QED
  BY <1>1, <1>2, <1>3, <1>4 DEF Making, Building

LEMMA WriteMaking ==
  ASSUME Shape, Making, Write
  PROVE  Making'
<1>1. /\ pc = "stamp" /\ pc' = "end"
      /\ UNCHANGED <<session, call, index, ctx, saved, key, ev, answers, asked>>
      /\ \/ /\ ~TooLarge(ev) /\ file' = ev
            /\ built' = [pack |-> ev, read |-> ctx, call |-> call]
         \/ UNCHANGED <<file, built>>
  BY WriteIs
<1>2. /\ ev \in Packs /\ Closed(ev)
      /\ \A i \in DOMAIN ev.artifacts : Sound(ev.artifacts[i], call)
  BY <1>1 DEF Shape, TypeOK, Making, Building
<1>3. built' # Unset =>
        /\ built'.pack \in Packs /\ Closed(built'.pack) /\ ~TooLarge(built'.pack)
        /\ \A i \in DOMAIN built'.pack.artifacts :
             Sound(built'.pack.artifacts[i], built'.call)
  BY <1>1, <1>2 DEF Making
<1>4. QED
  BY <1>1, <1>3 DEF Making, Building

LEMMA VerifyingMaking ==
  ASSUME Shape, Making,
         End \/ Nest \/ VerifyArtifact \/ Verified \/ Reread \/ Compared
  PROVE  Making'
<1>1. UNCHANGED <<asked, built>> /\ pc' \notin Building
  BY DEF End, Nest, VerifyArtifact, Verified, Reread, Compared, Goto, Building
<1>2. QED
  BY <1>1, QuietMaking

\* Of each entry build has sealed, and of the last pack it reported, it knows what
\* Sound and Closed say; what a TSA was asked about is green.
THEOREM MakingHolds == Spec => []Making
<1>1. Shape /\ Making /\ [Next]_vars => Making'
  <2>1. Shape /\ Making /\ Next => Making'
    BY BeginMaking, ParseMaking, ChooseKeyMaking, CheckArtifactMaking, SealMaking,
       StampMaking, WriteMaking, VerifyingMaking DEF Next
  <2>2. Making /\ UNCHANGED vars => Making'
    BY DEF Making, vars, Here, Building
  <2>3. QED
    BY <2>1, <2>2
<1>2. QED
  BY <1>1, InitMaking, ShapeHolds, PTL DEF Spec

\* The key of every artifact of a pack that build reports is the one named by
\* everything that names one: _snapshot_key and _reconcile_unused_header_keys.
THEOREM EveryArtifactHasOneKey == Spec => []OneKeyPerArtifact
<1>1. Making => OneKeyPerArtifact
  BY DEF Making, OneKeyPerArtifact, Sound
<1>2. QED
  BY <1>1, MakingHolds, PTL

\* Nothing that does not verify is in a pack that build reports, or in what it
\* asks a TSA about: _build_evidence seals, stamps and writes verified artifacts.
THEOREM NoRedLight == Spec => []NothingRedLeaves
<1>1. Making => NothingRedLeaves
  <2>1. SUFFICES ASSUME Making,
                        NEW content \in asked \union
                              (IF built = Unset THEN {} ELSE {built.pack.digest})
                 PROVE  \A i \in DOMAIN content[1] : Green(content[1][i])
    BY DEF NothingRedLeaves
  <2>2. CASE content \in asked
    BY <2>1, <2>2 DEF Making
  <2>3. CASE built # Unset /\ content = built.pack.digest
    <3>1. content[1] = built.pack.artifacts
      BY <2>1, <2>3 DEF Making, Closed, Content
    <3>2. QED
      BY <2>1, <2>3, <3>1 DEF Making, Sound
  <2>4. QED
    BY <2>1, <2>2, <2>3
<1>2. QED
  BY <1>1, MakingHolds, PTL

-----------------------------------------------------------------------------
(* The literals that build has read.                                       *)

\* What was read is what there is to read in these entries: all of it, or, without
\* the option, nothing.
Accounts(read, es) ==
  IF read = Unset THEN \A i \in DOMAIN es : Literals(es[i].token) = <<>>
  ELSE read = AllLiterals(es)

Listing ==
  /\ pc \in {"parse", "seal", "stamp"} => Accounts(ctx, ev.artifacts)
  /\ pc \in {"key", "check"} =>
       IF ctx = Unset THEN Accounts(ctx, ev.artifacts)
       ELSE ctx = AllLiterals(ev.artifacts) \o Here.token.jwt
  /\ built # Unset => built.read \in Seq(Literal) \union {Unset}
                      /\ Accounts(built.read, built.pack.artifacts)

LEMMA InitListing == Init => Listing
BY DEF Init, Listing

\* An entry more, and what it has to read was read.
LEMMA AccountsGrow ==
  ASSUME NEW es \in Seq(Entries), NEW e \in Entries, NEW read, NEW now,
         Accounts(read, es) \/ read # Unset,
         read = Unset => now = Unset /\ Literals(e.token) = <<>>,
         read # Unset => now # Unset /\ now = AllLiterals(es) \o Literals(e.token)
  PROVE  Accounts(now, Append(es, e))
<1>1. CASE read # Unset
  BY <1>1, AllLiteralsAre DEF Accounts
<1>2. CASE read = Unset
  <2>1. /\ Len(es) \in Nat /\ DOMAIN es = 1..Len(es)
        /\ Append(es, e) \in Seq(Entries) /\ Len(Append(es, e)) = Len(es) + 1
        /\ \A i \in 1..Len(es) : Append(es, e)[i] = es[i]
        /\ Append(es, e)[Len(es) + 1] = e
    BY LenProperties, AppendProperties
  <2>2. DOMAIN Append(es, e) = 1..(Len(es) + 1)
    BY <2>1, LenProperties
  <2>3. ASSUME NEW i \in DOMAIN Append(es, e)
        PROVE  Literals(Append(es, e)[i].token) = <<>>
    <3>1. i = Len(es) + 1 \/ i \in 1..Len(es)
      BY <2>1, <2>2
    <3>2. QED
      BY <1>2, <2>1, <3>1 DEF Accounts
  <2>4. QED
    BY <1>2, <2>3 DEF Accounts
<1>3. QED
  BY <1>1, <1>2

LEMMA BeginListing ==
  ASSUME Shape, Listing, Begin
  PROVE  Listing'
<1>1. /\ pc = "idle" /\ ev' = EmptyPack /\ UNCHANGED <<asked, built>>
      /\ pc' \in {"end", "nest", "verify", "seal", "parse"}
      /\ session # <<>> /\ call' = Head(session) /\ Set(call'.accept)
  BY DEF Begin, EndWith, Goto
<1>2. call'.accept \in BOOLEAN
  BY <1>1, HeadTailProperties, CallsAssumption DEF Shape, TypeOK
<1>3. ctx' # Unset => ctx' = <<>>
  BY <1>1, <1>2, Saves DEF Shape, TypeOK
<1>4. ev'.artifacts = <<>> /\ DOMAIN ev'.artifacts = {}
  BY <1>1 DEF EmptyPack
<1>5. Accounts(ctx', ev'.artifacts)
  BY <1>3, <1>4, AllLiteralsAre DEF Accounts
<1>6. QED
  BY <1>1, <1>5 DEF Listing

LEMMA ParseListing ==
  ASSUME Shape, Listing, Parse
  PROVE  Listing'
<1> DEFINE l == Here.token.jwt
           r == Reading(ctx, l)
<1>1. /\ pc = "parse" /\ ctx' = r.read
      /\ pc' \in {"end", "key"} /\ (pc' = "key" => r.ok)
      /\ UNCHANGED <<session, call, index, saved, key, ev, answers, file, asked, built>>
  BY DEF Parse, EndWith, Goto
<1>2. Here' = Here
  BY <1>1 DEF Here
<1>3. ctx \in Seq(Literal) \union {Unset} /\ l \in Seq(Literal)
  BY <1>1, HereIs, LiteralsAre DEF Shape, TypeOK
<1> HIDE DEF l
<1>4. /\ ctx = Unset => r.read = Unset
      /\ r.read = Unset <=> ctx = Unset
      /\ ctx # Unset => \E p, q \in Seq(Literal) :
                          l = p \o q /\ r.read = ctx \o p /\ (r.ok => q = <<>>)
  BY <1>3, ReadingIs, ReadKeeps
<1> HIDE DEF r
<1>5. ctx # Unset /\ r.ok => r.read = ctx \o l
  <2>1. SUFFICES ASSUME ctx # Unset, r.ok PROVE r.read = ctx \o l
    OBVIOUS
  <2>2. PICK p \in Seq(Literal) : l = p \o <<>> /\ r.read = ctx \o p
    BY <1>4, <2>1
  <2>3. p \o <<>> = p
    BY ConcatEmptySeq
  <2>4. QED
    BY <2>2, <2>3
<1>6. Accounts(ctx, ev.artifacts)
  BY <1>1 DEF Listing
<1>7. pc' = "key" => IF ctx' = Unset THEN Accounts(ctx', ev.artifacts)
                     ELSE ctx' = AllLiterals(ev.artifacts) \o l
  BY <1>1, <1>4, <1>5, <1>6 DEF Accounts
<1>8. QED
  BY <1>1, <1>2, <1>7 DEF Listing, l

LEMMA ChooseKeyListing ==
  ASSUME Shape, Listing, ChooseKey
  PROVE  Listing'
<1>1. /\ pc = "key" /\ pc' \in {"end", "check"}
      /\ UNCHANGED <<session, call, index, ctx, saved, ev, answers, file, asked, built>>
  BY DEF ChooseKey, EndWith, Goto
<1>2. Here' = Here
  BY <1>1 DEF Here
<1>3. QED
  BY <1>1, <1>2 DEF Listing

LEMMA CheckArtifactListing ==
  ASSUME Shape, Making, Listing, CheckArtifact
  PROVE  Listing'
<1> DEFINE t == Here.token
<1>1. /\ pc = "check" /\ ctx' = Checked.read
      /\ UNCHANGED <<session, call, saved, key, answers, file, asked, built>>
      /\ \/ pc' = "end"
         \/ /\ Checked.kb \notin {"error", "bad_hash", "bad_signature"}
            /\ ev' = [ev EXCEPT !.artifacts = Append(ev.artifacts, NewEntry)]
            /\ pc' \in {"seal", "parse"}
  BY CheckArtifactIs
<1>2. CASE pc' = "end"
  BY <1>1, <1>2 DEF Listing
<1>3. CASE pc' # "end"
  <2>1. /\ ev \in Packs /\ ev.artifacts \in Seq(Entries) /\ NewEntry \in Entries
        /\ NewEntry.token = t /\ t \in Tokens /\ ctx \in Seq(Literal) \union {Unset}
    BY <1>1, <1>3, NewEntryIs, HereIs DEF Shape, TypeOK, Packs, NewEntry
  <2>2. ev'.artifacts = Append(ev.artifacts, NewEntry)
    BY <1>1, <1>3, <2>1 DEF Packs
  <2>3. /\ t.jwt \in Seq(Literal) /\ Rest(t) \in Seq(Literal)
        /\ Literals(t) = t.jwt \o Rest(t)
    BY <2>1, LiteralsAre
  <2>4. AllLiterals(ev.artifacts) \in Seq(Literal)
    BY <2>1, AllLiteralsAre
  <2> DEFINE after == SigOk(t, key.jwk) /\ Reconciled(t, key)
             k == key.jwk
             A == AllLiterals(ev.artifacts)
  <2>5. Checked = Checking(ctx, t, k, after) /\ after \in BOOLEAN
    BY DEF Checked, SigOk, Reconciled
  <2>6. Readable(ctx, t.jwt) /\ Readable(ctx, Rest(t))
    BY <1>1, <1>3, NewEntryIs DEF Making
  <2> HIDE DEF t, after, k, A
  <2>7. /\ ctx = Unset => Checked.read = Unset
        /\ Checked.read = Unset <=> ctx = Unset
        /\ ctx # Unset =>
             \E p, q \in Seq(Literal) :
               /\ Rest(t) = p \o q
               /\ Checking(ctx, t, k, after).read = ctx \o p
               /\ Checking(ctx, t, k, after).kb # "error" => q = <<>>
    <3>1. ctx \in Seq(Literal) \union {Unset} /\ t \in Tokens /\ after \in BOOLEAN
      BY <2>1, <2>5
    <3>2. ctx = Unset => Checking(ctx, t, k, after).read = Unset
      BY <3>1, CheckingIs
    <3>3. Checking(ctx, t, k, after).read = Unset <=> ctx = Unset
      BY <3>1, CheckKeeps
    <3>4. ctx # Unset =>
             \E p, q \in Seq(Literal) :
               /\ Rest(t) = p \o q
               /\ Checking(ctx, t, k, after).read = ctx \o p
               /\ Checking(ctx, t, k, after).kb # "error" => q = <<>>
      BY <3>1, CheckingIs
    <3>5. QED
      BY <2>5, <3>2, <3>3, <3>4
  <2>8. CASE ctx = Unset
    <3>1. t.jwt = <<>> /\ Rest(t) = <<>>
      BY <2>6, <2>8 DEF Readable
    <3>2. <<>> \o <<>> = <<>>
      BY Lists
    <3>3. Literals(t) = <<>>
      BY <2>3, <3>1, <3>2
    <3>4. Accounts(ctx, ev.artifacts)
      BY <1>1, <2>8 DEF Listing
    <3>5. Accounts(ctx', Append(ev.artifacts, NewEntry))
      BY <1>1, <2>1, <2>7, <2>8, <3>3, <3>4, AccountsGrow
    <3>6. QED
      BY <1>1, <1>3, <2>2, <3>5 DEF Listing
  <2>9. CASE ctx # Unset
    <3>1. ctx = A \o t.jwt
      BY <1>1, <2>9 DEF Listing, A, t
    <3>2. PICK p \in Seq(Literal) : Rest(t) = p \o <<>> /\ Checked.read = ctx \o p
      BY <1>1, <1>3, <2>5, <2>7, <2>9
    <3>3. Rest(t) = p
      BY <3>2, Lists
    <3>4. A \in Seq(Literal) /\ t.jwt \in Seq(Literal) /\ Rest(t) \in Seq(Literal)
      BY <2>3, <2>4 DEF A
    <3>5. (A \o t.jwt) \o Rest(t) = A \o (t.jwt \o Rest(t))
      <4> DEFINE a == t.jwt
                 b == Rest(t)
      <4>1. a \in Seq(Literal) /\ b \in Seq(Literal) /\ A \in Seq(Literal)
        BY <3>4
      <4> HIDE DEF a, b
      <4>2. (A \o a) \o b = A \o (a \o b)
        BY <4>1, Brackets
      <4>3. QED
        BY <4>2 DEF a, b
    <3>6. ctx' = A \o Literals(t) /\ ctx' # Unset
      BY <1>1, <2>3, <2>7, <2>9, <3>1, <3>2, <3>3, <3>5
    <3>7. Accounts(ctx', Append(ev.artifacts, NewEntry))
      BY <2>1, <2>9, <3>6, AccountsGrow DEF A
    <3>8. QED
      BY <1>1, <1>3, <2>2, <3>7 DEF Listing
  <2>10. QED
    BY <2>8, <2>9
<1>4. QED
  BY <1>2, <1>3

LEMMA SealListing ==
  ASSUME Shape, Listing, Seal
  PROVE  Listing'
<1>1. /\ pc = "seal" /\ ev' = Sealed(ev) /\ pc' \in {"end", "stamp"}
      /\ UNCHANGED <<session, call, ctx, saved, key, answers, file, asked, built>>
  BY DEF Seal, EndWith, Goto
<1>2. ev'.artifacts = ev.artifacts
  BY <1>1, PacksAre DEF Shape, TypeOK
<1>3. QED
  BY <1>1, <1>2 DEF Listing

LEMMA StampListing ==
  ASSUME Shape, Listing, Stamp
  PROVE  Listing'
<1>1. /\ pc = "stamp"
      /\ UNCHANGED <<session, call, pc, ctx, saved, key, answers, file, result, built>>
  BY StampIs
<1>2. ev'.artifacts = ev.artifacts
  <2>1. ev \in Packs
    BY DEF Shape, TypeOK
  <2>2. \/ ev' = ev
        \/ \E s \in Stamps : \/ ev' = [ev EXCEPT !.block = s]
                             \/ ev' = [ev EXCEPT !.anchors = Append(ev.anchors, s)]
    BY StampIs
  <2>3. QED
    BY <2>1, <2>2 DEF Packs
<1>3. QED
  BY <1>1, <1>2 DEF Listing

LEMMA WriteListing ==
  ASSUME Shape, Listing, Write
  PROVE  Listing'
<1>1. /\ pc = "stamp" /\ pc' = "end"
      /\ UNCHANGED <<session, call, index, ctx, saved, key, ev, answers, asked>>
      /\ \/ built' = [pack |-> ev, read |-> ctx, call |-> call]
         \/ UNCHANGED <<file, built>>
  BY WriteIs
<1>2. Accounts(ctx, ev.artifacts) /\ ctx \in Seq(Literal) \union {Unset}
  BY <1>1 DEF Shape, TypeOK, Listing
<1>3. QED
  BY <1>1, <1>2 DEF Listing

LEMMA VerifyingListing ==
  ASSUME Shape, Listing,
         End \/ Nest \/ VerifyArtifact \/ Verified \/ Reread \/ Compared
  PROVE  Listing'
<1>1. UNCHANGED <<asked, built>> /\ pc' \notin Building
  BY DEF End, Nest, VerifyArtifact, Verified, Reread, Compared, Goto, Building
<1>2. QED
  BY <1>1 DEF Listing, Building

THEOREM ListingHolds == Spec => []Listing
<1>1. Shape /\ Making /\ Listing /\ [Next]_vars => Listing'
  <2>1. Shape /\ Making /\ Listing /\ Next => Listing'
    BY BeginListing, ParseListing, ChooseKeyListing, CheckArtifactListing, SealListing,
       StampListing, WriteListing, VerifyingListing DEF Next
  <2>2. Listing /\ UNCHANGED vars => Listing'
    BY DEF Listing, vars, Here
  <2>3. QED
    BY <2>1, <2>2
<1>2. QED
  BY <1>1, InitListing, ShapeHolds, MakingHolds, PTL DEF Spec

-----------------------------------------------------------------------------
(* What verify finds of a pack that build has reported.                    *)

\* What verify found of an artifact speaks for the pack.
Passes(a) == ~a.error /\ a.sig /\ a.claims /\ a.kb \in {"absent", "unknown", "ok"}

\* The verdict on a closed pack is the one on its artifacts.
LEMMA VerdictIs ==
  ASSUME NEW pk \in Packs, Closed(pk), NEW found \in Seq(Answers)
  PROVE  ValidPack(pk, found) <=> found # <<>> /\ \A i \in DOMAIN found : Passes(found[i])
<1> DEFINE j == Judged(pk, found)
           arts == [i \in DOMAIN found |->
                      [error |-> found[i].error, sig |-> found[i].sig,
                       claims |-> found[i].claims, kb |-> found[i].kb,
                       x5c |-> FALSE, broken |-> FALSE, from |-> 0, to |-> 0]]
<1>1. /\ j.digest /\ j.bindings /\ j.producer = Absent /\ j.artifacts = arts
  BY DEF Judged, Closed
<1>2. /\ j.block = IF pk.block = Absent THEN Absent
                   ELSE [token |-> IF pk.block.imprint = Content(pk) THEN "same" ELSE "other",
                         granted |-> pk.block.granted, tst |-> 1, time |-> 0, tsa |-> FALSE]
      /\ j.anchors = [i \in DOMAIN pk.anchors |->
                        [token |-> IF pk.anchors[i].imprint = Content(pk)
                                     THEN "same" ELSE "other",
                         granted |-> pk.anchors[i].granted, tst |-> 1, time |-> 0,
                         tsa |-> FALSE]]
  BY DEF Judged
<1>3. ~V!Rfc3161Fails(j)
  <2>1. pk.block # Absent => j.block.token = "same" /\ j.block.granted
    BY <1>2 DEF Closed, Over
  <2>2. j.block # Absent => pk.block # Absent
    BY <1>2
  <2>3. /\ DOMAIN j.anchors = DOMAIN pk.anchors
        /\ \A i \in DOMAIN pk.anchors : j.anchors[i].token = "same" /\ j.anchors[i].granted
    BY <1>2 DEF Closed, Over
  <2>4. 0 \notin DOMAIN j.anchors
    <3>1. pk.anchors \in Seq(Stamps)
      BY DEF Packs
    <3>2. DOMAIN pk.anchors = 1..Len(pk.anchors)
      BY <3>1, LenProperties
    <3>3. QED
      BY <2>3, <3>2
  <2> HIDE DEF j
  <2>5. ASSUME NEW i \in V!Claimed(j) PROVE V!Bound(V!Token(j, i))
    <3>1. (i = 0 /\ j.block # Absent) \/ i \in DOMAIN j.anchors
      BY DEF V!Claimed
    <3>2. QED
      BY <2>1, <2>2, <2>3, <2>4, <3>1 DEF V!Token, V!Bound
  <2>6. QED
    BY <2>5 DEF V!Rfc3161Fails
<1> HIDE DEF j
<1>4. \A ans : V!PolicyGaps(j, NoPolicy, ans) = {}
  BY DEF V!PolicyGaps, NoPolicy
<1>5. DOMAIN arts = DOMAIN found /\ \A i \in DOMAIN found :
        /\ arts[i].error = found[i].error /\ arts[i].sig = found[i].sig
        /\ arts[i].claims = found[i].claims /\ arts[i].kb = found[i].kb
  OBVIOUS
<1>6. arts # <<>> <=> found # <<>>
  <2>1. DOMAIN found = 1..Len(found) /\ Len(found) \in Nat
    BY LenProperties
  <2>2. found # <<>> => 1 \in DOMAIN found
    BY <2>1, EmptySeq
  <2>3. found = <<>> => arts = <<>>
    OBVIOUS
  <2>4. 1 \notin DOMAIN <<>>
    OBVIOUS
  <2>5. QED
    BY <1>5, <2>2, <2>3, <2>4
<1> HIDE DEF arts
<1>7. \A i \in DOMAIN found :
        found[i].kb \in {"absent", "ok", "unknown", "bad_hash", "bad_signature"}
  <2>1. \A i \in DOMAIN found : found[i] \in Answers
    BY ElementOfSeq, LenProperties
  <2>2. QED
    BY <2>1 DEF Answers
<1>8. V!AllOk(j, NoPolicy) <=> \A i \in DOMAIN found : Passes(found[i])
  <2>1. ~V!Unpinned(j, NoPolicy) /\ (j.producer # Absent => V!BlockOk(j.producer))
    BY <1>1 DEF V!Unpinned, NoPolicy
  <2>2. V!Intact(j) <=> \A i \in DOMAIN found : ~found[i].error /\ found[i].sig /\ found[i].claims
    BY <1>1, <1>5 DEF V!Intact
  <2>3. V!Intact(j) => V!Read(j) = {arts[i] : i \in DOMAIN found}
    BY <1>1, <1>5 DEF V!Intact, V!Read
  <2>4. V!Intact(j) => ((\A a \in V!Read(j) : a.kb \notin {"bad_hash", "bad_signature"})
                        <=> \A i \in DOMAIN found : found[i].kb \in {"absent", "unknown", "ok"})
    BY <1>5, <1>7, <2>3
  <2>5. QED
    BY <2>1, <2>2, <2>4 DEF V!AllOk, Passes
<1>9. QED
  BY <1>1, <1>3, <1>4, <1>6, <1>8 DEF ValidPack, V!Valid, j

\* What verify lists of an artifact is its own.
OwnLiterals(a, t) ==
  a.read # Unset =>
    /\ Len(a.read) <= Len(Literals(t))
    /\ a.read = SubSeq(Literals(t), 1, Len(a.read))
    /\ a.error \/ a.read = Literals(t)

\* The literals of the artifact can be read in this call.
Legible(t) == call.accept \/ Literals(t) = <<>>

\* What the call finds of an artifact of a pack that build has reported.
AsBuilt(a, t) == IF Legible(t) THEN Passes(a) ELSE a.error

Judging ==
  /\ pc \in Building => answers = <<>>
  /\ pc \in {"nest", "verify"} => index = Len(answers) + 1
  /\ pc = "verify" => Len(answers) <= Len(file.artifacts)
  /\ pc = "nest" => answers = <<>>
  /\ \A i \in DOMAIN answers : OwnLiterals(answers[i], file.artifacts[i].token)
  /\ pc = "verify" /\ built # Unset /\ file = built.pack =>
       \A i \in DOMAIN answers : AsBuilt(answers[i], file.artifacts[i].token)
  /\ pc \in {"reread", "end"} /\ call.cmd # "build" /\ built # Unset
       /\ file = built.pack =>
       (result = "valid" <=>
          /\ file.artifacts # <<>>
          /\ \A i \in DOMAIN file.artifacts : Legible(file.artifacts[i].token))

\* What verify finds of one of its artifacts.
LEMMA FoundAsBuilt ==
  ASSUME Shape, Making, pc = "verify", index <= Len(file.artifacts)
  PROVE  /\ OwnLiterals(Finding, Entry.token)
         /\ built # Unset /\ file = built.pack => AsBuilt(Finding, Entry.token)
<1> DEFINE t == Entry.token
           L == Literals(t)
           rd == ReadSince(Inside.read, ctx)
<1>1. /\ Finding.error = Wrong /\ Finding.read = rd
      /\ Finding.sig = SigOk(t, Entry.key.jwk) /\ Finding.claims = (Entry.claims = t.id)
      /\ Finding.kb = IF Wrong THEN "absent" ELSE Inside.kb
  BY DEF Finding
<1>2. t \in Tokens /\ L \in Seq(Literal) /\ (ctx # Unset <=> call.accept)
  BY EntryIs, LiteralsAre DEF Shape, InForce
<1>3. /\ Inside.kb = IF /\ t.formed /\ ~t.crit
                        /\ ProvenanceHolds(t, Entry.key) /\ Reconciled(t, Entry.key)
                        /\ Entry.key.jwk \in Keys /\ t.resolves /\ Readable(ctx, L)
                       THEN KbState(t) ELSE "error"
      /\ ctx = Unset => rd = Unset
      /\ ctx # Unset =>
           \E p, q \in Seq(Literal) :
             /\ L = p \o q /\ rd = p
             /\ Inside.read = ctx \o p
             /\ Inside.kb # "error" => q = <<>>
  BY InsideIs
<1> HIDE DEF t, L, rd
<1>4. OwnLiterals(Finding, t)
  <2>1. SUFFICES ASSUME ctx # Unset
                 PROVE  Len(rd) <= Len(L) /\ rd = SubSeq(L, 1, Len(rd)) /\ (Wrong \/ rd = L)
    BY <1>1, <1>3 DEF OwnLiterals, L
  <2>2. PICK p, q \in Seq(Literal) :
          L = p \o q /\ rd = p /\ (Inside.kb # "error" => q = <<>>)
    BY <1>3, <2>1
  <2>3. Len(p) <= Len(p \o q) /\ SubSeq(p \o q, 1, Len(p)) = p
    BY HeadIs
  <2>4. ~Wrong => q = <<>>
    BY <2>2 DEF Wrong
  <2>5. p \o <<>> = p
    BY Lists
  <2>6. QED
    BY <2>2, <2>3, <2>4, <2>5
<1>5. ASSUME built # Unset, file = built.pack
      PROVE  AsBuilt(Finding, t)
  <2>1. Sound(Entry, built.call)
    BY <1>5, EntryIs DEF Making, Entry
  <2>2. /\ t.formed /\ ~t.crit /\ t.resolves /\ t.signer = Entry.key.jwk
        /\ ProvenanceHolds(t, Entry.key) /\ Reconciled(t, Entry.key)
        /\ Entry.key.jwk \in Keys /\ Entry.claims = t.id
        /\ Entry.kb = KbState(t) /\ Entry.kb \in {"absent", "unknown", "ok"}
        /\ \A i \in DOMAIN L : L[i].integral
    BY <2>1 DEF Sound, Green, t, L
  <2>3. Readable(ctx, L) <=> Legible(t)
    BY <1>2, <2>2 DEF Readable, Legible, L
  <2>4. CASE Legible(t)
    <3>1. Inside.kb = KbState(t)
      BY <1>3, <2>2, <2>3, <2>4
    <3>2. ~Wrong
      BY <2>2, <3>1 DEF Wrong
    <3>3. Passes(Finding)
      BY <1>1, <2>2, <3>1, <3>2 DEF Passes, SigOk
    <3>4. QED
      BY <2>4, <3>3 DEF AsBuilt
  <2>5. CASE ~Legible(t)
    <3>1. Inside.kb = "error"
      BY <1>3, <2>3, <2>5
    <3>2. QED
      BY <1>1, <2>5, <3>1 DEF AsBuilt, Wrong
  <2>6. QED
    BY <2>4, <2>5
<1>6. QED
  BY <1>4, <1>5 DEF t

LEMMA InitJudging == Init => Judging
BY DEF Init, Judging, Building

\* The actions of a build, which finds nothing, and the ends of the calls.
LEMMA QuietJudging ==
  ASSUME Shape, Judging,
         \/ Parse \/ ChooseKey \/ CheckArtifact \/ Seal \/ Stamp \/ Write
         \/ End \/ Reread \/ Compared
  PROVE  Judging'
<1>1. CASE Parse \/ ChooseKey \/ CheckArtifact \/ Seal \/ Stamp \/ Write
  <2>1. /\ pc \in Building /\ pc' \in Building \union {"end"}
        /\ UNCHANGED <<call, answers>>
    BY <1>1, StampIs
       DEF Parse, ChooseKey, CheckArtifact, Seal, Write, EndWith, Goto, Building
  <2>2. call.cmd = "build" /\ answers = <<>>
    BY <2>1 DEF Shape, Ordered, Judging, Building
  <2>3. QED
    BY <2>1, <2>2 DEF Judging, Building
<1>2. CASE End
  <2>1. pc' = "idle" /\ UNCHANGED <<answers, file>>
    BY <1>2 DEF End, Goto
  <2>2. QED
    BY <2>1 DEF Judging, Building, OwnLiterals
<1>3. CASE Reread \/ Compared
  <2>1. /\ pc = "reread" /\ pc' \in {"reread", "end"}
        /\ UNCHANGED <<call, answers, file, result, built>>
    BY <1>3 DEF Reread, Compared, Goto
  <2>2. QED
    BY <2>1 DEF Judging, Building, OwnLiterals, Legible
<1>4. QED
  BY <1>1, <1>2, <1>3

\* A pack that build has reported is one that verify does not refuse to look at.
LEMMA BeginJudging ==
  ASSUME Shape, Making, Judging, Begin
  PROVE  Judging'
<1>1. /\ index' = 1 /\ answers' = <<>> /\ UNCHANGED <<file, built>>
      /\ pc' \in {"end", "nest", "verify", "seal", "parse"}
  BY DEF Begin, EndWith, Goto
<1>2. Len(answers') = 0 /\ DOMAIN answers' = {}
  BY <1>1, EmptySeq
<1>3. pc' = "end" => ~(call'.cmd # "build" /\ built # Unset /\ file = built.pack)
  <2>1. SUFFICES ASSUME call'.cmd # "build", built # Unset, file = built.pack
                 PROVE  pc' # "end"
    OBVIOUS
  <2>2. file \in Packs /\ ~TooDeep(file) /\ ~TooLarge(file)
    BY <2>1 DEF Making, Closed
  <2>3. file # Absent
    BY <2>2, AbsentAssumption
  <2>4. QED
    BY <2>1, <2>2, <2>3 DEF Begin, Goto
<1>4. pc' = "verify" => Len(file.artifacts) \in Nat
  <2>1. pc' = "verify" => file' \in Packs
    BY BeginShape DEF Shape, Ordered
  <2>2. QED
    BY <1>1, <2>1, LenProperties DEF Packs
<1>5. QED
  BY <1>1, <1>2, <1>3, <1>4 DEF Judging

LEMMA NestJudging ==
  ASSUME Shape, Judging, Nest
  PROVE  Judging'
<1>1. /\ pc = "nest" /\ pc' = "verify"
      /\ UNCHANGED <<call, index, answers, file, result, built>>
  BY DEF Nest, Goto
<1>2. answers = <<>> /\ index = Len(answers) + 1
  BY <1>1 DEF Judging
<1>3. Len(answers) = 0 /\ DOMAIN answers = {}
  BY <1>2, EmptySeq
<1>4. Len(file.artifacts) \in Nat
  BY <1>1, LenProperties DEF Shape, Ordered, Packs
<1>5. QED
  BY <1>1, <1>2, <1>3, <1>4 DEF Judging, Building

LEMMA VerifyArtifactJudging ==
  ASSUME Shape, Making, Judging, VerifyArtifact
  PROVE  Judging'
<1>1. /\ pc = "verify" /\ index <= Len(file.artifacts)
      /\ answers' = Append(answers, Finding) /\ index' = index + 1
      /\ UNCHANGED <<session, call, pc, saved, key, ev, file, result, asked, built>>
  BY VerifyArtifactIs
<1>2. index = Len(answers) + 1
  BY <1>1 DEF Judging
<1>3. /\ answers \in Seq(Answers) /\ Finding \in Answers
      /\ Len(answers) \in Nat /\ Len(answers') = Len(answers) + 1
      /\ \A i \in 1..Len(answers) : answers'[i] = answers[i]
      /\ answers'[Len(answers) + 1] = Finding
      /\ DOMAIN answers = 1..Len(answers)
  <2>1. answers \in Seq(Answers) /\ Finding \in Answers
    BY <1>1, FindingIs DEF Shape, TypeOK
  <2>2. QED
    BY <1>1, <2>1, AppendProperties, LenProperties
<1>4. DOMAIN answers' = 1..(Len(answers) + 1)
  <2>1. answers' \in Seq(Answers)
    BY <1>1, <1>3, AppendProperties
  <2>2. QED
    BY <1>3, <2>1, LenProperties
<1>5. \A i \in DOMAIN answers' :
        \/ i \in DOMAIN answers /\ answers'[i] = answers[i]
        \/ i = index /\ answers'[i] = Finding
  BY <1>2, <1>3, <1>4
<1>6. /\ OwnLiterals(Finding, file.artifacts[index].token)
      /\ built # Unset /\ file = built.pack =>
           AsBuilt(Finding, file.artifacts[index].token)
  BY <1>1, FoundAsBuilt DEF Entry
<1>7. \A i \in DOMAIN answers' : OwnLiterals(answers'[i], file.artifacts[i].token)
  BY <1>5, <1>6 DEF Judging
<1>8. built # Unset /\ file = built.pack =>
        \A i \in DOMAIN answers' : AsBuilt(answers'[i], file.artifacts[i].token)
  BY <1>1, <1>5, <1>6 DEF Judging
<1>9. QED
  BY <1>1, <1>2, <1>3, <1>7, <1>8 DEF Judging, Building, OwnLiterals, AsBuilt, Legible

LEMMA VerifiedJudging ==
  ASSUME Shape, Making, Judging, Verified
  PROVE  Judging'
<1>1. /\ pc = "verify" /\ index > Len(file.artifacts) /\ pc' \in {"end", "reread"}
      /\ result' = (IF ValidPack(file, answers) THEN "valid" ELSE "not_valid")
      /\ UNCHANGED <<call, answers, file, built>>
  BY DEF Verified, Goto
<1>2. /\ file \in Packs /\ file.artifacts \in Seq(Entries) /\ answers \in Seq(Answers)
      /\ Len(answers) \in Nat /\ Len(file.artifacts) \in Nat
      /\ DOMAIN answers = 1..Len(answers)
      /\ DOMAIN file.artifacts = 1..Len(file.artifacts)
  BY <1>1, LenProperties DEF Shape, TypeOK, Ordered, Packs
<1>3. Len(answers) = Len(file.artifacts)
  BY <1>1, <1>2 DEF Judging
<1>4. ASSUME built # Unset, file = built.pack
      PROVE  ValidPack(file, answers) <=>
               /\ file.artifacts # <<>>
               /\ \A i \in DOMAIN file.artifacts : Legible(file.artifacts[i].token)
  <2>1. ValidPack(file, answers) <=>
          answers # <<>> /\ \A i \in DOMAIN answers : Passes(answers[i])
    BY <1>2, <1>4, VerdictIs DEF Making
  <2>2. answers # <<>> <=> file.artifacts # <<>>
    BY <1>2, <1>3, EmptySeq
  <2>3. ASSUME NEW i \in DOMAIN answers
        PROVE  Passes(answers[i]) <=> Legible(file.artifacts[i].token)
    BY <1>1, <1>4 DEF Judging, AsBuilt, Passes
  <2>4. QED
    BY <1>2, <1>3, <2>1, <2>2, <2>3
<1>5. QED
  BY <1>1, <1>4 DEF Judging, Building, OwnLiterals, Legible

\* What verify says of an artifact is its own, and what it says of a pack that
\* build has reported is what build had found.
THEOREM JudgingHolds == Spec => []Judging
<1>1. Shape /\ Making /\ Judging /\ [Next]_vars => Judging'
  <2>1. Shape /\ Making /\ Judging /\ Next => Judging'
    BY QuietJudging, BeginJudging, NestJudging, VerifyArtifactJudging, VerifiedJudging
       DEF Next
  <2>2. Judging /\ UNCHANGED vars => Judging'
    BY DEF Judging, vars, Building, OwnLiterals, AsBuilt, Legible
  <2>3. QED
    BY <2>1, <2>2
<1>2. QED
  BY <1>1, InitJudging, ShapeHolds, MakingHolds, PTL DEF Spec

\* A pack that build reports is one that verify and restriction call valid, with
\* nothing but the file, unless it has no artifacts or was read with an option
\* that this call was not given.
THEOREM WhatBuildReportsVerifies == Spec => []BuiltPacksVerify
<1>1. Making /\ Listing /\ Judging => BuiltPacksVerify
  <2>1. SUFFICES ASSUME Making, Listing, Judging, pc = "end", call.cmd # "build",
                        built # Unset, file = built.pack
                 PROVE  result = "valid" <=>
                          /\ file.artifacts # <<>>
                          /\ built.read \in {Unset, <<>>} \/ call.accept
    BY DEF BuiltPacksVerify
  <2> DEFINE es == file.artifacts
  <2>2. es \in Seq(Entries)
    BY <2>1 DEF Making, Packs
  <2>3. AllLiterals(es) = <<>> <=> \A i \in DOMAIN es : Literals(es[i].token) = <<>>
    BY <2>2, AllLiteralsAre
  <2>4. Accounts(built.read, es)
    BY <2>1 DEF Listing
  <2> HIDE DEF es
  <2>5. built.read \in {Unset, <<>>} <=> \A i \in DOMAIN es : Literals(es[i].token) = <<>>
    BY <2>3, <2>4 DEF Accounts
  <2>6. result = "valid" <=> es # <<>> /\ \A i \in DOMAIN es : Legible(es[i].token)
    BY <2>1 DEF Judging, es
  <2>7. (\A i \in DOMAIN es : Legible(es[i].token)) <=>
          call.accept \/ \A i \in DOMAIN es : Literals(es[i].token) = <<>>
    BY DEF Legible
  <2>8. QED
    BY <2>5, <2>6, <2>7 DEF es
<1>2. QED
  BY <1>1, MakingHolds, ListingHolds, JudgingHolds, PTL

\* The literals that verify and build list are those of the artifacts they list
\* them for, and the option to read them is in force in the calls made with it.
THEOREM ListedLiteralsAreTheirOwn == Spec => []LiteralsAreTheArtifacts
<1>1. Shape /\ Listing /\ Judging => LiteralsAreTheArtifacts
  BY DEF Shape, InForce, Listing, Accounts, Judging, OwnLiterals, LiteralsAreTheArtifacts
<1>2. QED
  BY <1>1, ShapeHolds, ListingHolds, JudgingHolds, PTL
=============================================================================
