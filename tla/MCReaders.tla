------------------------------ MODULE MCReaders ------------------------------
(***************************************************************************)
(* What is read of a token and beside it, against reference definitions:    *)
(* the walk of module Disclosure, and the readers of text, bytes and Merkle      *)
(* proofs.  The references go from the meaning to the text, the code from    *)
(* the text to the meaning.                                                 *)
(***************************************************************************)
EXTENDS MCRecords, Reading, Readers

-----------------------------------------------------------------------------
(* Literals: the value, by its definition.                                 *)

Larger(m, n) == IF m > n THEN m ELSE n

Exact(l) ==
  LET m == ToInt(l.int \o l.frac)
      e == (IF l.expneg THEN -1 ELSE 1) * ToInt(l.exp) - Len(l.frac)
      values == {v \in 0..SAFE_INT : v * 10^Larger(0, -e) = m * 10^Larger(0, e)}
  IN IF m = 0 THEN 0
     ELSE IF e > SafeDigits \/ -e > Len(l.int \o l.frac) \/ values = {} THEN None
     ELSE (IF l.neg THEN -1 ELSE 1) * (CHOOSE v \in values : TRUE)

Literals ==
  [neg : BOOLEAN, expneg : BOOLEAN,
   int : {<<0>>, <<1>>, <<1, 0>>, <<1, 2, 7>>, <<1, 2, 8>>, <<1, 2, 7, 0>>, <<9, 9, 9>>},
   frac : {<<>>, <<0>>, <<5>>, <<2, 7>>, <<0, 0, 1>>, <<1, 2, 8>>, <<0, 0, 0>>},
   exp : {<<0>>, <<1>>, <<2>>, <<3>>, <<0, 0, 2>>, <<4>>, <<1, 0>>, <<1, 2>>}]

-----------------------------------------------------------------------------
(* JSON: the text of a tree.  A string is a sequence of chunks.             *)

Chunks ==
  [high |-> <<Backslash, "u", "d", "8", "0", "0">>,
   top  |-> <<Backslash, "u", "d", "b", "f", "f">>,
   low  |-> <<Backslash, "u", "d", "c", "0", "0">>,
   char |-> <<Backslash, "u", "0", "0", "4", "1">>,
   back |-> <<Backslash, Backslash>>, quote |-> <<Backslash, Quote>>,
   plain |-> <<"u", "d", "8", "0", "0">>, open |-> <<"[">>, close |-> <<"}">>]

Characters(s) == <<Quote>> \o FlattenSeq([i \in DOMAIN s |-> Chunks[s[i]]]) \o <<Quote>>

RECURSIVE Text(_)
Text(tree) ==
  CASE tree.t = "string" -> Characters(tree.s)
    [] tree.t = "array" -> <<"[">> \o Text(tree.first) \o <<",">> \o Text(tree.second) \o <<"]">>
    [] OTHER -> <<"{">> \o Text(tree.first) \o <<":">> \o Text(tree.second) \o <<"}">>

RECURSIVE Nested(_)
Nested(tree) ==
  IF tree.t = "string" THEN 0 ELSE 1 + Larger(Nested(tree.first), Nested(tree.second))

Lone(s) ==
  \E i \in DOMAIN s :
    \/ s[i] \in {"high", "top"} /\ (i = Len(s) \/ s[i + 1] # "low")
    \/ s[i] = "low" /\ (i = 1 \/ s[i - 1] \notin {"high", "top"})

RECURSIVE AnyLone(_)
AnyLone(tree) ==
  IF tree.t = "string" THEN Lone(tree.s) ELSE AnyLone(tree.first) \/ AnyLone(tree.second)

Scanned(tree) ==
  IF Nested(tree) > MaxDepth THEN "json_too_deep"
  ELSE IF AnyLone(tree) THEN "lone_surrogate" ELSE "parsed"

String(s) == [t |-> "string", s |-> s]
Pair(t, a, b) == [t |-> t, first |-> a, second |-> b]
Strings == {String(s) : s \in SeqOf(DOMAIN Chunks, 3)}
Brackets == String(<<"quote", "open", "back">>)
Ones == {Pair(t, Brackets, s) : t \in {"array", "object"}, s \in {String(<<"open">>), String(<<"high">>)}}
Twos == {Pair("array", a, b) : a, b \in Ones \union {Brackets}}
Trees ==
  Strings \union {Pair("array", s, String(<<"low">>)) : s \in Strings}
  \union {Pair("object", s, Brackets) : s \in Strings}
  \union Twos \union {Pair("object", Brackets, b) : b \in Twos}
  \union {Pair("array", Pair("array", a, Brackets), Brackets) : a \in Twos}

-----------------------------------------------------------------------------
(* DER: the encoding of a reply, damaged or not.                            *)

Element(tag, content) == <<tag, Len(content)>> \o content

\* The length in n bytes, 0 for the short form; 9 is the indefinite form.
LengthIn(n, ln) ==
  CASE n = 0 -> <<ln>> [] n = 9 -> <<128>>
    [] OTHER -> <<128 + n>> \o [i \in 1..n |-> IF i = n THEN ln ELSE 0]

\* The element of level k, emptied when the reply is cut there.
At(r, k, tag, content) == Element(tag, IF r.cut = k THEN <<>> ELSE content)

TstInfo(r) ==
  At(r, 1, 48, Element(2, <<1>>) \o Element(6, <<7>>)
     \o At(r, 2, 48, Element(48, <<>>) \o Element(4, r.imprint))
     \o Element(2, <<5>>) \o Element(24, r.time))
Bytes(r) ==
  LET econtent == At(r, 3, 48, Element(6, <<8>>) \o At(r, 4, 160, Element(4, TstInfo(r))))
      signed == At(r, 5, 48, Element(2, <<3>>) \o Element(49, <<>>) \o econtent
                             \o Element(160, <<>>))
      timetoken == IF r.token THEN At(r, 6, 48, Element(6, <<9>>) \o Element(160, signed)) ELSE <<>>
      status == At(r, 7, 48, Element(2, r.status))
      body == IF r.cut = 8 THEN <<>> ELSE status \o timetoken
      whole == <<48>> \o LengthIn(r.form, Len(body)) \o body
  IN IF r.short = 0 THEN whole \o r.after ELSE Front(whole)

\* What the reply was encoded from.
Opened(r) == r.form \notin {5, 9} /\ r.short = 0
EncodedStatus(r) ==
  IF ~Opened(r) \/ r.cut \in {7, 8} THEN {} ELSE {r.status \in {<<0>>, <<1>>}}
EncodedFacts(r) ==
  IF EncodedStatus(r) = {} THEN {}
  ELSE IF ~r.token THEN {[imprint |-> None]}
  ELSE IF r.cut # 0 THEN {}
  ELSE {[imprint |-> r.imprint, gen_time |-> IF r.time \in GenTimes THEN r.time ELSE None,
         tst_info |-> TstInfo(r)]}

MCGenTimes == {<<50>>}
Replies ==
  [status : {<<0>>, <<1>>, <<2>>, <<0, 0>>}, imprint : {<<17>>, <<48, 0>>}, time : {<<50>>, <<49>>},
   token : BOOLEAN, form : {0, 1, 4, 5, 9}, cut : 0..8, short : {0, 1}, after : {<<>>, <<48, 0>>}]

-----------------------------------------------------------------------------
(* Account trees.                                                          *)

AccountTrees == UNION {[ps -> {"v", "w"}] : ps \in {s \in SUBSET Paths : Cardinality(s) <= 3}}

-----------------------------------------------------------------------------
(* A run walks a token, or reads an input beside a token that is refused.   *)

MCInputs ==
  [literal |-> Literals, json |-> Trees, der |-> Replies,
   account |-> [tree : AccountTrees, path : Paths, value : {"v", "w"}], seal |-> 1..9]

Beside == Token(Object(<<>>, <<>>), <<>>, {}, "other")
Presented == RecordTokens \union AllPresentations \union {Beside}

\* The JSON in them, down to the leaves.
JustIn(nodes) ==
  UNION {CASE n.t = "list" -> {n.items[i] : i \in DOMAIN n.items}
           [] n.t = "object" -> {n.members[i].v : i \in DOMAIN n.members}
           [] n.t = "placeholder" -> {Leaf(n.digest)}
           [] OTHER -> {} : n \in nodes}
Roots ==
  Payloads \union OddPayloads \union RecordPayloads \union {Beside.payload}
  \union Firsts \union Seconds \union {P("d4"), Leaf("d3")}
  \union {d.value : d \in FirstDisclosures \union SecondDisclosures}
Second == JustIn(Roots)
Third == JustIn(Second)
Fourth == JustIn(Third)
Fifth == JustIn(Fourth)
Sixth == JustIn(Fifth)
TheNodes ==
  {n \in UNION {Roots, Second, Third, Fourth, Fifth, Sixth, JustIn(Sixth)} : TRUE}

\* TLC keeps the value of a definition that a definition names.
PresentedNodes == TheNodes

\* A Start, with one token beside what is read.
StartBounded ==
  /\ Init /\ (token \in RecordTokens => Whole(token))
  /\ input = Nothing \/ (token = Beside /\ Chosen)

ReadersSpec == StartBounded /\ [][Going]_<<vars, input>> /\ WF_<<vars, input>>(Going)

\* A literal is read as the number it denotes, exactly, when that is an integer
\* within the bound, however it is written, and as none otherwise.  A JSON text
\* is refused before it is parsed exactly when its containers nest too deep, or
\* else one of its strings holds half of a surrogate pair.
TextReadAsWritten ==
  /\ Reads("literal") => IntegralLiteral(input.arg) = Exact(input.arg)
  /\ Reads("json") => LoadsStrict(Text(input.arg)) = Scanned(input.arg)

\* A reply is read as what it was encoded from, whatever follows it; one that is
\* cut short or emptied at any level gives no imprint.  The status is reported
\* whenever it is there to be read, even if the token after it cannot be.
TokenReadAsEncoded ==
  Reads("der") =>
    \A resp \in {TimestampResp(bytes) : bytes \in {Bytes(input.arg)}} :
      /\ resp.facts = EncodedFacts(input.arg)
      /\ resp.granted = EncodedStatus(input.arg)
=============================================================================
