------------------------------- MODULE Readers -------------------------------
(***************************************************************************)
(* The readers of text and bytes: number literals of a token, the scans of  *)
(* a JSON text before it is parsed, the DER walk of a time token.  Each is  *)
(* a pure function of its input.                                            *)
(***************************************************************************)
EXTENDS Integers, Sequences, SequencesExt

CONSTANTS
  SAFE_INT,     \* 2^53-1 in the code
  SafeDigits,   \* its number of digits, 16
  ExpDigits,    \* the digits an exponent may have, 9
  MaxDepth,     \* MAX_JSON_DEPTH
  GenTimes,     \* contents of the form that a GeneralizedTime has
  None          \* Python's None

ASSUME SafeAssumption ==
  SAFE_INT \in 10^(SafeDigits - 1)..(10^SafeDigits - 1) /\ ExpDigits \in Nat \ {0}

-----------------------------------------------------------------------------
(* _integral_literal: [neg, int, frac, expneg, exp], the digits of each.   *)

RECURSIVE Lstrip(_)
Lstrip(ds) == IF ds # <<>> /\ ds[1] = 0 THEN Lstrip(Tail(ds)) ELSE ds

ToInt(ds) == FoldLeft(LAMBDA n, d : 10 * n + d, 0, ds)

\* Mutant: one digit more than the bound has may be read.
InRangeByDigits(ds, shift) == Len(ds) + shift <= SafeDigits
InRange(ds, shift) ==
  Len(ds) + shift <= SafeDigits /\ ToInt(ds) * 10^shift <= SAFE_INT

IntegralLiteral(l) ==
  LET digits == Lstrip(l.int \o l.frac)
      shift  == (IF l.expneg THEN -1 ELSE 1) * ToInt(l.exp) - Len(l.frac)
      whole  == IF shift < 0 THEN SubSeq(digits, 1, Len(digits) + shift) ELSE digits
      up     == IF shift < 0 THEN 0 ELSE shift
  IN IF digits = <<>> THEN 0
     ELSE IF Len(Lstrip(l.exp)) > ExpDigits THEN None
     ELSE IF shift < 0 /\ (\/ Len(digits) <= -shift
                           \/ \E i \in (Len(digits) + shift + 1)..Len(digits) : digits[i] # 0)
       THEN None
     ELSE IF ~InRange(whole, up) THEN None
     ELSE (IF l.neg THEN -1 ELSE 1) * ToInt(whole) * 10^up

-----------------------------------------------------------------------------
(* The scans of loads_strict.  A text is a sequence of characters.         *)

Quote == "\""
Backslash == "\\"
HexDigits == {"0", "1", "4", "8", "b", "c", "d", "f"}

\* From character i at this depth: the deepest, of which `in` says whether the
\* scan is in a string, and "esc" just after a backslash there.
RECURSIVE DepthFrom(_, _, _, _)
DepthFrom(text, i, depth, in) ==
  IF i > Len(text) THEN depth
  ELSE LET rest(d, st) == DepthFrom(text, i + 1, d, st)
           ch == text[i]
           deeper == rest(IF ch \in {"[", "{"} THEN depth + 1 ELSE depth - 1, "json")
       IN CASE in = "esc" -> rest(depth, "string")
            [] in = "string" -> rest(depth, IF ch = Backslash THEN "esc"
                                            ELSE IF ch = Quote THEN "json" ELSE "string")
            [] in = "json" /\ ch \notin {"[", "{", "]", "}"} ->
                 rest(depth, IF ch = Quote THEN "string" ELSE "json")
            [] OTHER -> IF deeper > depth THEN deeper ELSE depth

NestingDepth(text) == DepthFrom(text, 1, 0, "json")

\* The code unit that four hex digits at i name: its range, or None.
Hex4(text, i) ==
  IF i + 3 > Len(text) \/ \E j \in i..(i + 3) : text[j] \notin HexDigits THEN None
  ELSE IF text[i] # "d" THEN "other"
  ELSE IF text[i + 1] \in {"8", "b"} THEN "high"
  ELSE IF text[i + 1] \in {"c", "d", "f"} THEN "low" ELSE "other"

RECURSIVE LoneFrom(_, _)
LoneFrom(text, i) ==
  LET n == Len(text)
      cp == Hex4(text, i + 2)
  IN /\ i <= n
     /\ IF text[i] # Backslash THEN LoneFrom(text, i + 1)
        ELSE IF i + 5 > n \/ text[i + 1] # "u" \/ cp = None THEN LoneFrom(text, i + 2)
        ELSE IF cp = "high"
          THEN \/ i + 7 > n \/ text[i + 6] # Backslash \/ text[i + 7] # "u"
               \/ Hex4(text, i + 8) # "low"
               \/ LoneFrom(text, i + 12)
        ELSE cp = "low" \/ LoneFrom(text, i + 6)

HasLoneSurrogate(text) == LoneFrom(text, 1)

\* loads_strict up to the parser.
LoadsStrict(text) ==
  IF NestingDepth(text) > MaxDepth THEN "json_too_deep"
  ELSE IF HasLoneSurrogate(text) THEN "lone_surrogate" ELSE "parsed"

-----------------------------------------------------------------------------
(* The DER walk.  Offsets count from 0, as in the code.                    *)

RECURSIVE BigEndian(_)
BigEndian(bytes) ==
  IF bytes = <<>> THEN 0 ELSE 256 * BigEndian(Front(bytes)) + Last(bytes)

\* A read gives the set of what it read: empty when the code raises.
DerTlv(buf, off) ==
  LET first == buf[off + 2]
      n  == IF first < 128 THEN 0 ELSE first - 128
      ln == IF first < 128 THEN first ELSE BigEndian(SubSeq(buf, off + 3, off + 2 + n))
  IN IF off + 2 > Len(buf) THEN {}
     ELSE IF first = 128 \/ n > 4 \/ off + 2 + n > Len(buf) THEN {}
     ELSE {e \in {[tag |-> buf[off + 1], st |-> off + 2 + n, en |-> off + 2 + n + ln]} :
             e.en <= Len(buf)}

RECURSIVE DerChildren(_, _, _)
DerChildren(buf, start, end) ==
  IF start >= end THEN {<<>>}
  ELSE UNION {{<<t>> \o rest : rest \in DerChildren(buf, t.en, end)} : t \in DerTlv(buf, start)}

\* The elements in e, when they are no fewer than needed.
Kids(buf, e, least) == {ks \in DerChildren(buf, e.st, e.en) : Len(ks) >= least}

\* The way down: of at least `least` children, the one to enter.
RECURSIVE Descend(_, _, _)
Descend(buf, e, path) ==
  IF path = <<>> THEN {e}
  ELSE UNION {Descend(buf, ks[path[1].enter], Tail(path)) : ks \in Kids(buf, e, path[1].least)}

Content(buf, e) == SubSeq(buf, e.st + 1, e.en)

\* Mutant: the eContent is looked for without its OID.
ToEContentFirst == <<[least |-> 2, enter |-> 2], [least |-> 1, enter |-> 1],
                     [least |-> 3, enter |-> 3], [least |-> 2, enter |-> 1],
                     [least |-> 1, enter |-> 1]>>

\* ContentInfo, [0], SignedData, encapContentInfo, [0]: the eContent.
ToEContent == <<[least |-> 2, enter |-> 2], [least |-> 1, enter |-> 1],
                [least |-> 3, enter |-> 3], [least |-> 2, enter |-> 2],
                [least |-> 1, enter |-> 1]>>

\* The fifth element of a TSTInfo, when it is a time.
GenTime(buf, tstc) ==
  IF Len(tstc) >= 5 /\ tstc[5].tag = 24 /\ Content(buf, tstc[5]) \in GenTimes
    THEN Content(buf, tstc[5]) ELSE None

\* What the token that e holds says of what was stamped.
TokenFacts(buf, e) ==
  LET wraps == {w \in Descend(buf, e, ToEContent) : w.tag = 4}
      parts(w) == UNION {Kids(buf, t, 3) : t \in DerTlv(buf, w.st)}
      imprints(tstc) == {mic[2] : mic \in {m \in Kids(buf, tstc[3], 2) : m[2].tag = 4}}
      facts(w, tstc) ==
        {[imprint |-> Content(buf, i), gen_time |-> GenTime(buf, tstc),
          tst_info |-> Content(buf, w)] : i \in imprints(tstc)}
  IN UNION {UNION {facts(w, tstc) : tstc \in parts(w)} : w \in wraps}

\* parse_timestamp_resp: the status as far as it was read, and the facts.
TimestampResp(buf) ==
  LET kids == UNION {Kids(buf, top, 1) : top \in {t \in DerTlv(buf, 0) : t.tag = 48}}
      good(ks) == {sk \in Kids(buf, ks[1], 1) : sk[1].tag = 2}
      read == {ks \in kids : good(ks) # {}}
  IN [granted |-> UNION {{(Content(buf, sk[1]) \in {<<0>>, <<1>>}) : sk \in good(ks)} : ks \in read},
      facts   |-> UNION {IF Len(ks) < 2 THEN {[imprint |-> None]} ELSE TokenFacts(buf, ks[2])
                           : ks \in read}]
=============================================================================
