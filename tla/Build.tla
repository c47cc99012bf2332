-------------------------------- MODULE Build --------------------------------
(***************************************************************************)
(* A process that calls build, verify and restriction one after the other.  *)
(* build verifies every artifact, snapshots its key, seals, asks the TSAs   *)
(* and writes; verify checks the file again, with nothing but the file;     *)
(* restriction calls verify and reads the tokens once more.  Integral       *)
(* literals are recorded through one context variable, which every call     *)
(* sets and resets.  The writing of the file itself is module PackFile,     *)
(* what a receipt says beside `valid` is module Verdict.                    *)
(***************************************************************************)
EXTENDS KeySource, Sequences

CONSTANTS
  Sessions,     \* what a process may be asked: the file it finds, its calls
  JwksReplies,  \* what a JWKS URL may answer
  TsaReplies,   \* what a TSA may answer
  SizeBound,    \* blocks (artifacts and tokens) in a pack within the size bound
  Unset         \* the context variable without `accept_integral_floats`; no call

\* What the calls and the files are made of.
Literal == [text : STRING, integral : BOOLEAN]
Calls == UNION {{s.calls[i] : i \in DOMAIN s.calls} : s \in Sessions}
Given == UNION {{c.artifacts[i] : i \in DOMAIN c.artifacts} : c \in Calls}
Found == UNION {{s.file.artifacts[i] : i \in DOMAIN s.file.artifacts} :
                  s \in {t \in Sessions : t.file # Absent}}
Titles == {a.name : a \in Given \union Found}
Tokens == {a.token : a \in Given \union Found}

KeyUsed == [jwk : Jwks,
            class : {"supplied", "jwks_fetched", "x5c_header", "jwk_header"}]
Entries == [name : Titles, token : Tokens, key : KeyUsed,
            kb : {"absent", "ok", "unknown", "bad_hash", "bad_signature"},
            claims : {t.id : t \in Tokens}]
Bindings == [in : Titles, commits_to : Titles]
Contents == Seq(Entries) \X SUBSET Bindings
Stamps == [granted : BOOLEAN, imprint : Contents \union {Absent}]
Packs == [artifacts : Seq(Entries), bindings : SUBSET Bindings,
          digest : Contents \union {Absent},
          block : Stamps \union {Absent}, anchors : Seq(Stamps)]

ASSUME SessionsAssumption ==
  \A s \in Sessions : s.calls \in Seq(Calls) /\ s.file \in Packs \union {Absent}

ASSUME CallsAssumption ==
  \A c \in Calls :
    /\ c.cmd \in {"build", "verify", "restriction"}
    /\ c.accept \in BOOLEAN /\ c.isdir \in BOOLEAN /\ c.tsas \in Nat
    /\ c.artifacts \in Seq([name : Titles, token : Tokens])

ASSUME TokensAssumption ==
  \A t \in Tokens :
    /\ {t.es256, t.formed, t.crit, t.resolves, t.deep} \subseteq BOOLEAN
    /\ t.jwt \in Seq(Literal) /\ t.disclosed \in Seq(Literal)
    /\ t.kb # Absent => t.kb.formed \in BOOLEAN /\ t.kb.literals \in Seq(Literal)

ASSUME RepliesAssumption ==
  /\ \A r \in JwksReplies :
       r.outcome = "keys" =>
         r.keys \in Seq({r.keys[i] : i \in DOMAIN r.keys}) /\
         \A i \in DOMAIN r.keys : Usable(r.keys[i]) => r.keys[i].jwk \in Jwks
  /\ TsaReplies \subseteq {Absent} \union [granted : BOOLEAN, same : BOOLEAN]

\* No pack and no URL is mistaken for none, no list of literals for no list.
ASSUME AbsentAssumption ==
  Absent \notin Packs /\ Absent # "https" /\ Unset \notin Seq(Literal)

VARIABLES
  session,  \* the calls still to make
  call,     \* the call being made
  pc,       \* where it is
  index,    \* the artifact, or the TSA, it is at
  ctx,      \* _INTEGRAL_READ
  saved,    \* the values that the running calls put back
  key,      \* the key chosen for the current artifact
  ev,       \* build's pack in memory
  answers,  \* verify's entries, one per artifact
  file,     \* the pack at the path, or Absent
  result,   \* how the last call ended
  asked,    \* history: the contents a TSA was asked about
  built     \* history: the last pack that build reported, what it read, its call

vars == <<session, call, pc, index, ctx, saved, key, ev, answers, file, result,
          asked, built>>

-----------------------------------------------------------------------------
(* Tokens.  A literal is one written with a fraction or an exponent, and is *)
(* integral or not.  `jwt`, `disclosed` and `kb.literals` are those met in  *)
(* the header and payload, the disclosures and the KB-JWT.                  *)

Integral(literals) ==
  {n \in 0..Len(literals) : \A i \in 1..n : literals[i].integral}

\* _token_number for each literal in turn: without the option none is read,
\* with it those before the first that is not integral.
Reading(read, literals) ==
  IF read = Unset THEN [ok |-> literals = <<>>, read |-> Unset]
  ELSE LET n == CHOOSE n \in Integral(literals) :
                  \A m \in Integral(literals) : m <= n
       IN [ok |-> n = Len(literals), read |-> read \o SubSeq(literals, 1, n)]

Literals(t) ==
  t.jwt \o t.disclosed \o (IF t.kb = Absent THEN <<>> ELSE t.kb.literals)

\* Mutant: what the KB-JWT commits to is not compared.
KbStateUnhashed(t) ==
  IF t.kb = Absent THEN "absent"
  ELSE IF ~t.kb.formed \/ t.cnf \in {NotAKey, Junk} THEN "error"
  ELSE IF t.cnf = Absent THEN "unknown"
  ELSE IF t.kb.signer # t.cnf THEN "bad_signature"
  ELSE "ok"

\* verify_kb_jwt: absent, an error, or the three honest states.
KbState(t) ==
  IF t.kb = Absent THEN "absent"
  ELSE IF ~t.kb.formed \/ t.cnf \in {NotAKey, Junk} THEN "error"
  ELSE IF t.cnf = Absent THEN "unknown"
  ELSE IF t.kb.signer # t.cnf THEN "bad_signature"
  ELSE IF t.kb.over # t.id THEN "bad_hash"
  ELSE "ok"

\* What verify_es256, resolve_disclosures and verify_kb_jwt do to a token whose
\* header and payload were read: the literals they read, how it ended.  `after`
\* says whether what comes between the signature and the KB-JWT lets it go on.
Checking(read, t, jwk, after) ==
  LET d == Reading(read, t.disclosed)
      k == IF t.kb = Absent THEN [ok |-> TRUE, read |-> d.read]
           ELSE Reading(d.read, t.kb.literals)
  IN IF jwk \notin Keys THEN [read |-> read, kb |-> "error"]
     ELSE IF ~d.ok \/ ~t.resolves \/ ~after THEN [read |-> d.read, kb |-> "error"]
     ELSE IF ~k.ok THEN [read |-> k.read, kb |-> "error"]
     ELSE [read |-> k.read, kb |-> KbState(t)]

-----------------------------------------------------------------------------
(* Packs.                                                                  *)

FindBindings(es) ==
  {b \in {[in |-> e.name, commits_to |-> f.name] :
            e \in {es[i] : i \in DOMAIN es}, f \in {es[i] : i \in DOMAIN es}} :
     b.in # b.commits_to /\
     \E i, j \in DOMAIN es : /\ es[i].name = b.in /\ es[j].name = b.commits_to
                             /\ es[j].token.id \in es[i].token.refs}

\* What the digest is over: neither the digest nor the tokens.
Content(pk) == <<pk.artifacts, pk.bindings>>

Blocks(pk) ==
  Len(pk.artifacts) + Len(pk.anchors) + (IF pk.block = Absent THEN 0 ELSE 1)

\* The profile of SPEC 3.1: nesting and size.
TooDeep(pk) == \E i \in DOMAIN pk.artifacts : pk.artifacts[i].token.deep
TooLarge(pk) == Blocks(pk) > SizeBound

EmptyPack == [artifacts |-> <<>>, bindings |-> {}, digest |-> Absent,
              block |-> Absent, anchors |-> <<>>]

-----------------------------------------------------------------------------
(* What Verdict makes of a pack, given what was found of its artifacts.    *)

V == INSTANCE Verdict
       WITH Inputs <- {}, Openssl <- FALSE, MLDSA_AVAILABLE <- FALSE, Now <- 0,
            pack <- 0, policy <- 0, phase <- 0, tsa <- 0, chain <- 0,
            notrun <- FALSE, receipt <- 0, written <- FALSE, exit <- 0

NoPolicy ==
  [require_producer |-> FALSE, require_pq |-> FALSE, require_anchor |-> FALSE,
   min_anchors |-> 0, tsa_cert |-> FALSE, trust_anchor |-> FALSE,
   trusted |-> Absent, trust_set_complete |-> FALSE]

Judged(pk, found) ==
  LET tok(t) == [token |-> IF t.imprint = Content(pk) THEN "same" ELSE "other",
                 granted |-> t.granted, tst |-> 1, time |-> 0, tsa |-> FALSE]
  IN [class |-> "admitted",
      digest |-> pk.digest = Content(pk),
      bindings |-> pk.bindings = FindBindings(pk.artifacts),
      artifacts |-> [i \in DOMAIN found |->
         [error |-> found[i].error, sig |-> found[i].sig, claims |-> found[i].claims,
          kb |-> found[i].kb, x5c |-> FALSE, broken |-> FALSE, from |-> 0, to |-> 0]],
      block |-> IF pk.block = Absent THEN Absent ELSE tok(pk.block),
      anchors |-> [i \in DOMAIN pk.anchors |-> tok(pk.anchors[i])],
      producer |-> Absent]

ValidPack(pk, found) ==
  LET j == Judged(pk, found)
  IN V!Valid(j, NoPolicy, [i \in V!Claimed(j) |-> "none"])

-----------------------------------------------------------------------------
(* Calls.                                                                  *)

Init ==
  \E s \in Sessions :
    /\ session = s.calls /\ file = s.file
    /\ call = Unset /\ pc = "idle" /\ index = 1
    /\ ctx = Unset /\ saved = <<>>
    /\ key = Refused /\ ev = EmptyPack /\ answers = <<>>
    /\ result = Unset /\ asked = {} /\ built = Unset

Names(c) == {c.artifacts[i].name : i \in DOMAIN c.artifacts}

\* What build refuses before it looks at an artifact.
BadRequest(c) ==
  \/ Cardinality(Names(c)) # Len(c.artifacts)
  \/ ~((DOMAIN c.keys \union DOMAIN c.urls) \subseteq Names(c))
  \/ \E n \in DOMAIN c.keys : c.keys[n] \notin Jwks
  \/ \E n \in DOMAIN c.urls : c.urls[n] # "https"
  \/ DOMAIN c.keys \intersect DOMAIN c.urls # {}

Goto(l) == pc' = l

\* The call ends: with which answer.
EndWith(r) == Goto("end") /\ result' = r

Set(accept) ==
  ctx' = (IF accept THEN <<>> ELSE Unset) /\ saved' = Append(saved, ctx)

Reset ==
  ctx' = saved[Len(saved)] /\ saved' = SubSeq(saved, 1, Len(saved) - 1)

Begin ==
  /\ pc = "idle" /\ session # <<>>
  /\ call' = Head(session) /\ session' = Tail(session)
  /\ Set(call'.accept)
  /\ index' = 1 /\ ev' = EmptyPack /\ answers' = <<>>
  /\ IF call'.cmd = "build" /\ BadRequest(call') THEN EndWith("refused")
     ELSE IF call'.cmd # "build" /\ file = Absent THEN EndWith("refused")
     ELSE IF call'.cmd # "build" /\ (TooDeep(file) \/ TooLarge(file))
       THEN EndWith("refused")
     ELSE /\ Goto(IF call'.cmd = "restriction" THEN "nest"
                  ELSE IF call'.cmd = "verify" THEN "verify"
                  ELSE IF call'.artifacts = <<>> THEN "seal" ELSE "parse")
          /\ result' = Unset
  /\ UNCHANGED <<key, file, asked, built>>

\* `finally`: on every path.
End ==
  /\ pc = "end" /\ Reset /\ Goto("idle")
  /\ UNCHANGED <<session, call, index, key, ev, answers, file, result, asked, built>>

-----------------------------------------------------------------------------
(* build, artifact by artifact.                                            *)

Here == call.artifacts[index]

Named(f, n) == IF n \in DOMAIN f THEN f[n] ELSE Absent

Parse ==
  /\ pc = "parse"
  /\ LET r == Reading(ctx, Here.token.jwt)
     IN /\ ctx' = r.read
        /\ IF r.ok /\ Here.token.formed /\ ~Here.token.crit
             THEN Goto("key") /\ UNCHANGED result
             ELSE EndWith("refused")
  /\ UNCHANGED <<session, call, index, saved, key, ev, answers, file, asked, built>>

ChooseKey ==
  /\ pc = "key"
  /\ \E reply \in JwksReplies :
       key' = Chosen(Here.token, Named(call.keys, Here.name),
                     Named(call.urls, Here.name), reply)
  /\ IF key' = Refused THEN EndWith("refused")
     ELSE Goto("check") /\ UNCHANGED result
  /\ UNCHANGED <<session, call, index, ctx, saved, ev, answers, file, asked, built>>

SigOk(t, jwk) == t.signer = jwk

CheckArtifact ==
  /\ pc = "check"
  /\ LET t == Here.token
         c == Checking(ctx, t, key.jwk, SigOk(t, key.jwk) /\ Reconciled(t, key))
     IN /\ ctx' = c.read
        /\ IF c.kb \in {"error", "bad_hash", "bad_signature"}
             THEN EndWith("refused") /\ UNCHANGED <<index, ev>>
             ELSE /\ ev' = [ev EXCEPT !.artifacts =
                              Append(@, [name |-> Here.name, token |-> t, key |-> key,
                                         kb |-> c.kb, claims |-> t.id])]
                  /\ index' = index + 1
                  /\ Goto(IF index = Len(call.artifacts) THEN "seal" ELSE "parse")
                  /\ UNCHANGED result
  /\ UNCHANGED <<session, call, saved, key, answers, file, asked, built>>

Sealed(pk) ==
  LET whole == [pk EXCEPT !.bindings = FindBindings(pk.artifacts)]
  IN [whole EXCEPT !.digest = Content(whole)]

Seal ==
  /\ pc = "seal"
  /\ ev' = Sealed(ev) /\ index' = 1
  /\ IF TooDeep(ev') \/ TooLarge(ev') THEN EndWith("refused")
     ELSE IF call.isdir THEN EndWith("not_written")
     ELSE Goto("stamp") /\ UNCHANGED result
  /\ UNCHANGED <<session, call, ctx, saved, key, answers, file, asked, built>>

\* Mutant: any reply that carries a token is an anchor.
AnchorsAnything(reply) == reply # Absent

\* _rfc3161_stamp: only a granted token for this very digest is an anchor.
Anchors(reply) == reply # Absent /\ reply.granted /\ reply.imprint = ev.digest

\* The first TSA's token goes to the block, the others' to `anchors`; one that
\* could not be had is a note, and the pack is built without it.
Stamp ==
  /\ pc = "stamp" /\ index <= call.tsas
  /\ asked' = asked \union {ev.digest}
  /\ \E r \in TsaReplies :
       LET reply == IF r = Absent THEN Absent
                    ELSE [granted |-> r.granted,
                          imprint |-> IF r.same THEN ev.digest ELSE Absent]
       IN ev' = IF ~Anchors(reply) THEN ev
                ELSE IF index = 1 THEN [ev EXCEPT !.block = reply]
                ELSE [ev EXCEPT !.anchors = Append(@, reply)]
  /\ index' = index + 1
  /\ UNCHANGED <<session, call, pc, ctx, saved, key, answers, file, result, built>>

Write ==
  /\ pc = "stamp" /\ index > call.tsas
  /\ IF TooLarge(ev) THEN EndWith("refused") /\ UNCHANGED <<file, built>>
     ELSE \/ file' = ev /\ built' = [pack |-> ev, read |-> ctx, call |-> call] /\ EndWith("built")
          \/ EndWith("not_written") /\ UNCHANGED <<file, built>>
  /\ UNCHANGED <<session, call, index, ctx, saved, key, ev, answers, asked>>

-----------------------------------------------------------------------------
(* verify, artifact by artifact, and restriction around it.                *)

\* Mutant: what an artifact is said to have had read starts with the list.
ReadSinceStart(now, before) == now

\* `_read[_read0:]`.
ReadSince(now, before) ==
  IF now = Unset THEN Unset ELSE SubSeq(now, Len(before) + 1, Len(now))

\* restriction verifies the pack under its own option, then reads it again.
Nest ==
  /\ pc = "nest" /\ Set(ctx # Unset) /\ Goto("verify")
  /\ UNCHANGED <<session, call, index, key, ev, answers, file, result, asked, built>>

VerifyArtifact ==
  /\ pc = "verify" /\ index <= Len(file.artifacts)
  /\ LET e == file.artifacts[index]
         t == e.token
         r == Reading(ctx, t.jwt)
         c == IF /\ r.ok /\ t.formed /\ ~t.crit
                 /\ ProvenanceHolds(t, e.key) /\ Reconciled(t, e.key)
                THEN Checking(r.read, t, e.key.jwk, TRUE)
                ELSE [read |-> r.read, kb |-> "error"]
         error == c.kb = "error" \/ e.kb # c.kb
     IN /\ ctx' = c.read
        /\ answers' = Append(answers,
             [error |-> error, sig |-> SigOk(t, e.key.jwk), claims |-> e.claims = t.id,
              kb |-> IF error THEN "absent" ELSE c.kb, read |-> ReadSince(c.read, ctx)])
  /\ index' = index + 1
  /\ UNCHANGED <<session, call, pc, saved, key, ev, file, result, asked, built>>

Verified ==
  /\ pc = "verify" /\ index > Len(file.artifacts)
  /\ result' = IF ValidPack(file, answers) THEN "valid" ELSE "not_valid"
  /\ IF call.cmd = "verify" THEN Goto("end") /\ UNCHANGED <<ctx, saved, index>>
     ELSE Reset /\ Goto("reread") /\ index' = 1
  /\ UNCHANGED <<session, call, key, ev, answers, file, asked, built>>

\* restriction parses and resolves every token again, on its own list.
Reread ==
  /\ pc = "reread" /\ index <= Len(file.artifacts)
  /\ LET t == file.artifacts[index].token
         r == Reading(ctx, t.jwt)
     IN ctx' = IF r.ok /\ t.formed THEN Reading(r.read, t.disclosed).read ELSE r.read
  /\ index' = index + 1
  /\ UNCHANGED <<session, call, pc, saved, key, ev, answers, file, result, asked, built>>

Compared ==
  /\ pc = "reread" /\ index > Len(file.artifacts) /\ Goto("end")
  /\ UNCHANGED <<session, call, index, ctx, saved, key, ev, answers, file, result,
                 asked, built>>

Next ==
  \/ Begin \/ End
  \/ Parse \/ ChooseKey \/ CheckArtifact \/ Seal \/ Stamp \/ Write
  \/ Nest \/ VerifyArtifact \/ Verified \/ Reread \/ Compared

Spec == Init /\ [][Next]_vars

-----------------------------------------------------------------------------
(* Properties.                                                             *)

\* How many calls have set the context variable and not put it back.
Depth ==
  IF pc = "idle" THEN 0
  ELSE IF pc = "verify" /\ call.cmd = "restriction" THEN 2 ELSE 1

\* A pack that build reports is one that verify, with nothing but the file,
\* calls valid: the same checks run twice, in two orders, on what was kept.
\* What was read as integers is refused without the option (SPEC 3.1).  A pack
\* of no artifacts is built by the library and never valid.
BuiltPacksVerify ==
  pc = "end" /\ call.cmd # "build" /\ built # Unset /\ file = built.pack =>
    (result = "valid" <=>
       file.artifacts # <<>> /\ (built.read \in {Unset, <<>>} \/ call.accept))

\* The key of an entry that call c sealed.
OneKey(e, c) ==
  LET t == e.token
  IN /\ e.name \in DOMAIN c.keys => e.key.jwk = c.keys[e.name]
     /\ t.jwk # Absent => t.jwk = e.key.jwk
     /\ t.x5c # Absent => LeafKey(t) = e.key.jwk
     /\ e.name \in DOMAIN c.urls =>
          \E r \in JwksReplies :
            /\ r.outcome = "keys"
            /\ \E j \in DOMAIN r.keys :
                 /\ r.keys[j].jwk = e.key.jwk
                 /\ \A k \in DOMAIN r.keys \ {j} :
                      Usable(r.keys[k]) => t.kid # Absent /\ r.keys[k].kid # t.kid

\* The key of a sealed artifact is the one named by everything that names one:
\* the caller's key, and every key of its header.  A fetched one was asked for,
\* and is the only key of its set that could verify this token.
OneKeyPerArtifact ==
  built # Unset =>
    \A i \in DOMAIN built.pack.artifacts : OneKey(built.pack.artifacts[i], built.call)

Green(e) ==
  /\ e.token.formed /\ ~e.token.crit /\ e.token.resolves
  /\ e.token.signer = e.key.jwk
  /\ \A i \in DOMAIN Literals(e.token) : Literals(e.token)[i].integral
  /\ e.token.kb # Absent =>
       /\ e.token.kb.formed
       /\ e.token.cnf # Absent =>
            e.token.kb.signer = e.token.cnf /\ e.token.kb.over = e.token.id

\* "An evidence file must never contain a red light": of every artifact in a
\* pack that is built, or that a TSA is asked about, the issuer's signature and
\* the holder's, where the holder's key is known, verify, and its literals are
\* integers that the caller asked to have read.
NothingRedLeaves ==
  \A content \in asked \union (IF built = Unset THEN {} ELSE {built.pack.digest}) :
    \A i \in DOMAIN content[1] : Green(content[1][i])

AllLiterals(es) ==
  LET all[n \in 0..Len(es)] ==
        IF n = 0 THEN <<>> ELSE all[n - 1] \o Literals(es[n].token)
  IN all[Len(es)]

\* The literals that verify lists for an artifact are its own, in reading order,
\* all of them when it is no error; those build lists are the whole pack's.  The
\* option that lets them be read is in force in the calls made with it, and ends
\* with each of them however it ends (`finally` around every call): every call in
\* progress, restriction's verify too, has one earlier value to put back.
LiteralsAreTheArtifacts ==
  /\ Len(saved) = Depth
  /\ ctx # Unset <=> pc # "idle" /\ call.accept
  /\ \A i \in DOMAIN answers :
       LET own == Literals(file.artifacts[i].token)
       IN answers[i].read # Unset =>
            /\ Len(answers[i].read) <= Len(own)
            /\ answers[i].read = SubSeq(own, 1, Len(answers[i].read))
            /\ answers[i].error \/ answers[i].read = own
  /\ built # Unset /\ built.read # Unset =>
       built.read = AllLiterals(built.pack.artifacts)
=============================================================================
