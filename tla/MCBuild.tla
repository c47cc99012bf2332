-------------------------------- MODULE MCBuild --------------------------------
(***************************************************************************)
(* The sessions, and the answers of the network, of the run of Build.       *)
(***************************************************************************)
EXTENDS Build, TLC

CONSTANTS k1, k2

None == [n \in {} |-> Absent]

Lit(text, integral) == [text |-> text, integral |-> integral]

Good(id) ==
  [id |-> id, es256 |-> TRUE, kid |-> Absent, jwk |-> k1, x5c |-> Absent,
   formed |-> TRUE, crit |-> FALSE, signer |-> k1, resolves |-> TRUE, deep |-> FALSE,
   jwt |-> <<>>, disclosed |-> <<>>, kb |-> Absent, cnf |-> Absent, refs |-> {}]

Art(name, t) == [name |-> name, token |-> t]

Asking(cmd, accept) ==
  [cmd |-> cmd, accept |-> accept, artifacts |-> <<>>, keys |-> None,
   urls |-> None, isdir |-> FALSE, tsas |-> 0]
Making(accept, arts) == [Asking("build", accept) EXCEPT !.artifacts = arts]

\* What is asked of the file once a build has ended.
Checks == {<<Asking("verify", a)>> : a \in BOOLEAN}
          \union {<<Asking("restriction", TRUE), Asking("verify", FALSE)>>}

-----------------------------------------------------------------------------
(* JWKS: one key, two, by kid, of other types and for other uses.          *)
Jwk(k, kid) ==
  [ec |-> TRUE, use |-> Absent, alg |-> Absent, key_ops |-> Absent, kid |-> kid, jwk |-> k]
Sets ==
  {<<>>, <<Jwk(k1, "a")>>, <<Jwk(k2, "a")>>, <<Jwk(k1, "a"), Jwk(k2, "b")>>,
   <<Jwk(k1, "a"), Jwk(k1, "a")>>, <<[Jwk(Junk, "a") EXCEPT !.ec = FALSE], Jwk(k1, Absent)>>,
   <<[Jwk(k2, "a") EXCEPT !.use = "enc"], Jwk(k1, "a")>>,
   <<[Jwk(k2, "a") EXCEPT !.alg = "ECDH-ES"], Jwk(k1, "a")>>,
   <<[Jwk(k2, "a") EXCEPT !.key_ops = {"sign"}],
     [Jwk(k1, "a") EXCEPT !.key_ops = {"verify"}]>>}
MCJwksReplies ==
  {[outcome |-> o, keys |-> <<>>] : o \in {"failed", "redirected", "large", "not_keys"}}
  \union {[outcome |-> "keys", keys |-> s] : s \in Sets}
MCTsaReplies == {Absent} \union [granted : BOOLEAN, same : BOOLEAN]

-----------------------------------------------------------------------------
(* Any header, any choice of the caller's.                                 *)
Chains == [leaf : {k1, k2, Junk}, tail : {"certificates", "bad", "long"}]
Headers ==
  {[Good(1) EXCEPT !.kid = kid, !.jwk = j, !.x5c = x, !.signer = s] :
     kid \in {Absent, "a", NotAKey}, j \in {Absent, NotAKey, Junk, k1, k2},
     x \in {Absent, NotAKey} \union Chains, s \in {k1, k2}}
  \union {[Good(1) EXCEPT !.es256 = FALSE]}
KeySessions ==
  {<<[Making(FALSE, <<Art("m", h)>>) EXCEPT !.keys = c[1], !.urls = c[2]],
     Asking("verify", FALSE)>> :
     h \in Headers,
     c \in {<<None, None>>, <<[n \in {"m"} |-> k1], None>>, <<None, [n \in {"m"} |-> "https"]>>}}
  \union
  {<<[Making(FALSE, arts) EXCEPT !.keys = k, !.urls = u]>> :
     arts \in {<<Art("m", Good(1))>>, <<Art("m", Good(1)), Art("m", Good(2))>>},
     k \in {None, [n \in {"m"} |-> Junk], [n \in {"m"} |-> NotAKey], [n \in {"x"} |-> k1]},
     u \in {None, [n \in {"m"} |-> "https"], [n \in {"m"} |-> "http"], [n \in {"x"} |-> "https"]}}

-----------------------------------------------------------------------------
(* Literals anywhere, tokens flawed in every way, several artifacts.       *)
WithLiterals(id, l) ==
  {[Good(id) EXCEPT !.jwt = j, !.disclosed = d] :
     j \in {<<>>, <<Lit("1.0", TRUE)>>, <<Lit("2.0", TRUE), Lit("1.5", FALSE)>>},
     d \in {<<>>, <<l>>}}
Holder == [formed |-> TRUE, signer |-> k2, over |-> 1, literals |-> <<Lit("3.0", TRUE)>>]
Held ==
  {[Good(1) EXCEPT !.kb = kb, !.cnf = c] :
     c \in {Absent, NotAKey, Junk, k1, k2},
     kb \in {Holder, [Holder EXCEPT !.over = 2], [Holder EXCEPT !.formed = FALSE],
             [Holder EXCEPT !.literals = <<Lit("0.1", FALSE)>>]}}
Flawed ==
  {[Good(1) EXCEPT !.formed = FALSE], [Good(1) EXCEPT !.crit = TRUE],
   [Good(1) EXCEPT !.signer = k2], [Good(1) EXCEPT !.resolves = FALSE],
   [Good(1) EXCEPT !.deep = TRUE], [Good(1) EXCEPT !.jwk = Junk]}
Tokens1 == WithLiterals(1, Lit("4.0", TRUE)) \union Held \union Flawed
Tokens2 ==
  WithLiterals(2, Lit("5.0", TRUE)) \union {[Good(2) EXCEPT !.refs = {1}, !.resolves = r] : r \in BOOLEAN}

Pairs ==
  {<<Art("m", t)>> : t \in Tokens1} \union {<<>>}
  \union {<<Art("m", t), Art("n", u)>> : t \in Tokens1, u \in Tokens2}

BuildSessions ==
  {<<Making(a, p)>> \o c : a \in BOOLEAN, p \in Pairs, c \in Checks}

-----------------------------------------------------------------------------
(* TSAs, the size bound, a path that is a directory, a second build.       *)
StampSessions ==
  {<<[Making(FALSE, p) EXCEPT !.tsas = n, !.isdir = d]>> \o c :
     n \in 0..3, d \in BOOLEAN, c \in Checks,
     p \in {<<Art("m", Good(1))>>, <<Art("m", Good(1)), Art("n", [Good(2) EXCEPT !.refs = {1}])>>}}
  \union
  {<<Making(a, <<Art("m", t)>>), Making(b, <<Art("n", u)>>), Asking("verify", b)>> :
     a \in BOOLEAN, b \in BOOLEAN, t \in Tokens1, u \in Tokens2}

-----------------------------------------------------------------------------
(* Files that no build wrote, read twice in one process.                   *)
Entry(name, t, k, kb) == Art(name, t) @@ [key |-> k, kb |-> kb, claims |-> 1]
ForeignFiles ==
  {Sealed([EmptyPack EXCEPT !.artifacts = es]) :
     es \in {<<Entry("m", t, [jwk |-> k, class |-> c], kb)>> :
               t \in Tokens1, k \in {k1, k2, Junk}, c \in {"supplied", "jwk_header"},
               kb \in {"absent", "ok"}}
            \union {<<Entry("m", t, [jwk |-> k1, class |-> "supplied"], "absent"),
                      Entry("n", u, [jwk |-> k1, class |-> "supplied"], "absent")>> :
                      t \in Tokens1, u \in Tokens2}}
ForeignSessions ==
  {[file |-> f, calls |-> c] : f \in ForeignFiles,
     c \in {<<Asking("restriction", a), Asking("verify", ~a)>> : a \in BOOLEAN}}

MCSessions ==
  {[file |-> Absent, calls |-> s] :
     s \in KeySessions \union BuildSessions \union StampSessions}
  \union ForeignSessions
=============================================================================
