------------------------------ MODULE MCVerdict ------------------------------
(***************************************************************************)
(* The packs and policies the run of Verdict chooses from: three families,  *)
(* each of which lets one part of the pack vary in full and keeps the       *)
(* others to one or two representatives.                                    *)
(***************************************************************************)
EXTENDS JsVerdict

UpTo(n, S) == UNION {[1..k -> S] : k \in 0..n}

MCPack(cls, digest, bindings, artifacts, block, anchors, producer) ==
  [class |-> cls, digest |-> digest, bindings |-> bindings,
   artifacts |-> artifacts, block |-> block, anchors |-> anchors,
   producer |-> producer]

Art(sig, claims, kb, chain0) ==
  [error |-> FALSE, sig |-> sig, claims |-> claims, kb |-> kb,
   x5c |-> chain0 # "none", broken |-> chain0 = "broken",
   from |-> IF chain0 = "later" THEN 2 ELSE 0,
   to   |-> IF chain0 = "expired" THEN 1 ELSE 9]
GoodArt == Art(TRUE, TRUE, "ok", "none")

Tok(token, granted, id, signed) ==
  [token |-> token, granted |-> granted, tst |-> id, time |-> id, tsa |-> signed]

Entry(shape, alg, sig, key) ==
  [shape |-> shape, alg |-> alg, sig |-> sig, key |-> key]
GoodBlock ==
  [scheme |-> "hybrid", entries |-> <<Entry(TRUE, "ed25519", TRUE, 1),
                                      Entry(TRUE, "ml-dsa-65", TRUE, 2)>>]
\* An algorithm this verifier does not know beside a signature that passes.
SkippedBlock ==
  [scheme |-> "classical-only", entries |-> <<Entry(TRUE, "ed25519", TRUE, 1),
                                              Entry(TRUE, "unknown", TRUE, 2)>>]
NoPolicy ==
  [require_producer |-> FALSE, require_pq |-> FALSE, require_anchor |-> FALSE,
   min_anchors |-> 0, tsa_cert |-> FALSE, trust_anchor |-> FALSE,
   trusted |-> Absent, trust_set_complete |-> FALSE]

Refused ==
  {MCPack(c, FALSE, FALSE, <<>>, Absent, <<>>, Absent) : c \in Classes \ {"admitted"}}

-----------------------------------------------------------------------------
(* An artifact of any kind, another one beside it or not, any digest and   *)
(* binding set, a producer block or none.                                  *)
ArtKinds ==
  {Art(s, c, kb, x) : s \in BOOLEAN, c \in BOOLEAN,
      kb \in {"absent", "unknown", "ok", "bad_hash", "bad_signature"},
      x \in {"none", "valid", "expired", "broken"}}
  \union {[GoodArt EXCEPT !.error = TRUE]}

\* What stands beside the artifact that varies.
Beside ==
  {GoodArt, [GoodArt EXCEPT !.error = TRUE], Art(FALSE, TRUE, "absent", "none"),
   Art(TRUE, TRUE, "bad_hash", "broken"), Art(TRUE, TRUE, "unknown", "expired")}

ArtifactPacks ==
  Refused \union
  {MCPack("admitted", d, b, as, Absent, <<>>, p) :
     d \in BOOLEAN, b \in BOOLEAN, p \in {Absent, GoodBlock, SkippedBlock},
     as \in {<<>>} \union {<<x>> : x \in ArtKinds} \union
             {<<x, y>> : x \in ArtKinds, y \in Beside}}
ArtifactPolicies ==
  {[NoPolicy EXCEPT !.trust_anchor = t] : t \in BOOLEAN}

-----------------------------------------------------------------------------
(* A block and up to two anchors of any kind, two TSTInfos, one chain.     *)
TokKinds ==
  {Tok("unreadable", FALSE, 1, FALSE), Tok("none", TRUE, 1, FALSE),
   Tok("other", TRUE, 1, FALSE), Tok("same", FALSE, 1, FALSE)}
  \union {Tok("same", TRUE, i, s) : i \in {1, 2}, s \in BOOLEAN}

TokenPacks ==
  {MCPack("admitted", TRUE, TRUE, <<Art(TRUE, TRUE, "ok", x)>>, k, as, Absent) :
     x \in {"none", "valid", "expired", "later", "broken"}, as \in UpTo(2, TokKinds),
     k \in TokKinds \union {Absent, Tok("missing", FALSE, 1, FALSE)}}
TokenPolicies ==
  {[NoPolicy EXCEPT !.tsa_cert = t, !.trust_anchor = TRUE,
                    !.require_anchor = r, !.min_anchors = n] :
     t \in BOOLEAN, r \in BOOLEAN, n \in {0, 2}}

-----------------------------------------------------------------------------
(* Up to two entries of any kind, any scheme, any producer policy.         *)
EntryKinds ==
  {Entry(FALSE, "ed25519", TRUE, 1), Entry(FALSE, "none", FALSE, 1),
   Entry(TRUE, "unknown", TRUE, 1)}
  \union {Entry(TRUE, alg, s, k) : alg \in {"ed25519", "ml-dsa-65"},
                                   s \in BOOLEAN, k \in {1, 2}}

ProducerPacks ==
  {MCPack("admitted", TRUE, TRUE, <<GoodArt>>, Absent, <<>>, p) :
     p \in {Absent} \union
           [scheme : {"hybrid", "classical-only", "other"},
            entries : UpTo(2, EntryKinds)]}
ProducerPolicies ==
  {[NoPolicy EXCEPT !.require_producer = r, !.require_pq = q, !.trusted = t,
                    !.trust_set_complete = c] :
     r \in BOOLEAN, q \in BOOLEAN, c \in BOOLEAN,
     t \in {Absent, {}, {1}, {1, 2}}}

-----------------------------------------------------------------------------
VerdictInputs ==
  [pack : ArtifactPacks, policy : ArtifactPolicies]
  \union [pack : TokenPacks, policy : TokenPolicies]
  \union [pack : ProducerPacks, policy : ProducerPolicies]
=============================================================================
