------------------------------ MODULE JsVerdict ------------------------------
(***************************************************************************)
(* The second verifier, verifiers/js/ap2-verify.mjs: what its receipt says   *)
(* of an admitted pack.  It has no openssl: it never checks a TSA or a       *)
(* chain, and refuses to be given a trust anchor.  Whether it has ML-DSA-65  *)
(* depends on its own runtime (`have`).  The pack and the policy are those   *)
(* of module Verdict, and so is the shape of the receipt.                    *)
(***************************************************************************)
EXTENDS Verdict

-----------------------------------------------------------------------------
(* verifyProducerBlock.                                                    *)

JsShaped(e) == e.alg # "none" /\ e.shape

\* verifyProducer: true, false, or null for what it has no backend for.
JsStatus(e, have) ==
  IF ~JsShaped(e) THEN "FAIL"
  ELSE IF e.alg \notin {"ed25519", "ml-dsa-65"} \/ (e.alg = "ml-dsa-65" /\ ~have)
    THEN "SKIP"
  ELSE IF e.sig THEN "PASS" ELSE "FAIL"

JsBlock(b, trusted, have) ==
  LET es == BlockEntries(b)
      hasPq == \E e \in es : e.alg = "ml-dsa-65"
      hasClassical == \E e \in es : e.alg = "ed25519"
      schemeOk == \/ b.scheme = "hybrid" /\ hasPq /\ hasClassical
                  \/ b.scheme = "classical-only" /\ ~hasPq
      ok == /\ \E e \in es : JsStatus(e, have) = "PASS"
            /\ ~\E e \in es : JsStatus(e, have) \in {"FAIL", "SKIP"}
            /\ schemeOk
      allPinned == \A e \in es : JsShaped(e) /\ e.key \in trusted
  IN [ok |-> ok, scheme_ok |-> schemeOk,
      pq_protected |->
        ok /\ \E e \in es : /\ JsStatus(e, have) = "PASS" /\ e.alg = "ml-dsa-65"
                            /\ trusted = Absent \/ e.key \in trusted,
      trusted |-> IF trusted = Absent \/ ~ok THEN "null"
                  ELSE IF allPinned THEN "true" ELSE "false"]

-----------------------------------------------------------------------------
(* deriveStates: elements by rank, an absent subject given its element.    *)

JsRank(e) ==
  CASE e.state = "contradicted" -> 3
    [] e.state # "contradicted" /\ e.reason = "instrument_failure" -> 2
    [] e.state = "not_evaluated" /\ e.reason # "instrument_failure" -> 1
    [] OTHER -> 0

JsSubject(elements) ==
  LET top == CHOOSE e \in elements : \A f \in elements : JsRank(f) <= JsRank(e)
  IN [state |-> top.state,
      reasons |-> IF top.state = "verified"
                    THEN {e.reason : e \in {f \in elements : f.reason # ""}}
                    ELSE {e.reason : e \in {f \in elements : f.state # "verified"}}]

JsOr(elements) == IF elements = {} THEN {El("not_evaluated", "not_present")} ELSE elements

JsSealed(pk) ==
  LET arts == {pk.artifacts[i] : i \in DOMAIN pk.artifacts}
      bad(a) == a.error \/ ~a.sig \/ ~a.claims
      bindingSetMatch == IF arts # {} /\ ~\E a \in arts : bad(a) THEN {pk.bindings} ELSE {}
  IN {IF pk.digest THEN El("verified", "") ELSE El("contradicted", "digest_mismatch")}
     \union (IF arts = {} THEN {El("contradicted", "artifact_invalid")} ELSE {})
     \union {IF bad(a) THEN El("contradicted", "artifact_invalid") ELSE El("verified", "") :
               a \in arts}
     \union {IF match THEN El("verified", "") ELSE El("contradicted", "binding_mismatch") :
               match \in bindingSetMatch}

\* kb.verified: true, false, or null when the holder's key is unknown.
JsHolder(pk) ==
  {IF a.kb = "ok" THEN El("verified", "")
   ELSE IF a.kb = "bad_signature" THEN El("contradicted", "kb_signature_invalid")
   ELSE IF a.kb = "bad_hash" THEN El("contradicted", "sd_hash_mismatch")
   ELSE El("not_evaluated", "holder_key_unknown") :
     a \in {r \in Read(pk) : r.kb # "absent"}}

\* Mutant: a token whose TSA was to be checked is invalid when it was not.
JsAnchorElementStrict(pol, t) ==
  IF ~Bound(t) \/ pol.tsa_cert
    THEN El("contradicted", IF t.token = "other" THEN "binding_mismatch" ELSE "token_invalid")
    ELSE El("not_evaluated", "tsa_not_checked")

\* tsa_verified is null, whatever was asked for.
JsAnchorElement(pol, t) ==
  IF ~Bound(t)
    THEN El("contradicted", IF t.token = "other" THEN "binding_mismatch" ELSE "token_invalid")
  ELSE IF ~pol.tsa_cert THEN El("not_evaluated", "tsa_not_checked")
  ELSE El("not_evaluated", "instrument_failure")

JsTime(pk, pol) ==
  (IF pk.block = Absent THEN {}
   ELSE {IF pk.block.token = "missing" THEN El("contradicted", "token_missing")
         ELSE JsAnchorElement(pol, pk.block)})
  \union {JsAnchorElement(pol, pk.anchors[i]) : i \in DOMAIN pk.anchors}

JsProducer(b, trusted, have) ==
  IF b = Absent THEN {}
  ELSE {LET status == JsStatus(e, have)
        IN IF status = "FAIL" THEN El("contradicted", "signature_invalid")
           ELSE IF status = "SKIP" THEN El("not_evaluated", "backend_missing")
           ELSE IF trusted = Absent THEN El("not_evaluated", "self_asserted")
           ELSE IF e.key \in trusted THEN El("verified", "")
           ELSE El("not_evaluated", "key_unresolved") : e \in BlockEntries(b)}
       \union (IF b.entries = <<>> \/ ~JsBlock(b, trusted, have).scheme_ok
                 THEN {El("contradicted", "signature_invalid")} ELSE {})

JsIssuer(pk) ==
  {El("not_evaluated", IF a.x5c THEN "no_trust_anchor" ELSE "self_asserted") : a \in Read(pk)}

JsStates(pk, pol, have) ==
  [sealed_content     |-> JsSubject(JsSealed(pk)),
   holder_binding     |-> JsSubject(JsOr(JsHolder(pk))),
   time_anchor        |-> JsSubject(JsOr(JsTime(pk, pol))),
   producer_signature |-> JsSubject(JsOr(JsProducer(pk.producer, pol.trusted, have))),
   issuer_identity    |-> JsSubject(JsOr(JsIssuer(pk)))]

-----------------------------------------------------------------------------
(* verifyEvidenceInner, once the pack is admitted.                         *)

\* Under a TSA certificate no token counts: none is TSA-verified here.
JsAnchors(pk, pol) ==
  Cardinality({Token(pk, i).tst : i \in {j \in Claimed(pk) :
                                           Bound(Token(pk, j)) /\ ~pol.tsa_cert}})

JsRfcFalse(pk) ==
  \/ pk.block # Absent /\ ~Bound(pk.block)
  \/ \E i \in DOMAIN pk.anchors : ~Bound(pk.anchors[i])

\* A requirement of the policy that is not met is named.
JsPolicyGaps(pk, pol, have) ==
  LET block == JsBlock(pk.producer, pol.trusted, have)
      present == pk.producer # Absent
      met == [require_producer |-> present /\ block.ok,
              require_pq |-> present /\ block.pq_protected /\ block.trusted = "true",
              require_anchor |-> JsAnchors(pk, pol) >= 1,
              min_anchors |-> JsAnchors(pk, pol) >= pol.min_anchors]
      asked == {r \in {"require_producer", "require_pq", "require_anchor"} : pol[r]}
               \union (IF pol.min_anchors # 0 THEN {"min_anchors"} ELSE {})
  IN {r \in asked : ~met[r]}

JsUnpinned(pk, pol, have) ==
  /\ pol.trusted # Absent /\ pk.producer # Absent
  /\ JsBlock(pk.producer, pol.trusted, have).trusted # "true"

JsAllOk(pk, pol, have) ==
  /\ \A i \in DOMAIN pk.artifacts :
       LET a == pk.artifacts[i]
       IN ~a.error /\ a.sig /\ a.claims /\ a.kb \notin {"bad_hash", "bad_signature"}
  /\ pk.producer # Absent => JsBlock(pk.producer, pol.trusted, have).ok
  /\ ~JsUnpinned(pk, pol, have)

JsReceipt(pk, pol, have) ==
  LET states == JsStates(pk, pol, have)
      gaps == JsPolicyGaps(pk, pol, have)
      unresolved == pol.trust_set_complete
                      /\ "key_unresolved" \in states.producer_signature.reasons
      block == JsBlock(pk.producer, pol.trusted, have)
  IN [class |-> "admitted",
      valid |-> /\ pk.artifacts # <<>> /\ pk.digest /\ JsAllOk(pk, pol, have)
                /\ pk.bindings /\ ~JsRfcFalse(pk) /\ gaps = {},
      states |-> states,
      unmet |-> gaps
                \union (IF JsUnpinned(pk, pol, have) THEN {"trusted_producer_keys"} ELSE {})
                \union (IF unresolved THEN {"trust_set_complete"} ELSE {}),
      anchors_verified |-> JsAnchors(pk, pol),
      skipped |-> pk.producer # Absent
                    /\ \E e \in BlockEntries(pk.producer) : JsStatus(e, have) = "SKIP",
      self_asserted_only |-> TRUE, chain_verified |-> "null",
      pq_protected |-> pk.producer # Absent /\ block.pq_protected]

-----------------------------------------------------------------------------
(* The two verifiers.                                                      *)

\* What openssl has answered where there is none.
NoTsa(pk)   == [i \in Claimed(pk) |-> "none"]
NoChain(pk) == [i \in DOMAIN pk.artifacts |-> "none"]

\* Two implementations, one receipt: the JavaScript verifier says of a pack what
\* the Python one says on a machine without openssl and with the same backends;
\* and it accepts nothing that the Python one, with all it can ask for, refuses,
\* whether or not its runtime has ML-DSA-65.
VerifiersAgree ==
  phase = "read" /\ pack.class = "admitted" =>
    LET pol == [policy EXCEPT !.trust_anchor = FALSE]
    IN /\ JsReceipt(pack, pol, MLDSA_AVAILABLE)
            = ReceiptOf(pack, pol, NoTsa(pack), NoChain(pack))
       /\ \A have \in BOOLEAN :
            (have => MLDSA_AVAILABLE) /\ JsReceipt(pack, pol, have).valid
              => Ideal(pack, pol).valid
=============================================================================
