------------------------------- MODULE Verdict -------------------------------
(***************************************************************************)
(* One run of `ap2-evidence verify`: the pack is admitted or refused, every *)
(* time token and every artifact is checked in turn, openssl being asked    *)
(* about a TSA or a certificate chain where the relying party asked for it, *)
(* the receipt is derived from what was measured, and written.              *)
(*                                                                          *)
(* A pack is what its bytes make true: this signature verifies, that token  *)
(* carries this digest.  What depends on the machine is a step's choice: an *)
(* openssl that is asked answers, or could not be run.  A subject's         *)
(* elements are a set of (state, reason): `reasons` is read as a set, and   *)
(* no two elements that say the same are told apart.                        *)
(***************************************************************************)
EXTENDS Naturals, Sequences, FiniteSets

CONSTANTS
  Inputs,           \* what a run may be given: a pack, the relying party's policy
  Openssl,          \* `shutil.which` finds openssl
  MLDSA_AVAILABLE,  \* this verifier can check ML-DSA-65
  Now,              \* the clock: the time a chain is validated at by default
  Absent            \* no block, no pinned set, no receipt

ASSUME MachineAssumption ==
  Openssl \in BOOLEAN /\ MLDSA_AVAILABLE \in BOOLEAN /\ Now \in Nat

Classes == {"admitted", "format_unsupported", "unknown_member", "malformed"}

\* A token: absent though claimed, not DER, without an imprint, over another
\* digest or over this pack's; which TSTInfo it carries, its genTime (0: none)
\* and whether openssl verifies the TSA's signature on it.
Tokens == [token : {"missing", "unreadable", "none", "other", "same"},
           granted : BOOLEAN, tst : Nat, time : Nat, tsa : BOOLEAN]

\* An artifact: malformed somewhere; issuer signature; resolved claims equal
\* to the recorded ones; its KB-JWT; a key from an x5c header, whose chain is
\* broken or valid from one time to another.
Artifacts == [error : BOOLEAN, sig : BOOLEAN, claims : BOOLEAN,
              kb : {"absent", "unknown", "ok", "bad_hash", "bad_signature"},
              x5c : BOOLEAN, broken : BOOLEAN, from : Nat, to : Nat]

\* An entry: well formed (closed, typed, base64); its algorithm ("none": not a
\* string); whether the signature verifies; its key.
Entries == [shape : BOOLEAN, alg : {"ed25519", "ml-dsa-65", "unknown", "none"},
            sig : BOOLEAN, key : Nat]

Packs    == {in.pack : in \in Inputs}
Policies == {in.policy : in \in Inputs}

ASSUME PacksAssumption ==
  \A pk \in Packs :
    /\ pk.class \in Classes
    /\ pk.digest \in BOOLEAN       \* the declared digest is the recomputed one
    /\ pk.bindings \in BOOLEAN     \* the declared bindings are the recomputed
    /\ pk.artifacts \in Seq(Artifacts)
    /\ pk.block \in Tokens \union {Absent}      \* rfc3161_timestamp, anchored
    /\ pk.anchors \in Seq({t \in Tokens : t.token # "missing"})
    /\ pk.producer \in [scheme : {"hybrid", "classical-only", "other"},
                        entries : Seq(Entries)] \union {Absent}

\* min_anchors is 0 when it is not given; tsa_cert and trust_anchor: given.
ASSUME PoliciesAssumption ==
  Policies \subseteq
    [require_producer : BOOLEAN, require_pq : BOOLEAN, require_anchor : BOOLEAN,
     min_anchors : Nat, tsa_cert : BOOLEAN, trust_anchor : BOOLEAN,
     trusted : (SUBSET Nat) \union {Absent}, trust_set_complete : BOOLEAN]

\* No pinned set is mistaken for none.
ASSUME AbsentAssumption ==
  \A pol \in Policies : pol.trusted # Absent => \A pins \in SUBSET pol.trusted : pins # Absent

VARIABLES
  pack, policy,  \* the run's inputs
  phase,         \* where the run is
  tsa,           \* openssl's answer about each token
  chain,         \* openssl's answer about each artifact's chain
  notrun,        \* a check asked for could not be run here
  receipt,       \* the receipt, once derived
  written,       \* it has reached stdout whole
  exit           \* the exit code; 256 while the run goes on

vars == <<pack, policy, phase, tsa, chain, notrun, receipt, written, exit>>

-----------------------------------------------------------------------------
(* Time tokens.                                                            *)

\* The block is token 0, the entries of `anchors` follow.
Claimed(pk) == (IF pk.block = Absent THEN {} ELSE {0}) \union DOMAIN pk.anchors

Token(pk, i) == IF i = 0 THEN pk.block ELSE pk.anchors[i]

\* `verified` of a token: binding, not TSA authenticity.
Bound(t) == t.token = "same" /\ t.granted

\* openssl is asked about every token that parses.
AsksTsa(pol, t) ==
  pol.tsa_cert /\ Openssl /\ t.token \notin {"missing", "unreadable"}

Counted(pk, pol, ans) ==
  {i \in Claimed(pk) : Bound(Token(pk, i)) /\ (pol.tsa_cert => ans[i] = "yes")}

\* Mutant: the identity of an anchor is its place in the pack.
AnchorsByPlace(pk, pol, ans) == Counted(pk, pol, ans)

\* The anchors of the pack: a copied token carries the same TSTInfo.
Identities(pk, pol, ans) == {Token(pk, i).tst : i \in Counted(pk, pol, ans)}

\* The earliest genTime a TSA signed, else the clock.
ProvenTimes(pk, pol, ans) ==
  {Token(pk, i).time : i \in {j \in Counted(pk, pol, ans) :
                                ans[j] = "yes" /\ Token(pk, j).time # 0}}

ChainTime(pk, pol, ans) ==
  LET times == ProvenTimes(pk, pol, ans)
  IN IF times = {} THEN Now ELSE CHOOSE t \in times : \A u \in times : t <= u

\* The aggregate of SPEC 3.3: a token that is claimed and not bound fails it.
Rfc3161Fails(pk) == \E i \in Claimed(pk) : ~Bound(Token(pk, i))

-----------------------------------------------------------------------------
(* Certificate chains.                                                     *)

AsksChain(pol, a) == a.x5c /\ pol.trust_anchor /\ Openssl

ChainAnswer(a, time) ==
  IF ~a.broken /\ a.from <= time /\ time <= a.to THEN "yes" ELSE "no"

-----------------------------------------------------------------------------
(* The producer block (sigsuite.verify_producer_block).                    *)

POST_QUANTUM == {"ml-dsa-65"}
CLASSICAL    == {"ed25519"}

Status(e) ==
  IF ~e.shape \/ e.alg = "none" THEN "FAIL"
  ELSE IF e.alg = "unknown" \/ (e.alg \in POST_QUANTUM /\ ~MLDSA_AVAILABLE)
         THEN "SKIP"
  ELSE IF e.sig THEN "PASS" ELSE "FAIL"

BlockEntries(b) == {b.entries[i] : i \in DOMAIN b.entries}

\* `scheme` is reconciled with the entries, whatever their status.
SchemeOk(b) ==
  LET algs == {e.alg : e \in BlockEntries(b)}
  IN \/ b.scheme = "hybrid" /\ algs \intersect POST_QUANTUM # {}
                            /\ algs \intersect CLASSICAL # {}
     \/ b.scheme = "classical-only" /\ algs \intersect POST_QUANTUM = {}

\* A real PASS, no failure, and no entry this verifier cannot check.
BlockOk(b) ==
  /\ \E e \in BlockEntries(b) : Status(e) = "PASS"
  /\ \A e \in BlockEntries(b) : Status(e) = "PASS"
  /\ SchemeOk(b)

KeyTrusted(e, trusted) == trusted # Absent /\ e.key \in trusted

\* Mutant: the statements are made about a block that failed too.
PqProtectedAnyway(b, trusted) ==
  \E e \in BlockEntries(b) :
    /\ Status(e) = "PASS" /\ e.alg \in POST_QUANTUM
    /\ trusted = Absent \/ e.key \in trusted

\* No statement about a block that is not ok.
PqProtected(b, trusted) ==
  /\ BlockOk(b)
  /\ \E e \in BlockEntries(b) :
       /\ Status(e) = "PASS" /\ e.alg \in POST_QUANTUM
       /\ trusted = Absent \/ e.key \in trusted

\* Mutant: one pinned key is enough.
TrustedByOne(b, trusted) ==
  IF trusted = Absent \/ ~BlockOk(b) THEN "null"
  ELSE IF \E e \in BlockEntries(b) : KeyTrusted(e, trusted) THEN "true"
  ELSE "false"

Trusted(b, trusted) ==
  IF trusted = Absent \/ ~BlockOk(b) THEN "null"
  ELSE IF \A e \in BlockEntries(b) : KeyTrusted(e, trusted) THEN "true"
  ELSE "false"

-----------------------------------------------------------------------------
(* derive_states: the elements of the five subjects.                       *)

El(state, reason) == [state |-> state, reason |-> reason]

\* The artifacts that are not errors.
Read(pk) == {pk.artifacts[i] : i \in {j \in DOMAIN pk.artifacts :
                                        ~pk.artifacts[j].error}}

Intact(pk) ==
  \A i \in DOMAIN pk.artifacts :
    LET a == pk.artifacts[i] IN ~a.error /\ a.sig /\ a.claims

SealedContent(pk) ==
  {IF pk.digest THEN El("verified", "") ELSE El("contradicted", "digest_mismatch")}
  \union
  {IF ~a.error /\ a.sig /\ a.claims
     THEN El("verified", "") ELSE El("contradicted", "artifact_invalid") :
     a \in {pk.artifacts[i] : i \in DOMAIN pk.artifacts}}
  \union
  (IF pk.artifacts = <<>> THEN {El("contradicted", "artifact_invalid")} ELSE {})
  \union
  (IF pk.artifacts = <<>> \/ ~Intact(pk) THEN {}    \* nothing to recompute from
   ELSE {IF pk.bindings
           THEN El("verified", "") ELSE El("contradicted", "binding_mismatch")})

HolderElement(a) ==
  CASE a.kb = "ok"            -> El("verified", "")
    [] a.kb = "bad_signature" -> El("contradicted", "kb_signature_invalid")
    [] a.kb = "bad_hash"      -> El("contradicted", "sd_hash_mismatch")
    [] a.kb = "unknown"       -> El("not_evaluated", "holder_key_unknown")

HolderBinding(pk) == {HolderElement(a) : a \in {b \in Read(pk) : b.kb # "absent"}}

\* Mutant: a check that was not run reads as one that failed.
AnchorElementFailed(pol, t, answer) ==
  IF ~Bound(t) \/ (pol.tsa_cert /\ answer # "yes")
    THEN El("contradicted", "token_invalid")
    ELSE El(IF pol.tsa_cert THEN "verified" ELSE "not_evaluated", "")

AnchorElement(pol, t, answer) ==
  CASE ~Bound(t) -> El("contradicted",
                       IF t.token = "missing" THEN "token_missing"
                       ELSE IF t.token = "other" THEN "binding_mismatch"
                       ELSE "token_invalid")
    [] Bound(t) /\ ~pol.tsa_cert -> El("not_evaluated", "tsa_not_checked")
    [] Bound(t) /\ pol.tsa_cert /\ answer = "yes" -> El("verified", "")
    [] Bound(t) /\ pol.tsa_cert /\ answer = "no" -> El("not_evaluated", "tsa_invalid")
    [] OTHER -> El("not_evaluated", "instrument_failure")

TimeAnchor(pk, pol, ans) ==
  {AnchorElement(pol, Token(pk, i), ans[i]) : i \in Claimed(pk)}

ProducerElement(e, trusted) ==
  CASE Status(e) = "FAIL" -> El("contradicted", "signature_invalid")
    [] Status(e) = "SKIP" -> El("not_evaluated", "backend_missing")
    [] Status(e) = "PASS" /\ trusted = Absent -> El("not_evaluated", "self_asserted")
    [] Status(e) = "PASS" /\ KeyTrusted(e, trusted) -> El("verified", "")
    [] OTHER -> El("not_evaluated", "key_unresolved")

ProducerSignature(b, trusted) ==
  IF b = Absent THEN {}
  ELSE {ProducerElement(e, trusted) : e \in BlockEntries(b)} \union
       (IF b.entries = <<>> \/ ~SchemeOk(b)
          THEN {El("contradicted", "signature_invalid")} ELSE {})

IssuerElement(pol, a, answer) ==
  CASE ~a.x5c -> El("not_evaluated", "self_asserted")
    [] a.x5c /\ ~pol.trust_anchor -> El("not_evaluated", "no_trust_anchor")
    [] a.x5c /\ pol.trust_anchor /\ answer = "yes" -> El("verified", "ca_certified")
    [] a.x5c /\ pol.trust_anchor /\ answer = "no" ->
         IF a.broken THEN El("contradicted", "chain_broken")
                     ELSE El("not_evaluated", "chain_unresolved")
    [] OTHER -> El("not_evaluated", "instrument_failure")

IssuerIdentity(pk, pol, ch) ==
  {IssuerElement(pol, pk.artifacts[i], ch[i]) :
     i \in {j \in DOMAIN pk.artifacts : ~pk.artifacts[j].error}}

\* _subject: contradicted > not_evaluated > verified; `verified` only when
\* every element is, and then the reasons are the qualifiers.
Subject(els) ==
  LET worst == {e \in els : e.state # "verified"}
  IN IF els = {}
       THEN [state |-> "not_evaluated", reasons |-> {"not_present"}]
     ELSE IF worst = {}
       THEN [state |-> "verified", reasons |-> {e.reason : e \in els} \ {""}]
     ELSE [state |-> IF \E e \in els : e.state = "contradicted"
                       THEN "contradicted" ELSE "not_evaluated",
           reasons |-> {e.reason : e \in worst}]

States(pk, pol, ans, ch) ==
  [sealed_content     |-> Subject(SealedContent(pk)),
   holder_binding     |-> Subject(HolderBinding(pk)),
   time_anchor        |-> Subject(TimeAnchor(pk, pol, ans)),
   producer_signature |-> Subject(ProducerSignature(pk.producer, pol.trusted)),
   issuer_identity    |-> Subject(IssuerIdentity(pk, pol, ch))]

-----------------------------------------------------------------------------
(* The relying party's policy and the verdict.                             *)

\* The four policy inputs `policy_ok` is about.
PolicyGaps(pk, pol, ans) ==
  LET b == pk.producer
      n == Cardinality(Identities(pk, pol, ans))
  IN {r \in {"require_producer"} :
        pol.require_producer /\ ~(b # Absent /\ BlockOk(b))}
     \union
     {r \in {"require_pq"} :
        /\ pol.require_pq
        /\ ~(b # Absent /\ PqProtected(b, pol.trusted)
                        /\ Trusted(b, pol.trusted) = "true")}
     \union
     {r \in {"require_anchor"} : pol.require_anchor /\ n < 1}
     \union
     {r \in {"min_anchors"} : pol.min_anchors # 0 /\ n < pol.min_anchors}

Unpinned(pk, pol) ==
  /\ pol.trusted # Absent /\ pk.producer # Absent
  /\ Trusted(pk.producer, pol.trusted) # "true"

Unmet(pk, pol, ans, states) ==
  PolicyGaps(pk, pol, ans)
  \union {r \in {"trusted_producer_keys"} : Unpinned(pk, pol)}
  \union {r \in {"trust_set_complete"} :
            /\ pol.trust_set_complete
            /\ "key_unresolved" \in states.producer_signature.reasons}

\* Mutant: a producer block this verifier cannot check in full is passed over.
AllOkSkipping(pk, pol) ==
  /\ Intact(pk)
  /\ \A a \in Read(pk) : a.kb \notin {"bad_hash", "bad_signature"}
  /\ pk.producer # Absent =>
       \A e \in BlockEntries(pk.producer) : Status(e) # "FAIL"

\* all_ok: every artifact, every KB-JWT that can be checked, the producer block.
AllOk(pk, pol) ==
  /\ Intact(pk)
  /\ \A a \in Read(pk) : a.kb \notin {"bad_hash", "bad_signature"}
  /\ pk.producer # Absent => BlockOk(pk.producer)
  /\ ~Unpinned(pk, pol)

Valid(pk, pol, ans) ==
  /\ pk.artifacts # <<>> /\ pk.digest /\ AllOk(pk, pol) /\ pk.bindings
  /\ ~Rfc3161Fails(pk)
  /\ PolicyGaps(pk, pol, ans) = {}

\* Mutant: one chain that validates clears the flag for every key.
SelfAssertedByAll(pk, ch) == \A i \in DOMAIN pk.artifacts : ch[i] # "yes"

\* Only a chain that validated clears a key, an error or no artifact never does.
SelfAssertedOnly(pk, ch) ==
  pk.artifacts = <<>> \/ \E i \in DOMAIN pk.artifacts : ch[i] # "yes"

\* Over the chains there are to attempt, of artifacts that are not errors.
ChainVerified(pk, pol, ch) ==
  LET attempted == {i \in DOMAIN pk.artifacts :
                      ~pk.artifacts[i].error /\ pk.artifacts[i].x5c}
  IN IF \/ ~pol.trust_anchor \/ attempted = {}
        \/ \E i \in attempted : ch[i] = "none"
       THEN "null"
     ELSE IF \A i \in attempted : ch[i] = "yes" THEN "true" ELSE "false"

ReceiptOf(pk, pol, ans, ch) ==
  LET states == States(pk, pol, ans, ch)
      unmet  == Unmet(pk, pol, ans, states)
  IN [class |-> "admitted", valid |-> Valid(pk, pol, ans), states |-> states,
      unmet |-> unmet, anchors_verified |-> Cardinality(Identities(pk, pol, ans)),
      skipped |-> pk.producer # Absent /\
                  \E e \in BlockEntries(pk.producer) : Status(e) = "SKIP",
      self_asserted_only |-> SelfAssertedOnly(pk, ch),
      chain_verified |-> ChainVerified(pk, pol, ch),
      pq_protected |-> pk.producer # Absent /\ PqProtected(pk.producer, pol.trusted)]

\* A refused pack gets no states and no policy.
Refusal(class) ==
  [class |-> class, valid |-> FALSE, states |-> Absent, unmet |-> Absent,
   anchors_verified |-> 0, skipped |-> FALSE, self_asserted_only |-> TRUE,
   chain_verified |-> "null", pq_protected |-> FALSE]

-----------------------------------------------------------------------------
(* The run.                                                                *)

Init ==
  /\ \E in \in Inputs : pack = in.pack /\ policy = in.policy
  /\ phase = "read"
  /\ tsa = [i \in Claimed(pack) |-> "unasked"]
  /\ chain = [i \in DOMAIN pack.artifacts |-> "unasked"]
  /\ notrun = FALSE
  /\ receipt = Absent
  /\ written = FALSE
  /\ exit = 256

Admit ==
  /\ phase = "read"
  /\ IF pack.class = "admitted"
       THEN phase' = "tokens" /\ UNCHANGED receipt
       ELSE phase' = "write" /\ receipt' = Refusal(pack.class)
  /\ UNCHANGED <<pack, policy, tsa, chain, notrun, written, exit>>

\* Mutant: a TSA check that could not be run is not remembered.
CheckTokenForgets(i) ==
  /\ phase = "tokens" /\ tsa[i] = "unasked"
  /\ \A j \in Claimed(pack) : tsa[j] = "unasked" => i <= j
  /\ tsa' = [tsa EXCEPT ![i] = IF AsksTsa(policy, Token(pack, i)) /\ Token(pack, i).tsa
                               THEN "yes" ELSE "none"]
         \/ tsa' = [tsa EXCEPT ![i] = "none"]
  /\ UNCHANGED <<pack, policy, phase, chain, notrun, receipt, written, exit>>

\* _verify_rfc3161, in pack order: openssl answers, or could not be run here.
CheckToken(i) ==
  /\ phase = "tokens" /\ tsa[i] = "unasked"
  /\ \A j \in Claimed(pack) : tsa[j] = "unasked" => i <= j
  /\ IF AsksTsa(policy, Token(pack, i))
       THEN \/ /\ tsa' = [tsa EXCEPT ![i] = IF Token(pack, i).tsa THEN "yes" ELSE "no"]
               /\ UNCHANGED notrun
            \/ tsa' = [tsa EXCEPT ![i] = "none"] /\ notrun' = TRUE
       ELSE tsa' = [tsa EXCEPT ![i] = "none"] /\ UNCHANGED notrun
  /\ UNCHANGED <<pack, policy, phase, chain, receipt, written, exit>>

TokensChecked ==
  /\ phase = "tokens"
  /\ \A i \in Claimed(pack) : tsa[i] # "unasked"
  /\ phase' = "artifacts"
  /\ UNCHANGED <<pack, policy, tsa, chain, notrun, receipt, written, exit>>

\* The checks of one artifact, its chain among them, at the proven time.  Of an
\* artifact that turns out to be an error nothing else is kept.
CheckArtifact(i) ==
  /\ phase = "artifacts" /\ chain[i] = "unasked"
  /\ \A j \in DOMAIN pack.artifacts : chain[j] = "unasked" => i <= j
  /\ IF AsksChain(policy, pack.artifacts[i]) /\ ~pack.artifacts[i].error
       THEN \/ /\ chain' = [chain EXCEPT ![i] =
                    ChainAnswer(pack.artifacts[i], ChainTime(pack, policy, tsa))]
               /\ UNCHANGED notrun
            \/ chain' = [chain EXCEPT ![i] = "none"] /\ notrun' = TRUE
       ELSE chain' = [chain EXCEPT ![i] = "none"] /\ UNCHANGED notrun
  /\ UNCHANGED <<pack, policy, phase, tsa, receipt, written, exit>>

Derive ==
  /\ phase = "artifacts"
  /\ \A i \in DOMAIN pack.artifacts : chain[i] # "unasked"
  /\ receipt' = ReceiptOf(pack, policy, tsa, chain)
  /\ phase' = "write"
  /\ UNCHANGED <<pack, policy, tsa, chain, notrun, written, exit>>

\* The receipt is written, whole or not (module Receipt), and the exit code is
\* the verdict's only when it was and every check asked for was run.
Emit ==
  /\ phase = "write"
  /\ written' \in BOOLEAN
  /\ exit' = IF ~written' \/ notrun THEN 74 ELSE IF receipt.valid THEN 0 ELSE 1
  /\ phase' = "done"
  /\ UNCHANGED <<pack, policy, tsa, chain, notrun, receipt>>

Next ==
  \/ Admit
  \/ \E i \in Claimed(pack) : CheckToken(i)
  \/ TokensChecked
  \/ \E i \in DOMAIN pack.artifacts : CheckArtifact(i)
  \/ Derive
  \/ Emit

Spec == Init /\ [][Next]_vars

-----------------------------------------------------------------------------
(* Properties.                                                             *)

Derived == receipt # Absent /\ receipt.class = "admitted"

\* Every variable keeps its shape, and there is no receipt before its derivation.
TypeOK ==
  /\ phase \in {"read", "tokens", "artifacts", "write", "done"}
  /\ tsa \in [Claimed(pack) -> {"unasked", "yes", "no", "none"}]
  /\ chain \in [DOMAIN pack.artifacts -> {"unasked", "yes", "no", "none"}]
  /\ notrun \in BOOLEAN /\ written \in BOOLEAN
  /\ exit \in {0, 1, 74, 256}
  /\ receipt # Absent => phase \in {"write", "done"}

\* The fields of a receipt and its states, which separate code derives and
\* different people read, say the same.  SPEC 6.9: `valid` equals: no subject
\* but issuer_identity is contradicted, no producer entry is SKIP, policy met.
\* A cleared self_asserted_only is a verified identity whose chains all
\* validated, and on a valid pack (none of whose artifacts is an error) a
\* verified identity clears the flag.
FieldsAndStatesAgree ==
  Derived =>
    /\ receipt.valid <=>
         /\ \A s \in {"sealed_content", "holder_binding", "time_anchor",
                      "producer_signature"} :
              receipt.states[s].state # "contradicted"
         /\ ~receipt.skipped
         /\ receipt.unmet = {}
    /\ ~receipt.self_asserted_only =>
         /\ receipt.states.issuer_identity.state = "verified"
         /\ receipt.chain_verified = "true"
    /\ receipt.valid /\ receipt.states.issuer_identity.state = "verified" =>
         ~receipt.self_asserted_only

\* The receipt of a machine where every check asked for runs.
IdealTsa(pk, pol) ==
  [i \in Claimed(pk) |-> IF ~AsksTsa(pol, Token(pk, i)) THEN "none"
                         ELSE IF Token(pk, i).tsa THEN "yes" ELSE "no"]
IdealChain(pk, pol) ==
  [i \in DOMAIN pk.artifacts |->
     IF AsksChain(pol, pk.artifacts[i]) /\ ~pk.artifacts[i].error
       THEN ChainAnswer(pk.artifacts[i], ChainTime(pk, pol, IdealTsa(pk, pol)))
       ELSE "none"]
Ideal(pk, pol) == ReceiptOf(pk, pol, IdealTsa(pk, pol), IdealChain(pk, pol))

\* An instrument that failed is never a result about the pack: no subject is
\* contradicted, and no pack is valid, that would not be with every check run.
InstrumentsNeverDecide ==
  Derived =>
    /\ \A s \in DOMAIN receipt.states :
         receipt.states[s].state = "contradicted" =>
           Ideal(pack, policy).states[s].state = "contradicted"
    /\ receipt.valid => Ideal(pack, policy).valid

\* Exit 0 or 1 is the verdict of a machine where every check runs: a check
\* that could not be run, or a receipt not written whole, is 74.
ExitIsTheVerdict ==
  exit \in {0, 1} /\ Derived =>
    written /\ receipt = Ideal(pack, policy) /\ (exit = 0 <=> receipt.valid)

\* A policy asking for n anchors is met only by n bound tokens no two of which
\* carry the same TSTInfo, each of them TSA-verified under a TSA certificate:
\* a copied token, however it is wrapped, is one anchor.
AnchorsAreDistinct ==
  Derived /\ receipt.unmet = {} /\ policy.min_anchors # 0 =>
    \E S \in SUBSET Claimed(pack) :
      /\ Cardinality(S) = policy.min_anchors
      /\ \A i \in S : /\ Bound(Token(pack, i))
                      /\ policy.tsa_cert => Token(pack, i).tsa
      /\ \A i, j \in S : Token(pack, i).tst = Token(pack, j).tst => i = j

\* `require_pq` met, or `pq_protected` stated, means that every signature of
\* the block passed, an ML-DSA-65 one among them; under the policy, all of
\* them with keys the relying party pinned.
PqIsPinnedAndPassed ==
  Derived /\ (receipt.pq_protected \/ (policy.require_pq /\ receipt.unmet = {})) =>
    LET es == BlockEntries(pack.producer)
    IN /\ \A e \in es : Status(e) = "PASS"
       /\ \E e \in es : e.alg = "ml-dsa-65"
       /\ policy.require_pq /\ receipt.unmet = {} =>
            \A e \in es : e.key \in policy.trusted

\* The relying party's requirements only remove acceptance: a pack valid under
\* a policy is valid under none, and under the same policy with more keys
\* pinned; declaring the pinned set complete names a gap without moving the
\* verdict.
PolicyOnlyRefuses ==
  Derived =>
    /\ receipt.valid =>
         Valid(pack, [policy EXCEPT !.require_producer = FALSE, !.require_pq = FALSE,
                        !.require_anchor = FALSE, !.min_anchors = 0,
                        !.trusted = Absent], tsa)
    /\ policy.trusted # Absent =>
         \A fewer \in SUBSET policy.trusted :
           Valid(pack, [policy EXCEPT !.trusted = fewer], tsa) => receipt.valid
    /\ "trust_set_complete" \in receipt.unmet => ~receipt.valid
=============================================================================
