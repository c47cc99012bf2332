---------------------------- MODULE VerdictProofs ----------------------------
(***************************************************************************)
(* Proofs about modules Verdict and JsVerdict, for any packs, any policies   *)
(* and any machine.                                                         *)
(*                                                                          *)
(* The invariant everything follows from is Derivation: a receipt is the    *)
(* refusal of a pack that is not admitted, or what ReceiptOf derives from   *)
(* the pack, the policy and openssl's answers, which no longer change.  The *)
(* rest is about ReceiptOf, subject by subject.                             *)
(***************************************************************************)
EXTENDS JsVerdict, FiniteSetTheorems, SequenceTheorems, TLAPS

FromInputs == pack \in Packs /\ policy \in Policies

Derivation ==
  \/ receipt = Absent
  \/ receipt = Refusal(pack.class) /\ pack.class # "admitted"
  \/ receipt = ReceiptOf(pack, policy, tsa, chain) /\ phase \in {"write", "done"}

-----------------------------------------------------------------------------
(* The shape of the run.                                                   *)

\* The inputs of the run are a pack and a policy it may be given, and stay so.
THEOREM InputsStay == Spec => []FromInputs
<1>1. Init => FromInputs
  BY DEF Init, FromInputs, Packs, Policies
<1>2. FromInputs /\ [Next]_vars => FromInputs'
  BY DEF FromInputs, Next, vars, Admit, CheckToken, TokensChecked, CheckArtifact,
         Derive, Emit
<1>3. QED
  BY <1>1, <1>2, PTL DEF Spec

\* Every variable keeps its shape and no receipt is there before it is derived.
THEOREM TypeCorrect == Spec => []TypeOK
<1>1. Init => TypeOK
  <2> SUFFICES ASSUME Init PROVE TypeOK
    OBVIOUS
  <2>1. tsa \in [Claimed(pack) -> {"unasked", "yes", "no", "none"}]
    BY DEF Init
  <2>2. chain \in [DOMAIN pack.artifacts -> {"unasked", "yes", "no", "none"}]
    BY DEF Init
  <2>3. QED
    BY <2>1, <2>2 DEF Init, TypeOK
<1>2. TypeOK /\ [Next]_vars => TypeOK'
  <2> SUFFICES ASSUME TypeOK, [Next]_vars PROVE TypeOK'
    OBVIOUS
  <2> USE DEF TypeOK
  <2>1. CASE Admit
    BY <2>1 DEF Admit
  <2>2. ASSUME NEW i \in Claimed(pack), CheckToken(i) PROVE TypeOK'
    <3>1. UNCHANGED <<pack, policy, phase, chain, receipt, written, exit>>
      BY <2>2 DEF CheckToken
    <3>2. notrun' \in BOOLEAN
      BY <2>2 DEF CheckToken
    <3>3. tsa' \in [Claimed(pack) -> {"unasked", "yes", "no", "none"}]
      BY <2>2 DEF CheckToken
    <3>4. QED
      BY <3>1, <3>2, <3>3 DEF Claimed
  <2>3. CASE TokensChecked
    BY <2>3 DEF TokensChecked, Claimed
  <2>4. ASSUME NEW i \in DOMAIN pack.artifacts, CheckArtifact(i) PROVE TypeOK'
    <3>1. UNCHANGED <<pack, policy, phase, tsa, receipt, written, exit>>
      BY <2>4 DEF CheckArtifact
    <3>2. notrun' \in BOOLEAN
      BY <2>4 DEF CheckArtifact
    <3>3. chain' \in [DOMAIN pack.artifacts -> {"unasked", "yes", "no", "none"}]
      BY <2>4 DEF CheckArtifact, ChainAnswer
    <3>4. QED
      BY <3>1, <3>2, <3>3 DEF Claimed
  <2>5. CASE Derive
    BY <2>5 DEF Derive, Claimed
  <2>6. CASE Emit
    BY <2>6 DEF Emit, Claimed
  <2>7. CASE UNCHANGED vars
    BY <2>7 DEF vars, Claimed
  <2>8. QED
    BY <2>1, <2>2, <2>3, <2>4, <2>5, <2>6, <2>7 DEF Next
<1>3. QED
  BY <1>1, <1>2, PTL DEF Spec

\* A receipt is a refusal or what ReceiptOf derives from what was measured.
THEOREM ReceiptsAreDerived == Spec => []Derivation
<1>1. Init => Derivation
  BY DEF Init, Derivation
<1>2. TypeOK /\ Derivation /\ [Next]_vars => Derivation'
  <2> SUFFICES ASSUME TypeOK, Derivation, [Next]_vars PROVE Derivation'
    OBVIOUS
  <2>1. CASE Admit
    BY <2>1 DEF Admit, Derivation, TypeOK
  <2>2. CASE \E i \in Claimed(pack) : CheckToken(i)
    <3>1. receipt = Absent /\ receipt' = Absent
      BY <2>2 DEF CheckToken, TypeOK
    <3>2. QED
      BY <3>1 DEF Derivation
  <2>3. CASE TokensChecked
    <3>1. receipt = Absent /\ receipt' = Absent
      BY <2>3 DEF TokensChecked, TypeOK
    <3>2. QED
      BY <3>1 DEF Derivation
  <2>4. CASE \E i \in DOMAIN pack.artifacts : CheckArtifact(i)
    <3>1. receipt = Absent /\ receipt' = Absent
      BY <2>4 DEF CheckArtifact, TypeOK
    <3>2. QED
      BY <3>1 DEF Derivation
  <2>5. CASE Derive
    BY <2>5 DEF Derive, Derivation
  <2>6. CASE Emit
    BY <2>6 DEF Emit, Derivation
  <2>7. CASE UNCHANGED vars
    BY <2>7 DEF vars, Derivation
  <2>8. QED
    BY <2>1, <2>2, <2>3, <2>4, <2>5, <2>6, <2>7 DEF Next
<1>3. QED
  BY <1>1, <1>2, TypeCorrect, PTL DEF Spec

\* A derived receipt is the one ReceiptOf gives.
LEMMA DerivedIs ==
  ASSUME Derivation, Derived
  PROVE  receipt = ReceiptOf(pack, policy, tsa, chain)
BY DEF Derivation, Derived, Refusal

-----------------------------------------------------------------------------
(* Subjects.                                                               *)

\* A subject is contradicted exactly when one of its elements is.
LEMMA SubjectContradicted ==
  ASSUME NEW els
  PROVE  Subject(els).state = "contradicted" <=>
           \E e \in els : e.state = "contradicted"
<1> DEFINE worst == {e \in els : e.state # "verified"}
<1>1. CASE els = {}
  BY <1>1 DEF Subject
<1>2. CASE els # {} /\ worst = {}
  BY <1>2 DEF Subject
<1>3. CASE els # {} /\ worst # {}
  BY <1>3 DEF Subject
<1>4. QED
  BY <1>1, <1>2, <1>3

\* Its reasons name every element that is not verified.
LEMMA SubjectNames ==
  ASSUME NEW els, NEW e \in els, e.state # "verified"
  PROVE  e.reason \in Subject(els).reasons
BY DEF Subject

\* Its reasons are those of its elements, or that there is none.
LEMMA SubjectReasons ==
  ASSUME NEW els, NEW x \in Subject(els).reasons
  PROVE  x = "not_present" \/ \E e \in els : x = e.reason
<1> DEFINE worst == {e \in els : e.state # "verified"}
<1>1. CASE els = {}
  BY <1>1 DEF Subject
<1>2. CASE els # {} /\ worst = {}
  BY <1>2 DEF Subject
<1>3. CASE els # {} /\ worst # {}
  BY <1>3 DEF Subject
<1>4. QED
  BY <1>1, <1>2, <1>3

\* A verified subject has elements, all of them verified.
LEMMA SubjectVerified ==
  ASSUME NEW els
  PROVE  Subject(els).state = "verified" <=>
           els # {} /\ \A e \in els : e.state = "verified"
<1> DEFINE worst == {e \in els : e.state # "verified"}
<1>1. CASE els = {}
  BY <1>1 DEF Subject
<1>2. CASE els # {} /\ worst = {}
  BY <1>2 DEF Subject
<1>3. CASE els # {} /\ worst # {}
  BY <1>3 DEF Subject
<1>4. QED
  BY <1>1, <1>2, <1>3

-----------------------------------------------------------------------------
(* The two readings of one receipt.                                        *)

\* sealed_content: contradicted unless digest, artifacts and bindings hold.
LEMMA SealedContradicted ==
  ASSUME NEW pk \in Packs
  PROVE  Subject(SealedContent(pk)).state # "contradicted" <=>
           pk.digest /\ pk.artifacts # <<>> /\ Intact(pk) /\ pk.bindings
<1> DEFINE E == SealedContent(pk)
<1>0. pk.digest \in BOOLEAN /\ pk.bindings \in BOOLEAN /\ pk.artifacts \in Seq(Artifacts)
  BY PacksAssumption
<1>1. ASSUME pk.digest, pk.artifacts # <<>>, Intact(pk), pk.bindings, NEW e \in E
      PROVE  e.state = "verified"
  <2>1. e = El("verified", "")
    <3>1. \A a \in {pk.artifacts[i] : i \in DOMAIN pk.artifacts} :
            ~a.error /\ a.sig /\ a.claims
      BY <1>1 DEF Intact
    <3>2. QED
      BY <1>1, <3>1 DEF SealedContent
  <2>2. QED
    BY <2>1 DEF El
<1>2. ASSUME ~pk.digest PROVE \E e \in E : e.state = "contradicted"
  <2>1. El("contradicted", "digest_mismatch") \in E
    BY <1>2 DEF SealedContent
  <2>2. QED
    BY <2>1 DEF El
<1>3. ASSUME pk.artifacts = <<>> PROVE \E e \in E : e.state = "contradicted"
  <2>1. El("contradicted", "artifact_invalid") \in E
    BY <1>3 DEF SealedContent
  <2>2. QED
    BY <2>1 DEF El
<1>4. ASSUME ~Intact(pk) PROVE \E e \in E : e.state = "contradicted"
  <2>1. PICK i \in DOMAIN pk.artifacts :
          LET a == pk.artifacts[i] IN ~(~a.error /\ a.sig /\ a.claims)
    BY <1>4 DEF Intact
  <2>2. El("contradicted", "artifact_invalid") \in E
    BY <2>1 DEF SealedContent
  <2>3. QED
    BY <2>2 DEF El
<1>5. ASSUME pk.artifacts # <<>>, Intact(pk), ~pk.bindings
      PROVE  \E e \in E : e.state = "contradicted"
  <2>1. El("contradicted", "binding_mismatch") \in E
    BY <1>5 DEF SealedContent
  <2>2. QED
    BY <2>1 DEF El
<1>6. Subject(E).state = "contradicted" <=> \E e \in E : e.state = "contradicted"
  BY SubjectContradicted
<1>7. QED
  BY <1>0, <1>1, <1>2, <1>3, <1>4, <1>5, <1>6

\* holder_binding: contradicted when a KB-JWT that can be checked fails.
LEMMA HolderContradicted ==
  ASSUME NEW pk \in Packs
  PROVE  Subject(HolderBinding(pk)).state # "contradicted" <=>
           \A a \in Read(pk) : a.kb \notin {"bad_hash", "bad_signature"}
<1> DEFINE E == HolderBinding(pk)
<1>0. ASSUME NEW a \in Read(pk)
      PROVE  a.kb \in {"absent", "unknown", "ok", "bad_hash", "bad_signature"}
  <2>1. pk.artifacts \in Seq(Artifacts)
    BY PacksAssumption
  <2>2. PICK i \in DOMAIN pk.artifacts : a = pk.artifacts[i]
    BY DEF Read
  <2>3. a \in Artifacts
    BY <2>1, <2>2
  <2>4. QED
    BY <2>3 DEF Artifacts
<1>1. ASSUME NEW a \in Read(pk), a.kb \in {"bad_hash", "bad_signature"}
      PROVE  \E e \in E : e.state = "contradicted"
  <2>1. HolderElement(a) \in E
    BY <1>1 DEF HolderBinding
  <2>2. HolderElement(a).state = "contradicted"
    BY <1>1 DEF HolderElement, El
  <2>3. QED
    BY <2>1, <2>2
<1>2. ASSUME NEW e \in E, e.state = "contradicted"
      PROVE  \E a \in Read(pk) : a.kb \in {"bad_hash", "bad_signature"}
  <2>1. PICK a \in Read(pk) : a.kb # "absent" /\ e = HolderElement(a)
    BY DEF HolderBinding
  <2>2. a.kb \notin {"ok", "unknown"}
    BY <1>2, <2>1 DEF HolderElement, El
  <2>3. QED
    BY <1>0, <2>1, <2>2
<1>3. QED
  BY <1>1, <1>2, SubjectContradicted

\* time_anchor: contradicted when a claimed token is not bound to the pack.
LEMMA TimeContradicted ==
  ASSUME NEW pk \in Packs, NEW pol \in Policies, NEW ans
  PROVE  Subject(TimeAnchor(pk, pol, ans)).state # "contradicted" <=>
           ~Rfc3161Fails(pk)
<1> DEFINE E == TimeAnchor(pk, pol, ans)
<1>1. ASSUME NEW i \in Claimed(pk)
      PROVE  AnchorElement(pol, Token(pk, i), ans[i]).state = "contradicted"
               <=> ~Bound(Token(pk, i))
  BY PoliciesAssumption DEF AnchorElement, El
<1>2. (\E e \in E : e.state = "contradicted") <=>
        \E i \in Claimed(pk) : ~Bound(Token(pk, i))
  BY <1>1 DEF TimeAnchor
<1>3. QED
  BY <1>2, SubjectContradicted DEF Rfc3161Fails

\* producer_signature: contradicted when an entry fails, none is there or the
\* scheme does not match; a block with neither that nor a SKIP is ok.
LEMMA ProducerContradicted ==
  ASSUME NEW b, NEW trusted, b # Absent, b.entries \in Seq(Entries)
  PROVE  /\ Subject(ProducerSignature(b, trusted)).state # "contradicted"
         /\ ~\E e \in BlockEntries(b) : Status(e) = "SKIP"
         <=> BlockOk(b)
<1> DEFINE E == ProducerSignature(b, trusted)
<1>1. ASSUME NEW e \in BlockEntries(b) PROVE Status(e) \in {"PASS", "SKIP", "FAIL"}
  BY DEF Status
<1>2. ASSUME NEW e \in BlockEntries(b)
      PROVE  ProducerElement(e, trusted).state = "contradicted" <=> Status(e) = "FAIL"
  BY DEF ProducerElement, El
<1>3. El("contradicted", "signature_invalid").state = "contradicted"
  BY DEF El
<1>4. (\E x \in E : x.state = "contradicted") <=>
        \/ \E e \in BlockEntries(b) : Status(e) = "FAIL"
        \/ b.entries = <<>>
        \/ ~SchemeOk(b)
  <2>1. CASE b.entries = <<>> \/ ~SchemeOk(b)
    BY <1>3, <2>1 DEF ProducerSignature
  <2>2. CASE ~(b.entries = <<>> \/ ~SchemeOk(b))
    <3>1. E = {ProducerElement(e, trusted) : e \in BlockEntries(b)}
      BY <2>2 DEF ProducerSignature
    <3>2. QED
      BY <3>1, <2>2, <1>2
  <2>3. QED
    BY <2>1, <2>2
<1>5. (\E e \in BlockEntries(b) : TRUE) <=> b.entries # <<>>
  <2>1. DOMAIN b.entries = 1..Len(b.entries) /\ Len(b.entries) \in Nat
    OBVIOUS
  <2>2. b.entries # <<>> <=> 1 \in DOMAIN b.entries
    BY <2>1
  <2>3. (\E i \in DOMAIN b.entries : TRUE) <=> 1 \in DOMAIN b.entries
    BY <2>1
  <2>4. QED
    BY <2>2, <2>3 DEF BlockEntries
<1>6. QED
  BY <1>1, <1>4, <1>5, SubjectContradicted DEF BlockOk

\* The two readings agree on whatever ReceiptOf derives.
LEMMA ReadingsAgree ==
  ASSUME NEW pk \in Packs, NEW pol \in Policies, NEW ans, NEW ch
  PROVE  LET r == ReceiptOf(pk, pol, ans, ch) IN
         r.valid <=>
           /\ \A s \in {"sealed_content", "holder_binding", "time_anchor",
                        "producer_signature"} :
                r.states[s].state # "contradicted"
           /\ ~r.skipped
           /\ r.unmet = {}
<1> DEFINE r  == ReceiptOf(pk, pol, ans, ch)
           st == States(pk, pol, ans, ch)
           b  == pk.producer
           skipped == b # Absent /\ \E e \in BlockEntries(b) : Status(e) = "SKIP"
<1>1. /\ r.valid = Valid(pk, pol, ans)
      /\ r.states = st
      /\ r.unmet = Unmet(pk, pol, ans, st)
      /\ r.skipped = skipped
  BY DEF ReceiptOf
<1>2. /\ st["sealed_content"] = Subject(SealedContent(pk))
      /\ st["holder_binding"] = Subject(HolderBinding(pk))
      /\ st["time_anchor"] = Subject(TimeAnchor(pk, pol, ans))
      /\ st["producer_signature"] = Subject(ProducerSignature(b, pol.trusted))
  BY DEF States
<1>3. b # Absent => b.entries \in Seq(Entries)
  BY PacksAssumption
<1>4. st["producer_signature"].state # "contradicted" /\ ~skipped
        <=> (b # Absent => BlockOk(b))
  <2>1. CASE b = Absent
    <3>1. ProducerSignature(b, pol.trusted) = {}
      BY <2>1 DEF ProducerSignature
    <3>2. QED
      BY <2>1, <3>1, <1>2, SubjectContradicted
  <2>2. CASE b # Absent
    BY <2>2, <1>2, <1>3, ProducerContradicted
  <2>3. QED
    BY <2>1, <2>2
<1>5. Unmet(pk, pol, ans, st) = {} => PolicyGaps(pk, pol, ans) = {} /\ ~Unpinned(pk, pol)
  BY DEF Unmet
<1>6. ASSUME PolicyGaps(pk, pol, ans) = {}, ~Unpinned(pk, pol), b # Absent => BlockOk(b)
      PROVE  Unmet(pk, pol, ans, st) = {}
  <2>1. "key_unresolved" \notin st.producer_signature.reasons
    <3>1. CASE b = Absent
      <4>1. ProducerSignature(b, pol.trusted) = {}
        BY <3>1 DEF ProducerSignature
      <4>2. QED
        BY <4>1, <1>2, SubjectReasons
    <3>2. CASE b # Absent
      <4> DEFINE E == ProducerSignature(b, pol.trusted)
      <4>1. BlockOk(b) /\ SchemeOk(b) /\ b.entries # <<>>
        BY <1>6, <3>2 DEF BlockOk, BlockEntries
      <4>2. E = {ProducerElement(e, pol.trusted) : e \in BlockEntries(b)}
        BY <3>2, <4>1 DEF ProducerSignature
      <4>3. ASSUME NEW e \in BlockEntries(b)
            PROVE  ProducerElement(e, pol.trusted).reason # "key_unresolved"
        <5>1. Status(e) = "PASS"
          BY <4>1 DEF BlockOk
        <5>2. pol.trusted # Absent => KeyTrusted(e, pol.trusted)
          BY <1>6, <3>2, <4>1 DEF Unpinned, Trusted
        <5>3. QED
          BY <5>1, <5>2 DEF ProducerElement, El
      <4>4. \A x \in E : x.reason # "key_unresolved"
        BY <4>2, <4>3
      <4>5. QED
        BY <4>4, SubjectReasons, <1>2
    <3>3. QED
      BY <3>1, <3>2
  <2>2. QED
    BY <1>6, <2>1 DEF Unmet
<1>7. Valid(pk, pol, ans) <=>
        /\ pk.digest /\ pk.artifacts # <<>> /\ Intact(pk) /\ pk.bindings
        /\ \A a \in Read(pk) : a.kb \notin {"bad_hash", "bad_signature"}
        /\ ~Rfc3161Fails(pk)
        /\ b # Absent => BlockOk(b)
        /\ ~Unpinned(pk, pol) /\ PolicyGaps(pk, pol, ans) = {}
  BY DEF Valid, AllOk
<1>8. QED
  BY <1>1, <1>2, <1>4, <1>5, <1>6, <1>7,
     SealedContradicted, HolderContradicted, TimeContradicted, ZenonT(40)

-----------------------------------------------------------------------------
(* Instruments.                                                            *)

\* What is known of openssl's answers: none but a working machine's, all of
\* them while nothing failed, and an exit code only over such answers.
Answered ==
  /\ \A i \in Claimed(pack) :
       /\ tsa[i] \in {"unasked", "none", IdealTsa(pack, policy)[i]}
       /\ ~notrun /\ tsa[i] # "unasked" => tsa[i] = IdealTsa(pack, policy)[i]
  /\ \A i \in DOMAIN pack.artifacts :
       /\ chain[i] \in {"yes", "no"} =>
            AsksChain(policy, pack.artifacts[i]) /\ ~pack.artifacts[i].error
       /\ ~notrun /\ chain[i] # "unasked" => chain[i] = IdealChain(pack, policy)[i]
  /\ phase = "artifacts" \/ Derived => \A i \in Claimed(pack) : tsa[i] # "unasked"
  /\ Derived => \A i \in DOMAIN pack.artifacts : chain[i] # "unasked"
  /\ exit \in {0, 1} =>
       phase = "done" /\ written /\ ~notrun /\ (exit = 0 <=> receipt.valid)

\* With every token asked and nothing failed, the answers are the ideal ones.
LEMMA IdealTokens ==
  ASSUME TypeOK, Answered, ~notrun, \A i \in Claimed(pack) : tsa[i] # "unasked"
  PROVE  tsa = IdealTsa(pack, policy)
<1>1. \A i \in Claimed(pack) : tsa[i] = IdealTsa(pack, policy)[i]
  BY DEF Answered
<1>2. tsa \in [Claimed(pack) -> {"unasked", "yes", "no", "none"}]
  BY DEF TypeOK
<1>3. IdealTsa(pack, policy) \in [Claimed(pack) -> {"yes", "no", "none"}]
  BY DEF IdealTsa
<1>4. QED
  BY <1>1, <1>2, <1>3

\* openssl's answers are those of a working machine, or missing.
THEOREM AnswersAreTrue == Spec => []Answered
<1>1. Init => Answered
  BY DEF Init, Answered, Derived
<1>2. TypeOK /\ Answered /\ [Next]_vars => Answered'
  <2> SUFFICES ASSUME TypeOK, Answered, [Next]_vars PROVE Answered'
    OBVIOUS
  <2>1. CASE Admit
    BY <2>1 DEF Admit, Answered, TypeOK, Derived, Refusal
  <2>2. ASSUME NEW i \in Claimed(pack), CheckToken(i) PROVE Answered'
    <3>1. /\ UNCHANGED <<pack, policy, phase, chain, receipt, written, exit>>
          /\ phase = "tokens" /\ tsa[i] = "unasked"
      BY <2>2 DEF CheckToken
    <3>2. tsa \in [Claimed(pack) -> {"unasked", "yes", "no", "none"}]
      BY DEF TypeOK
    <3>3. IdealTsa(pack, policy)[i] =
            IF ~AsksTsa(policy, Token(pack, i)) THEN "none"
            ELSE IF Token(pack, i).tsa THEN "yes" ELSE "no"
      BY DEF IdealTsa
    <3>4. \/ tsa' = [tsa EXCEPT ![i] = IdealTsa(pack, policy)[i]] /\ notrun' = notrun
          \/ tsa' = [tsa EXCEPT ![i] = "none"] /\ notrun'
      BY <2>2, <3>3 DEF CheckToken
    <3>5. \A j \in Claimed(pack) :
            /\ tsa'[j] \in {"unasked", "none", IdealTsa(pack, policy)[j]}
            /\ ~notrun' /\ tsa'[j] # "unasked" => tsa'[j] = IdealTsa(pack, policy)[j]
      BY <3>2, <3>4 DEF Answered
    <3>6. \A j \in DOMAIN pack.artifacts :
            /\ chain[j] \in {"yes", "no"} =>
                 AsksChain(policy, pack.artifacts[j]) /\ ~pack.artifacts[j].error
            /\ ~notrun' /\ chain[j] # "unasked" => chain[j] = IdealChain(pack, policy)[j]
      BY <3>4 DEF Answered
    <3>7. exit \notin {0, 1} /\ ~Derived /\ ~Derived'
      BY <3>1 DEF Answered, TypeOK, Derived
    <3>8. /\ Claimed(pack)' = Claimed(pack)
          /\ IdealTsa(pack, policy)' = IdealTsa(pack, policy)
          /\ IdealChain(pack, policy)' = IdealChain(pack, policy)
      BY <3>1
    <3>9. QED
      BY <3>1, <3>5, <3>6, <3>7, <3>8 DEF Answered
  <2>3. CASE TokensChecked
    BY <2>3 DEF TokensChecked, Answered, Derived, TypeOK
  <2>4. ASSUME NEW i \in DOMAIN pack.artifacts, CheckArtifact(i) PROVE Answered'
    <3>1. /\ UNCHANGED <<pack, policy, phase, tsa, receipt, written, exit>>
          /\ phase = "artifacts" /\ chain[i] = "unasked"
      BY <2>4 DEF CheckArtifact
    <3>2. chain \in [DOMAIN pack.artifacts -> {"unasked", "yes", "no", "none"}]
      BY DEF TypeOK
    <3>3. ~notrun => tsa = IdealTsa(pack, policy)
      BY <3>1, IdealTokens DEF Answered
    <3> DEFINE a    == pack.artifacts[i]
               asks == AsksChain(policy, a) /\ ~a.error
    <3>4. IdealChain(pack, policy)[i] =
            IF asks THEN ChainAnswer(a, ChainTime(pack, policy, IdealTsa(pack, policy)))
            ELSE "none"
      BY DEF IdealChain
    <3>5. \/ asks /\ notrun' = notrun
             /\ chain' = [chain EXCEPT ![i] = ChainAnswer(a, ChainTime(pack, policy, tsa))]
          \/ chain' = [chain EXCEPT ![i] = "none"] /\ notrun'
          \/ ~asks /\ chain' = [chain EXCEPT ![i] = "none"] /\ notrun' = notrun
      BY <2>4 DEF CheckArtifact
    <3>6. \A j \in DOMAIN pack.artifacts :
            /\ chain'[j] \in {"yes", "no"} =>
                 AsksChain(policy, pack.artifacts[j]) /\ ~pack.artifacts[j].error
            /\ ~notrun' /\ chain'[j] # "unasked" =>
                 chain'[j] = IdealChain(pack, policy)[j]
      <4> SUFFICES ASSUME NEW j \in DOMAIN pack.artifacts
          PROVE  /\ chain'[j] \in {"yes", "no"} =>
                      AsksChain(policy, pack.artifacts[j]) /\ ~pack.artifacts[j].error
                 /\ ~notrun' /\ chain'[j] # "unasked" =>
                      chain'[j] = IdealChain(pack, policy)[j]
        OBVIOUS
      <4>1. CASE j = i
        BY <4>1, <3>2, <3>3, <3>4, <3>5
      <4>2. CASE j # i
        <5>1. chain'[j] = chain[j] /\ (~notrun' => ~notrun)
          BY <4>2, <3>2, <3>5
        <5>2. QED
          BY <5>1 DEF Answered
      <4>3. QED
        BY <4>1, <4>2
    <3>7. \A j \in Claimed(pack) :
            /\ tsa[j] \in {"unasked", "none", IdealTsa(pack, policy)[j]}
            /\ ~notrun' /\ tsa[j] # "unasked" => tsa[j] = IdealTsa(pack, policy)[j]
      BY <3>5 DEF Answered
    <3>8. /\ exit \notin {0, 1} /\ ~Derived /\ ~Derived'
          /\ \A j \in Claimed(pack) : tsa[j] # "unasked"
      BY <3>1 DEF Answered, TypeOK, Derived
    <3>9. /\ Claimed(pack)' = Claimed(pack)
          /\ IdealTsa(pack, policy)' = IdealTsa(pack, policy)
          /\ IdealChain(pack, policy)' = IdealChain(pack, policy)
      BY <3>1
    <3>10. QED
      BY <3>1, <3>6, <3>7, <3>8, <3>9 DEF Answered
  <2>5. CASE Derive
    BY <2>5 DEF Derive, Answered
  <2>6. CASE Emit
    BY <2>6 DEF Emit, Answered, Derived
  <2>7. CASE UNCHANGED vars
    BY <2>7 DEF vars, Answered, Derived
  <2>8. QED
    BY <2>1, <2>2, <2>3, <2>4, <2>5, <2>6, <2>7 DEF Next
<1>3. QED
  BY <1>1, <1>2, TypeCorrect, PTL DEF Spec

\* The tokens of a pack are finitely many, and so are its anchors.
LEMMA FiniteAnchors ==
  ASSUME NEW pk \in Packs, NEW pol, NEW ans
  PROVE  IsFiniteSet(Claimed(pk)) /\ IsFiniteSet(Identities(pk, pol, ans))
<1>1. IsFiniteSet(Claimed(pk))
  <2>1. pk.anchors \in Seq({t \in Tokens : t.token # "missing"})
    BY PacksAssumption
  <2>2. DOMAIN pk.anchors = 1..Len(pk.anchors) /\ Len(pk.anchors) \in Nat
    BY <2>1
  <2>3. IsFiniteSet(DOMAIN pk.anchors)
    BY <2>2, FS_Interval
  <2>4. IsFiniteSet({0}) /\ IsFiniteSet({})
    BY FS_Singleton, FS_EmptySet
  <2>5. CASE pk.block = Absent
    BY <2>3, <2>5 DEF Claimed
  <2>6. CASE pk.block # Absent
    <3>1. IsFiniteSet({0} \union DOMAIN pk.anchors)
      BY <2>3, <2>4, FS_Union
    <3>2. QED
      BY <3>1, <2>6 DEF Claimed
  <2>7. QED
    BY <2>5, <2>6
<1>2. IsFiniteSet(Counted(pk, pol, ans))
  BY <1>1, FS_Subset DEF Counted
<1> DEFINE C == Counted(pk, pol, ans)
           I == Identities(pk, pol, ans)
           f == [i \in C |-> Token(pk, i).tst]
<1>3. f \in Surjection(C, I)
  BY DEF Surjection, Identities
<1>4. QED
  BY <1>1, <1>2, <1>3, FS_Surjection

\* More answers never count fewer anchors.
LEMMA MoreAnswersMoreAnchors ==
  ASSUME NEW pk \in Packs, NEW pol, NEW ans, NEW more,
         \A i \in Claimed(pk) : ans[i] = "yes" => more[i] = "yes"
  PROVE  Cardinality(Identities(pk, pol, ans)) <= Cardinality(Identities(pk, pol, more))
<1>1. Identities(pk, pol, ans) \subseteq Identities(pk, pol, more)
  BY DEF Identities, Counted
<1>2. QED
  BY <1>1, FiniteAnchors, FS_Subset

\* The issuer's two readings agree, of answers that were asked for.
LEMMA IssuerAgrees ==
  ASSUME NEW pk \in Packs, NEW pol \in Policies, NEW ans, NEW ch,
         \A i \in DOMAIN pk.artifacts :
           ch[i] = "yes" => AsksChain(pol, pk.artifacts[i]) /\ ~pk.artifacts[i].error
  PROVE  LET r == ReceiptOf(pk, pol, ans, ch) IN
         /\ ~r.self_asserted_only =>
              r.states.issuer_identity.state = "verified" /\ r.chain_verified = "true"
         /\ r.valid /\ r.states.issuer_identity.state = "verified" => ~r.self_asserted_only
<1> DEFINE r == ReceiptOf(pk, pol, ans, ch)
           E == IssuerIdentity(pk, pol, ch)
           D == DOMAIN pk.artifacts
<1>1. /\ r.states.issuer_identity = Subject(E)
      /\ r.self_asserted_only = SelfAssertedOnly(pk, ch)
      /\ r.chain_verified = ChainVerified(pk, pol, ch)
      /\ r.valid = Valid(pk, pol, ans)
  BY DEF ReceiptOf, States
<1>2. D = {} <=> pk.artifacts = <<>>
  <2>1. pk.artifacts \in Seq(Artifacts)
    BY PacksAssumption
  <2>2. D = 1..Len(pk.artifacts) /\ Len(pk.artifacts) \in Nat
    BY <2>1
  <2>3. QED
    BY <2>1, <2>2
<1>3. ASSUME ~SelfAssertedOnly(pk, ch)
      PROVE  Subject(E).state = "verified" /\ ChainVerified(pk, pol, ch) = "true"
  <2>1. D # {} /\ \A i \in D : ch[i] = "yes"
    BY <1>2, <1>3 DEF SelfAssertedOnly
  <2>2. \A i \in D : /\ pk.artifacts[i].x5c /\ pol.trust_anchor
                     /\ ~pk.artifacts[i].error
    BY <2>1 DEF AsksChain
  <2>3. \A i \in D : IssuerElement(pol, pk.artifacts[i], ch[i]) = El("verified", "ca_certified")
    BY <2>1, <2>2 DEF IssuerElement
  <2>4. E = {IssuerElement(pol, pk.artifacts[i], ch[i]) : i \in D}
    BY <2>2 DEF IssuerIdentity
  <2>5. E # {} /\ \A e \in E : e.state = "verified"
    BY <2>1, <2>3, <2>4 DEF El
  <2>6. ChainVerified(pk, pol, ch) = "true"
    BY <2>1, <2>2 DEF ChainVerified
  <2>7. QED
    BY <2>5, <2>6, SubjectVerified
<1>4. ASSUME Valid(pk, pol, ans), Subject(E).state = "verified"
      PROVE  ~SelfAssertedOnly(pk, ch)
  <2>1. pk.artifacts # <<>> /\ \A i \in D : ~pk.artifacts[i].error
    BY <1>4 DEF Valid, AllOk, Intact
  <2>2. \A e \in E : e.state = "verified"
    BY <1>4, SubjectVerified
  <2>3. ASSUME NEW i \in D PROVE ch[i] = "yes"
    <3>1. IssuerElement(pol, pk.artifacts[i], ch[i]) \in E
      BY <2>1 DEF IssuerIdentity
    <3>2. IssuerElement(pol, pk.artifacts[i], ch[i]).state = "verified"
      BY <2>2, <3>1
    <3>3. CASE ~pk.artifacts[i].x5c
      BY <3>2, <3>3 DEF IssuerElement, El
    <3>4. CASE pk.artifacts[i].x5c /\ ~pol.trust_anchor
      BY <3>2, <3>4 DEF IssuerElement, El
    <3>5. CASE pk.artifacts[i].x5c /\ pol.trust_anchor
      BY <3>2, <3>5 DEF IssuerElement, El
    <3>6. QED
      BY <3>3, <3>4, <3>5
  <2>4. QED
    BY <2>1, <2>3 DEF SelfAssertedOnly
<1>5. QED
  BY <1>1, <1>3, <1>4

\* The fields and the states of every admitted receipt say the same.
THEOREM OneReading == Spec => []FieldsAndStatesAgree
<1>1. ASSUME FromInputs, Derivation, Answered, Derived PROVE FieldsAndStatesAgree
  <2>1. receipt = ReceiptOf(pack, policy, tsa, chain)
    BY <1>1, DerivedIs
  <2>2. \A i \in DOMAIN pack.artifacts :
          chain[i] = "yes" => AsksChain(policy, pack.artifacts[i]) /\ ~pack.artifacts[i].error
    BY <1>1 DEF Answered
  <2>3. receipt.valid <=>
          /\ \A s \in {"sealed_content", "holder_binding", "time_anchor",
                       "producer_signature"} :
               receipt.states[s].state # "contradicted"
          /\ ~receipt.skipped
          /\ receipt.unmet = {}
    BY <1>1, <2>1, ReadingsAgree DEF FromInputs
  <2>4. /\ ~receipt.self_asserted_only =>
             /\ receipt.states.issuer_identity.state = "verified"
             /\ receipt.chain_verified = "true"
        /\ receipt.valid /\ receipt.states.issuer_identity.state = "verified" =>
             ~receipt.self_asserted_only
    BY <1>1, <2>1, <2>2, IssuerAgrees DEF FromInputs
  <2>5. QED
    BY <2>3, <2>4 DEF FieldsAndStatesAgree
<1>2. FromInputs /\ Derivation /\ Answered => FieldsAndStatesAgree
  BY <1>1 DEF FieldsAndStatesAgree
<1>3. QED
  BY <1>2, InputsStay, ReceiptsAreDerived, AnswersAreTrue, PTL

\* What could not be run neither accuses a pack nor makes one valid.
THEOREM InstrumentsDecideNothing == Spec => []InstrumentsNeverDecide
<1>1. ASSUME FromInputs, Derivation, Answered, Derived PROVE InstrumentsNeverDecide
  <2> DEFINE ideal == IdealTsa(pack, policy)
             ich   == IdealChain(pack, policy)
  <2>1. receipt = ReceiptOf(pack, policy, tsa, chain)
    BY <1>1, DerivedIs
  <2>2. /\ receipt.states = States(pack, policy, tsa, chain)
        /\ Ideal(pack, policy).states = States(pack, policy, ideal, ich)
        /\ receipt.valid = Valid(pack, policy, tsa)
        /\ Ideal(pack, policy).valid = Valid(pack, policy, ideal)
    BY <2>1 DEF ReceiptOf, Ideal
  <2>3. \A i \in Claimed(pack) : tsa[i] = "yes" => ideal[i] = "yes"
    BY <1>1 DEF Answered
  <2>4. Valid(pack, policy, tsa) => Valid(pack, policy, ideal)
    <3> DEFINE n == Cardinality(Identities(pack, policy, tsa))
               m == Cardinality(Identities(pack, policy, ideal))
    <3>1. n <= m /\ n \in Nat /\ m \in Nat /\ policy.min_anchors \in Nat
      BY <1>1, <2>3, MoreAnswersMoreAnchors, FiniteAnchors, FS_CardinalityType,
         PoliciesAssumption DEF FromInputs
    <3>2. (n < 1 => ~policy.require_anchor) => (m < 1 => ~policy.require_anchor)
      BY <3>1
    <3>3. (policy.min_anchors # 0 => ~(n < policy.min_anchors)) =>
            (policy.min_anchors # 0 => ~(m < policy.min_anchors))
      BY <3>1
    <3>4. PolicyGaps(pack, policy, tsa) = {} => PolicyGaps(pack, policy, ideal) = {}
      BY <3>2, <3>3 DEF PolicyGaps
    <3>5. QED
      BY <3>4 DEF Valid
  <2>5. Subject(IssuerIdentity(pack, policy, chain)).state = "contradicted" =>
          Subject(IssuerIdentity(pack, policy, ich)).state = "contradicted"
    <3> SUFFICES ASSUME Subject(IssuerIdentity(pack, policy, chain)).state = "contradicted"
        PROVE  Subject(IssuerIdentity(pack, policy, ich)).state = "contradicted"
      OBVIOUS
    <3>1. PICK i \in DOMAIN pack.artifacts :
            /\ ~pack.artifacts[i].error
            /\ IssuerElement(policy, pack.artifacts[i], chain[i]).state = "contradicted"
      BY SubjectContradicted DEF IssuerIdentity
    <3> DEFINE a == pack.artifacts[i]
    <3>2. a.x5c /\ policy.trust_anchor /\ chain[i] = "no" /\ a.broken
      BY <3>1 DEF IssuerElement, El
    <3>3. AsksChain(policy, a) /\ ~a.error
      BY <1>1, <3>2 DEF Answered
    <3>4. ich[i] = "no"
      BY <3>2, <3>3 DEF IdealChain, ChainAnswer
    <3>5. IssuerElement(policy, a, ich[i]).state = "contradicted"
      BY <3>2, <3>4 DEF IssuerElement, El
    <3>6. QED
      BY <3>1, <3>5, SubjectContradicted DEF IssuerIdentity
  <2>6. Subject(TimeAnchor(pack, policy, tsa)).state = "contradicted" =>
          Subject(TimeAnchor(pack, policy, ideal)).state = "contradicted"
    BY <1>1, TimeContradicted DEF FromInputs
  <2>7. ASSUME NEW s \in DOMAIN receipt.states, receipt.states[s].state = "contradicted"
        PROVE  Ideal(pack, policy).states[s].state = "contradicted"
    BY <2>2, <2>5, <2>6, <2>7 DEF States
  <2>8. QED
    BY <2>2, <2>4, <2>7 DEF InstrumentsNeverDecide
<1>2. FromInputs /\ Derivation /\ Answered => InstrumentsNeverDecide
  BY <1>1 DEF InstrumentsNeverDecide
<1>3. QED
  BY <1>2, InputsStay, ReceiptsAreDerived, AnswersAreTrue, PTL

\* An exit code of 0 or 1 is the verdict of a machine where every check runs.
THEOREM ExitIsVerdict == Spec => []ExitIsTheVerdict
<1>1. ASSUME TypeOK, Derivation, Answered, Derived, exit \in {0, 1}
      PROVE  written /\ receipt = Ideal(pack, policy) /\ (exit = 0 <=> receipt.valid)
  <2>1. receipt = ReceiptOf(pack, policy, tsa, chain)
    BY <1>1, DerivedIs
  <2>2. ~notrun
    BY <1>1 DEF Answered
  <2>3. tsa = IdealTsa(pack, policy)
    BY <1>1, <2>2, IdealTokens DEF Answered
  <2>4. \A i \in DOMAIN pack.artifacts : chain[i] = IdealChain(pack, policy)[i]
    BY <1>1, <2>2 DEF Answered
  <2>5. chain \in [DOMAIN pack.artifacts -> {"unasked", "yes", "no", "none"}]
    BY <1>1 DEF TypeOK
  <2>6. IdealChain(pack, policy) \in
          [DOMAIN pack.artifacts -> {"unasked", "yes", "no", "none"}]
    BY DEF IdealChain, ChainAnswer
  <2>7. chain = IdealChain(pack, policy)
    BY <2>4, <2>5, <2>6
  <2>8. QED
    BY <1>1, <2>1, <2>3, <2>7 DEF Answered, Ideal
<1>2. TypeOK /\ Derivation /\ Answered => ExitIsTheVerdict
  BY <1>1 DEF ExitIsTheVerdict
<1>3. QED
  BY <1>2, TypeCorrect, ReceiptsAreDerived, AnswersAreTrue, PTL

-----------------------------------------------------------------------------
(* Policies.                                                               *)

\* n anchors are n bound tokens that carry n different TSTInfos.
LEMMA DistinctTokens ==
  ASSUME NEW pk \in Packs, NEW pol, NEW ans, NEW n \in Nat,
         n <= Cardinality(Identities(pk, pol, ans))
  PROVE  \E S \in SUBSET Counted(pk, pol, ans) :
           /\ Cardinality(S) = n
           /\ \A i, j \in S : Token(pk, i).tst = Token(pk, j).tst => i = j
<1> DEFINE C == Counted(pk, pol, ans)
           I == Identities(pk, pol, ans)
           m == Cardinality(I)
<1>1. IsFiniteSet(I) /\ m \in Nat
  BY FiniteAnchors, FS_CardinalityType
<1>2. PICK f : f \in Bijection(1..m, I)
  BY <1>1, FS_CardinalityType DEF ExistsBijection
<1>3. \A k \in 1..n : f[k] \in I
  BY <1>1, <1>2 DEF Bijection, Injection
<1>4. \A k \in 1..n : \E i \in C : Token(pk, i).tst = f[k]
  BY <1>3 DEF Identities
<1> DEFINE g == [k \in 1..n |-> CHOOSE i \in C : Token(pk, i).tst = f[k]]
           S == {g[k] : k \in 1..n}
<1>5. \A k \in 1..n : g[k] \in C /\ Token(pk, g[k]).tst = f[k]
  BY <1>4
<1>6. \A k, l \in 1..n : f[k] = f[l] => k = l
  <2>1. f \in [1..m -> I] /\ \A k, l \in 1..m : f[k] = f[l] => k = l
    BY <1>2 DEF Bijection, Injection, IsInjective
  <2>2. \A k \in 1..n : k \in 1..m
    BY <1>1
  <2>3. QED
    BY <2>1, <2>2
<1>7. g \in Bijection(1..n, S)
  <2>1. g \in [1..n -> S]
    OBVIOUS
  <2>2. \A k, l \in 1..n : g[k] = g[l] => k = l
    BY <1>5, <1>6
  <2>3. \A s \in S : \E k \in 1..n : g[k] = s
    OBVIOUS
  <2>4. QED
    BY <2>1, <2>2, <2>3 DEF Bijection, Injection, Surjection, IsInjective
<1>8. Cardinality(S) = n
  BY <1>7, FS_CountingElements DEF ExistsBijection
<1>9. S \in SUBSET C
  BY <1>5
<1>10. \A i, j \in S : Token(pk, i).tst = Token(pk, j).tst => i = j
  <2>1. ASSUME NEW i \in S, NEW j \in S, Token(pk, i).tst = Token(pk, j).tst
        PROVE  i = j
    <3>1. PICK k \in 1..n : i = g[k]
      OBVIOUS
    <3>2. PICK l \in 1..n : j = g[l]
      OBVIOUS
    <3>3. f[k] = f[l]
      BY <2>1, <3>1, <3>2, <1>5
    <3>4. QED
      BY <3>1, <3>2, <3>3, <1>6
  <2>2. QED
    BY <2>1
<1>11. QED
  BY <1>8, <1>9, <1>10

\* A policy asking for n anchors is met by n distinct ones only.
THEOREM AnchorsDistinct == Spec => []AnchorsAreDistinct
<1>1. ASSUME FromInputs, Derivation, Answered, Derived, receipt.unmet = {},
             policy.min_anchors # 0
      PROVE  \E S \in SUBSET Claimed(pack) :
               /\ Cardinality(S) = policy.min_anchors
               /\ \A i \in S : /\ Bound(Token(pack, i))
                               /\ policy.tsa_cert => Token(pack, i).tsa
               /\ \A i, j \in S : Token(pack, i).tst = Token(pack, j).tst => i = j
  <2> DEFINE n == Cardinality(Identities(pack, policy, tsa))
  <2>1. receipt = ReceiptOf(pack, policy, tsa, chain)
    BY <1>1, DerivedIs
  <2>2. "min_anchors" \notin PolicyGaps(pack, policy, tsa)
    BY <1>1, <2>1 DEF ReceiptOf, Unmet
  <2>3. ~(n < policy.min_anchors)
    BY <1>1, <2>2 DEF PolicyGaps
  <2>4. n \in Nat /\ policy.min_anchors \in Nat
    BY <1>1, FiniteAnchors, FS_CardinalityType, PoliciesAssumption DEF FromInputs
  <2>5. PICK S \in SUBSET Counted(pack, policy, tsa) :
          /\ Cardinality(S) = policy.min_anchors
          /\ \A i, j \in S : Token(pack, i).tst = Token(pack, j).tst => i = j
    BY <1>1, <2>3, <2>4, DistinctTokens DEF FromInputs
  <2>6. ASSUME NEW i \in S
        PROVE  /\ i \in Claimed(pack) /\ Bound(Token(pack, i))
               /\ policy.tsa_cert => Token(pack, i).tsa
    <3>1. /\ i \in Claimed(pack) /\ Bound(Token(pack, i))
          /\ policy.tsa_cert => tsa[i] = "yes"
      BY <2>5 DEF Counted
    <3>2. tsa[i] = "yes" => IdealTsa(pack, policy)[i] = "yes"
      BY <1>1, <3>1 DEF Answered
    <3>3. QED
      BY <3>1, <3>2 DEF IdealTsa
  <2>7. QED
    BY <2>5, <2>6
<1>2. FromInputs /\ Derivation /\ Answered => AnchorsAreDistinct
  BY <1>1 DEF AnchorsAreDistinct
<1>3. QED
  BY <1>2, InputsStay, ReceiptsAreDerived, AnswersAreTrue, PTL

\* Post-quantum protection is only stated of a block that passed in full.
THEOREM PqPinnedAndPassed == Spec => []PqIsPinnedAndPassed
<1>1. ASSUME Derivation, Derived
      PROVE  PqIsPinnedAndPassed
  <2> DEFINE b == pack.producer
  <2>1. receipt = ReceiptOf(pack, policy, tsa, chain)
    BY <1>1, DerivedIs
  <2>2. receipt.pq_protected => b # Absent /\ PqProtected(b, policy.trusted)
    BY <2>1 DEF ReceiptOf
  <2>3. policy.require_pq /\ receipt.unmet = {} =>
          PqProtected(b, policy.trusted) /\ Trusted(b, policy.trusted) = "true"
    BY <2>1 DEF ReceiptOf, Unmet, PolicyGaps
  <2>4. PqProtected(b, policy.trusted) =>
          /\ \A e \in BlockEntries(b) : Status(e) = "PASS"
          /\ \E e \in BlockEntries(b) : e.alg = "ml-dsa-65"
    BY DEF PqProtected, BlockOk, POST_QUANTUM
  <2>5. Trusted(b, policy.trusted) = "true" =>
          \A e \in BlockEntries(b) : e.key \in policy.trusted
    BY DEF Trusted, KeyTrusted
  <2>6. QED
    BY <2>2, <2>3, <2>4, <2>5 DEF PqIsPinnedAndPassed
<1>2. Derivation => PqIsPinnedAndPassed
  BY <1>1 DEF PqIsPinnedAndPassed
<1>3. QED
  BY <1>2, ReceiptsAreDerived, PTL

\* Asking for less, or pinning more keys, never costs a pack its verdict.
THEOREM PoliciesOnlyRefuse == Spec => []PolicyOnlyRefuses
<1>1. ASSUME FromInputs, Derivation, Derived PROVE PolicyOnlyRefuses
  <2> DEFINE b == pack.producer
             none == [policy EXCEPT !.require_producer = FALSE, !.require_pq = FALSE,
                        !.require_anchor = FALSE, !.min_anchors = 0, !.trusted = Absent]
  <2>1. receipt = ReceiptOf(pack, policy, tsa, chain)
    BY <1>1, DerivedIs
  <2>2. receipt.valid = Valid(pack, policy, tsa)
    BY <2>1 DEF ReceiptOf
  <2>3. ASSUME Valid(pack, policy, tsa) PROVE Valid(pack, none, tsa)
    <3>1. /\ ~none.require_producer /\ ~none.require_pq /\ ~none.require_anchor
          /\ none.min_anchors = 0 /\ none.trusted = Absent
      BY <1>1, PoliciesAssumption DEF FromInputs
    <3> HIDE DEF none
    <3>2. PolicyGaps(pack, none, tsa) = {} /\ ~Unpinned(pack, none)
      BY <3>1 DEF PolicyGaps, Unpinned
    <3>3. QED
      BY <2>3, <3>2 DEF Valid, AllOk
  <2>4. ASSUME policy.trusted # Absent, NEW fewer \in SUBSET policy.trusted,
               Valid(pack, [policy EXCEPT !.trusted = fewer], tsa)
        PROVE  Valid(pack, policy, tsa)
    <3> DEFINE less == [policy EXCEPT !.trusted = fewer]
    <3>1. /\ less.trusted = fewer /\ fewer # Absent /\ fewer \subseteq policy.trusted
          /\ less.require_producer = policy.require_producer
          /\ less.require_pq = policy.require_pq
          /\ less.require_anchor = policy.require_anchor
          /\ less.min_anchors = policy.min_anchors /\ less.tsa_cert = policy.tsa_cert
      BY <1>1, <2>4, PoliciesAssumption, AbsentAssumption DEF FromInputs
    <3> HIDE DEF less
    <3>2. Trusted(b, fewer) = "true" => Trusted(b, policy.trusted) = "true"
      BY <2>4, <3>1 DEF Trusted, KeyTrusted
    <3>3. PqProtected(b, fewer) => PqProtected(b, policy.trusted)
      BY <2>4, <3>1 DEF PqProtected
    <3>4. Unpinned(pack, policy) => Unpinned(pack, less)
      BY <2>4, <3>1, <3>2 DEF Unpinned
    <3>5. Identities(pack, less, tsa) = Identities(pack, policy, tsa)
      BY <3>1 DEF Identities, Counted
    <3>6. PolicyGaps(pack, less, tsa) = {} => PolicyGaps(pack, policy, tsa) = {}
      BY <3>1, <3>2, <3>3, <3>5 DEF PolicyGaps
    <3>7. Valid(pack, less, tsa)
      BY <2>4 DEF less
    <3>8. QED
      BY <3>4, <3>6, <3>7 DEF Valid, AllOk
  <2>5. "trust_set_complete" \in receipt.unmet => ~receipt.valid
    BY <1>1, <2>1, ReadingsAgree DEF FromInputs
  <2>6. QED
    BY <2>2, <2>3, <2>4, <2>5 DEF PolicyOnlyRefuses
<1>2. FromInputs /\ Derivation => PolicyOnlyRefuses
  BY <1>1 DEF PolicyOnlyRefuses
<1>3. QED
  BY <1>2, InputsStay, ReceiptsAreDerived, PTL

-----------------------------------------------------------------------------
(* The JavaScript verifier agrees, whatever the pack and the policy, part    *)
(* by part of the receipt: the producer block, the elements of each subject, *)
(* the subject they make, the anchors, the policy.                          *)

\* What PoliciesAssumption says of each policy.
IsPolicy(pol) ==
  pol \in [require_producer : BOOLEAN, require_pq : BOOLEAN, require_anchor : BOOLEAN,
           min_anchors : Nat, tsa_cert : BOOLEAN, trust_anchor : BOOLEAN,
           trusted : (SUBSET Nat) \union {Absent}, trust_set_complete : BOOLEAN]

-----------------------------------------------------------------------------
(* The producer block.                                                     *)

\* A weaker backend passes, fails and skips no entry the other would not pass
\* or could not check.
LEMMA StatusAgrees ==
  ASSUME NEW e \in Entries, NEW have \in BOOLEAN, have => MLDSA_AVAILABLE
  PROVE  /\ JsStatus(e, have) \in {"PASS", "SKIP", "FAIL"}
         /\ JsStatus(e, have) = "PASS" => Status(e) = "PASS" /\ JsShaped(e)
         /\ have = MLDSA_AVAILABLE => JsStatus(e, have) = Status(e)
BY MachineAssumption DEF Entries, JsStatus, JsShaped, Status, POST_QUANTUM

LEMMA SchemeAgrees ==
  ASSUME NEW b, NEW trusted, NEW have
  PROVE  JsBlock(b, trusted, have).scheme_ok <=> SchemeOk(b)
<1> DEFINE es == BlockEntries(b)
           algs == {e.alg : e \in es}
<1>1. algs \intersect POST_QUANTUM # {} <=> \E e \in es : e.alg = "ml-dsa-65"
  BY DEF POST_QUANTUM
<1>2. algs \intersect CLASSICAL # {} <=> \E e \in es : e.alg = "ed25519"
  BY DEF CLASSICAL
<1> HIDE DEF es
<1>3. QED
  BY <1>1, <1>2 DEF JsBlock, SchemeOk, es

\* A block this verifier passes is one the other passes, and protected and
\* pinned there as here.
LEMMA BlockAgrees ==
  ASSUME NEW b, b.entries \in Seq(Entries), NEW trusted \in (SUBSET Nat) \union {Absent},
         NEW have \in BOOLEAN, have => MLDSA_AVAILABLE
  PROVE  LET j == JsBlock(b, trusted, have) IN
         /\ j.ok => BlockOk(b)
         /\ j.pq_protected => PqProtected(b, trusted)
         /\ j.trusted = "true" => Trusted(b, trusted) = "true"
         /\ have = MLDSA_AVAILABLE =>
              /\ j.ok <=> BlockOk(b)
              /\ j.pq_protected <=> PqProtected(b, trusted)
              /\ j.trusted = Trusted(b, trusted)
<1> DEFINE es == BlockEntries(b)
           j == JsBlock(b, trusted, have)
<1>1. \A e \in es : e \in Entries
  BY DEF BlockEntries
<1>2. \A e \in es : /\ JsStatus(e, have) \in {"PASS", "SKIP", "FAIL"}
                    /\ JsStatus(e, have) = "PASS" => Status(e) = "PASS" /\ JsShaped(e)
                    /\ have = MLDSA_AVAILABLE => JsStatus(e, have) = Status(e)
  BY <1>1, StatusAgrees
<1>3. j.ok <=> /\ \E e \in es : JsStatus(e, have) = "PASS"
               /\ \A e \in es : JsStatus(e, have) = "PASS"
               /\ SchemeOk(b)
  <2>1. j.ok <=> /\ \E e \in es : JsStatus(e, have) = "PASS"
                 /\ ~\E e \in es : JsStatus(e, have) \in {"FAIL", "SKIP"}
                 /\ j.scheme_ok
    BY DEF JsBlock
  <2>2. QED
    BY <1>2, <2>1, SchemeAgrees
<1>4. /\ j.ok => BlockOk(b)
      /\ have = MLDSA_AVAILABLE => (j.ok <=> BlockOk(b))
  BY <1>2, <1>3 DEF BlockOk
<1>5. j.pq_protected <=>
        /\ j.ok
        /\ \E e \in es : /\ JsStatus(e, have) = "PASS" /\ e.alg = "ml-dsa-65"
                         /\ trusted = Absent \/ e.key \in trusted
  BY DEF JsBlock
<1>6. PqProtected(b, trusted) <=>
        /\ BlockOk(b)
        /\ \E e \in es : /\ Status(e) = "PASS" /\ e.alg = "ml-dsa-65"
                         /\ trusted = Absent \/ e.key \in trusted
  BY DEF PqProtected, POST_QUANTUM
<1>7. j.trusted = IF trusted = Absent \/ ~j.ok THEN "null"
                  ELSE IF \A e \in es : JsShaped(e) /\ e.key \in trusted
                    THEN "true" ELSE "false"
  BY DEF JsBlock
<1>8. Trusted(b, trusted) = IF trusted = Absent \/ ~BlockOk(b) THEN "null"
                            ELSE IF \A e \in es : e.key \in trusted THEN "true" ELSE "false"
  BY DEF Trusted, KeyTrusted
<1>9. j.ok => \A e \in es : JsShaped(e)
  BY <1>2, <1>3
<1> HIDE DEF es, j
<1>10. /\ j.pq_protected => PqProtected(b, trusted)
       /\ have = MLDSA_AVAILABLE => (j.pq_protected <=> PqProtected(b, trusted))
  BY <1>2, <1>4, <1>5, <1>6
<1>11. /\ j.trusted = "true" => Trusted(b, trusted) = "true"
       /\ have = MLDSA_AVAILABLE => j.trusted = Trusted(b, trusted)
  BY <1>4, <1>7, <1>8, <1>9
<1>12. QED
  BY <1>4, <1>10, <1>11 DEF j

-----------------------------------------------------------------------------
(* A subject of the same elements.                                         *)

Element(e) ==
  /\ e.state \in {"contradicted", "not_evaluated", "verified"}
  /\ e.reason = "instrument_failure" => e.state = "not_evaluated"

\* The element of highest rank decides the state.
LEMMA TopDecides ==
  ASSUME NEW els, els # {}, \A e \in els : Element(e)
  PROVE  LET top == CHOOSE e \in els : \A f \in els : JsRank(f) <= JsRank(e) IN
         /\ top \in els
         /\ top.state = "contradicted" <=> \E e \in els : e.state = "contradicted"
         /\ top.state = "verified" <=> \A e \in els : e.state = "verified"
<1>1. \A e \in els :
        /\ JsRank(e) \in {0, 1, 2, 3}
        /\ JsRank(e) = 3 <=> e.state = "contradicted"
        /\ JsRank(e) = 0 <=> e.state = "verified"
  BY DEF Element, JsRank
<1>2. \E e \in els : \A f \in els : JsRank(f) <= JsRank(e)
  <2>1. CASE \E e \in els : JsRank(e) = 3
    BY <1>1, <2>1
  <2>2. CASE (~\E e \in els : JsRank(e) = 3) /\ \E e \in els : JsRank(e) = 2
    BY <1>1, <2>2
  <2>3. CASE (~\E e \in els : JsRank(e) \in {2, 3}) /\ \E e \in els : JsRank(e) = 1
    BY <1>1, <2>3
  <2>4. CASE ~\E e \in els : JsRank(e) \in {1, 2, 3}
    BY <1>1, <2>4
  <2>5. QED
    BY <2>1, <2>2, <2>3, <2>4
<1> DEFINE top == CHOOSE e \in els : \A f \in els : JsRank(f) <= JsRank(e)
<1>3. top \in els /\ \A f \in els : JsRank(f) <= JsRank(top)
  BY <1>2
<1> HIDE DEF top
<1>4. top.state = "contradicted" <=> \E e \in els : e.state = "contradicted"
  BY <1>1, <1>3
<1>5. top.state = "verified" <=> \A e \in els : e.state = "verified"
  BY <1>1, <1>3
<1>6. QED
  BY <1>3, <1>4, <1>5 DEF top

LEMMA SubjectsAgree ==
  ASSUME NEW els, \A e \in els : Element(e)
  PROVE  JsSubject(JsOr(els)) = Subject(els)
<1>1. CASE els = {}
  <2> DEFINE none == {El("not_evaluated", "not_present")}
  <2>1. JsOr(els) = none
    BY <1>1 DEF JsOr
  <2>2. \A e \in none : Element(e)
    BY DEF El, Element
  <2> DEFINE first == CHOOSE e \in none : \A f \in none : JsRank(f) <= JsRank(e)
             worst == {e \in none : e.state # "verified"}
  <2>3. first \in none
    BY <2>2, TopDecides
  <2>4. JsSubject(none) = [state |-> first.state,
                           reasons |-> IF first.state = "verified"
                                         THEN {e.reason : e \in {f \in none : f.reason # ""}}
                                         ELSE {e.reason : e \in worst}]
    BY DEF JsSubject
  <2> HIDE DEF first
  <2>5. first.state = "not_evaluated"
    BY <2>3 DEF El
  <2>6. {e.reason : e \in worst} = {"not_present"}
    <3>1. El("not_evaluated", "not_present").state # "verified"
      BY DEF El
    <3>2. El("not_evaluated", "not_present").reason = "not_present"
      BY DEF El
    <3>3. QED
      BY <3>1, <3>2
  <2>7. QED
    BY <1>1, <2>1, <2>4, <2>5, <2>6 DEF Subject
<1>2. CASE els # {}
  <2> DEFINE top == CHOOSE e \in els : \A f \in els : JsRank(f) <= JsRank(e)
             worst == {e \in els : e.state # "verified"}
  <2>1. /\ top \in els
        /\ top.state = "contradicted" <=> \E e \in els : e.state = "contradicted"
        /\ top.state = "verified" <=> \A e \in els : e.state = "verified"
    BY <1>2, TopDecides
  <2>2. JsSubject(JsOr(els)) =
          [state |-> top.state,
           reasons |-> IF top.state = "verified"
                         THEN {e.reason : e \in {f \in els : f.reason # ""}}
                         ELSE {e.reason : e \in worst}]
    BY <1>2 DEF JsSubject, JsOr
  <2> HIDE DEF top
  <2>3. top.state \in {"contradicted", "not_evaluated", "verified"}
    BY <2>1 DEF Element
  <2>4. CASE worst = {}
    <3>1. top.state = "verified"
      BY <2>1, <2>4
    <3>2. {e.reason : e \in {f \in els : f.reason # ""}} = {e.reason : e \in els} \ {""}
      OBVIOUS
    <3>3. QED
      BY <1>2, <2>2, <2>4, <3>1, <3>2 DEF Subject
  <2>5. CASE worst # {}
    <3>1. top.state = IF \E e \in els : e.state = "contradicted"
                        THEN "contradicted" ELSE "not_evaluated"
      BY <2>1, <2>3, <2>5
    <3>2. top.state # "verified"
      BY <3>1
    <3>3. Subject(els) =
            [state |-> IF \E e \in els : e.state = "contradicted"
                         THEN "contradicted" ELSE "not_evaluated",
             reasons |-> {e.reason : e \in worst}]
      BY <1>2, <2>5 DEF Subject
    <3>4. QED
      BY <2>2, <3>1, <3>2, <3>3
  <2>6. QED
    BY <2>4, <2>5
<1>3. QED
  BY <1>1, <1>2

LEMMA SealedAgrees ==
  ASSUME NEW pk \in Packs
  PROVE  JsSealed(pk) = SealedContent(pk) /\ \A e \in SealedContent(pk) : Element(e)
<1> DEFINE arts == {pk.artifacts[i] : i \in DOMAIN pk.artifacts}
           bad(a) == a.error \/ ~a.sig \/ ~a.claims
<1>1. pk.artifacts \in Seq(Artifacts) /\ pk.bindings \in BOOLEAN
  BY PacksAssumption
<1>2. arts = {} <=> pk.artifacts = <<>>
  <2>1. DOMAIN pk.artifacts = 1..Len(pk.artifacts) /\ Len(pk.artifacts) \in Nat
    BY <1>1
  <2>2. pk.artifacts = <<>> <=> Len(pk.artifacts) = 0
    BY <1>1, EmptySeq
  <2>3. arts = {} <=> DOMAIN pk.artifacts = {}
    OBVIOUS
  <2>4. 1..Len(pk.artifacts) = {} <=> Len(pk.artifacts) = 0
    BY <2>1
  <2>5. QED
    BY <2>1, <2>2, <2>3, <2>4
<1>3. Intact(pk) <=> ~\E a \in arts : bad(a)
  BY DEF Intact
<1> DEFINE digest == IF pk.digest THEN El("verified", "") ELSE El("contradicted", "digest_mismatch")
           artifact(a) == IF bad(a) THEN El("contradicted", "artifact_invalid")
                                    ELSE El("verified", "")
           binding == IF pk.bindings THEN El("verified", "")
                                     ELSE El("contradicted", "binding_mismatch")
<1>4. SealedContent(pk) =
        {digest} \union {artifact(a) : a \in arts}
        \union (IF pk.artifacts = <<>> THEN {El("contradicted", "artifact_invalid")} ELSE {})
        \union (IF pk.artifacts = <<>> \/ ~Intact(pk) THEN {} ELSE {binding})
  <2>1. {artifact(a) : a \in arts} =
          {IF ~a.error /\ a.sig /\ a.claims
             THEN El("verified", "") ELSE El("contradicted", "artifact_invalid") : a \in arts}
    OBVIOUS
  <2>2. QED
    BY <2>1 DEF SealedContent
<1>5. JsSealed(pk) =
        {digest} \union (IF arts = {} THEN {El("contradicted", "artifact_invalid")} ELSE {})
        \union {artifact(a) : a \in arts}
        \union (IF arts # {} /\ ~\E a \in arts : bad(a) THEN {binding} ELSE {})
  <2>1. {IF match THEN El("verified", "") ELSE El("contradicted", "binding_mismatch") :
           match \in IF arts # {} /\ ~\E a \in arts : bad(a) THEN {pk.bindings} ELSE {}}
          = IF arts # {} /\ ~\E a \in arts : bad(a) THEN {binding} ELSE {}
    OBVIOUS
  <2>2. QED
    BY <2>1 DEF JsSealed
<1>6. Element(digest) /\ Element(binding) /\ \A a \in arts : Element(artifact(a))
  BY DEF El, Element
<1>7. Element(El("contradicted", "artifact_invalid"))
  BY DEF El, Element
<1> HIDE DEF arts, digest, artifact, binding, bad
<1>8. JsSealed(pk) = SealedContent(pk)
  BY <1>2, <1>3, <1>4, <1>5
<1>9. \A e \in SealedContent(pk) : Element(e)
  BY <1>4, <1>6, <1>7
<1>10. QED
  BY <1>8, <1>9

LEMMA HolderAgrees ==
  ASSUME NEW pk \in Packs
  PROVE  JsHolder(pk) = HolderBinding(pk) /\ \A e \in HolderBinding(pk) : Element(e)
<1>1. ASSUME NEW a \in Read(pk), a.kb # "absent"
      PROVE  a.kb \in {"unknown", "ok", "bad_hash", "bad_signature"}
  <2>1. pk.artifacts \in Seq(Artifacts)
    BY PacksAssumption
  <2>2. PICK i \in DOMAIN pk.artifacts : a = pk.artifacts[i]
    BY DEF Read
  <2>3. a \in Artifacts
    BY <2>1, <2>2
  <2>4. QED
    BY <1>1, <2>3 DEF Artifacts
<1> DEFINE seen == {r \in Read(pk) : r.kb # "absent"}
           js(a) == IF a.kb = "ok" THEN El("verified", "")
                    ELSE IF a.kb = "bad_signature" THEN El("contradicted", "kb_signature_invalid")
                    ELSE IF a.kb = "bad_hash" THEN El("contradicted", "sd_hash_mismatch")
                    ELSE El("not_evaluated", "holder_key_unknown")
<1>2. ASSUME NEW a \in seen PROVE js(a) = HolderElement(a) /\ Element(js(a))
  <2>1. js(a) = HolderElement(a)
    BY <1>1 DEF HolderElement
  <2>2. Element(js(a))
    BY DEF El, Element
  <2>3. QED
    BY <2>1, <2>2
<1>3. JsHolder(pk) = {js(a) : a \in seen}
  BY DEF JsHolder
<1>4. HolderBinding(pk) = {HolderElement(a) : a \in seen}
  BY DEF HolderBinding
<1> HIDE DEF js, seen
<1>5. QED
  BY <1>2, <1>3, <1>4

LEMMA TimeAgrees ==
  ASSUME NEW pk \in Packs, NEW pol, IsPolicy(pol)
  PROVE  /\ JsTime(pk, pol) = TimeAnchor(pk, pol, NoTsa(pk))
         /\ \A e \in JsTime(pk, pol) : Element(e)
<1> DEFINE C == Claimed(pk)
           el(i) == AnchorElement(pol, Token(pk, i), "none")
<1>0. /\ pk.anchors \in Seq({t \in Tokens : t.token # "missing"})
      /\ pk.block # Absent => pk.block \in Tokens
      /\ pol.tsa_cert \in BOOLEAN
  BY PacksAssumption DEF IsPolicy
<1>1. TimeAnchor(pk, pol, NoTsa(pk)) = {el(i) : i \in C}
  BY DEF TimeAnchor, NoTsa
<1>2. ASSUME NEW t \in Tokens, t.token # "missing"
      PROVE  /\ JsAnchorElement(pol, t) = AnchorElement(pol, t, "none")
             /\ Element(JsAnchorElement(pol, t))
  <2>1. CASE ~Bound(t)
    BY <1>2, <2>1 DEF JsAnchorElement, AnchorElement, El, Element
  <2>2. CASE Bound(t) /\ ~pol.tsa_cert
    BY <2>2 DEF JsAnchorElement, AnchorElement, El, Element
  <2>3. CASE Bound(t) /\ pol.tsa_cert
    BY <2>3 DEF JsAnchorElement, AnchorElement, El, Element
  <2>4. QED
    BY <1>0, <2>1, <2>2, <2>3
<1>3. ASSUME NEW t \in Tokens, t.token = "missing"
      PROVE  AnchorElement(pol, t, "none") = El("contradicted", "token_missing")
  <2>1. ~Bound(t)
    BY <1>3 DEF Bound
  <2>2. QED
    BY <1>3, <2>1 DEF AnchorElement
<1>4. \A i \in DOMAIN pk.anchors :
        /\ pk.anchors[i] \in Tokens /\ pk.anchors[i].token # "missing"
        /\ i # 0 /\ Token(pk, i) = pk.anchors[i]
  <2>1. DOMAIN pk.anchors = 1..Len(pk.anchors) /\ Len(pk.anchors) \in Nat
    BY <1>0
  <2>2. QED
    BY <1>0, <2>1 DEF Token
<1>5. {JsAnchorElement(pol, pk.anchors[i]) : i \in DOMAIN pk.anchors}
        = {el(i) : i \in DOMAIN pk.anchors}
  BY <1>2, <1>4
<1>6. CASE pk.block = Absent
  <2>1. C = DOMAIN pk.anchors
    BY <1>6 DEF Claimed
  <2>2. JsTime(pk, pol) = {el(i) : i \in DOMAIN pk.anchors}
    BY <1>5, <1>6 DEF JsTime
  <2>3. \A i \in DOMAIN pk.anchors : Element(el(i))
    BY <1>2, <1>4
  <2> HIDE DEF el
  <2>4. QED
    BY <1>1, <2>1, <2>2, <2>3
<1>7. CASE pk.block # Absent
  <2> DEFINE first == IF pk.block.token = "missing" THEN El("contradicted", "token_missing")
                      ELSE JsAnchorElement(pol, pk.block)
  <2>1. C = {0} \union DOMAIN pk.anchors
    BY <1>7 DEF Claimed
  <2>2. JsTime(pk, pol) = {first} \union {el(i) : i \in DOMAIN pk.anchors}
    BY <1>5, <1>7 DEF JsTime
  <2>3. first = el(0) /\ Element(el(0))
    <3>1. Token(pk, 0) = pk.block
      BY DEF Token
    <3>2. CASE pk.block.token = "missing"
      BY <1>0, <1>3, <1>7, <3>1, <3>2 DEF El, Element
    <3>3. CASE pk.block.token # "missing"
      BY <1>0, <1>2, <1>7, <3>1, <3>3
    <3>4. QED
      BY <3>2, <3>3
  <2>4. \A i \in DOMAIN pk.anchors : Element(el(i))
    BY <1>2, <1>4
  <2> HIDE DEF el, first
  <2>5. QED
    BY <1>1, <2>1, <2>2, <2>3, <2>4
<1>8. QED
  BY <1>6, <1>7

LEMMA ProducerAgrees ==
  ASSUME NEW b, b # Absent => b.entries \in Seq(Entries),
         NEW trusted \in (SUBSET Nat) \union {Absent}
  PROVE  /\ JsProducer(b, trusted, MLDSA_AVAILABLE) = ProducerSignature(b, trusted)
         /\ \A e \in ProducerSignature(b, trusted) : Element(e)
<1>1. CASE b = Absent
  BY <1>1 DEF JsProducer, ProducerSignature
<1>2. CASE b # Absent
  <2> DEFINE es == BlockEntries(b)
             js(e) == LET status == JsStatus(e, MLDSA_AVAILABLE)
                      IN IF status = "FAIL" THEN El("contradicted", "signature_invalid")
                         ELSE IF status = "SKIP" THEN El("not_evaluated", "backend_missing")
                         ELSE IF trusted = Absent THEN El("not_evaluated", "self_asserted")
                         ELSE IF e.key \in trusted THEN El("verified", "")
                         ELSE El("not_evaluated", "key_unresolved")
             rest == IF b.entries = <<>> \/ ~SchemeOk(b)
                       THEN {El("contradicted", "signature_invalid")} ELSE {}
  <2>1. \A e \in es : e \in Entries
    BY <1>2 DEF BlockEntries
  <2>2. ASSUME NEW e \in es
        PROVE  js(e) = ProducerElement(e, trusted) /\ Element(js(e))
    <3>1. JsStatus(e, MLDSA_AVAILABLE) = Status(e) /\ Status(e) \in {"PASS", "SKIP", "FAIL"}
      BY <2>1, MachineAssumption, StatusAgrees
    <3>2. js(e) = ProducerElement(e, trusted)
      <4>1. CASE Status(e) = "FAIL"
        BY <3>1, <4>1 DEF ProducerElement
      <4>2. CASE Status(e) = "SKIP"
        BY <3>1, <4>2 DEF ProducerElement
      <4>3. CASE Status(e) = "PASS" /\ trusted = Absent
        <5>1. ~KeyTrusted(e, trusted)
          BY <4>3 DEF KeyTrusted
        <5>2. ProducerElement(e, trusted) = El("not_evaluated", "self_asserted")
          BY <4>3, <5>1 DEF ProducerElement
        <5>3. QED
          BY <3>1, <4>3, <5>2
      <4>4. CASE Status(e) = "PASS" /\ trusted # Absent /\ e.key \in trusted
        <5>1. KeyTrusted(e, trusted)
          BY <4>4 DEF KeyTrusted
        <5>2. ProducerElement(e, trusted) = El("verified", "")
          BY <4>4, <5>1 DEF ProducerElement
        <5>3. QED
          BY <3>1, <4>4, <5>2
      <4>5. CASE Status(e) = "PASS" /\ trusted # Absent /\ e.key \notin trusted
        <5>1. ~KeyTrusted(e, trusted)
          BY <4>5 DEF KeyTrusted
        <5>2. ProducerElement(e, trusted) = El("not_evaluated", "key_unresolved")
          BY <4>5, <5>1 DEF ProducerElement
        <5>3. QED
          BY <3>1, <4>5, <5>2
      <4>6. QED
        BY <3>1, <4>1, <4>2, <4>3, <4>4, <4>5
    <3>3. Element(js(e))
      BY DEF El, Element
    <3>4. QED
      BY <3>2, <3>3
  <2>3. JsProducer(b, trusted, MLDSA_AVAILABLE) = {js(e) : e \in es} \union rest
    BY <1>2, SchemeAgrees DEF JsProducer
  <2>4. ProducerSignature(b, trusted) = {ProducerElement(e, trusted) : e \in es} \union rest
    BY <1>2 DEF ProducerSignature
  <2>5. \A e \in rest : Element(e)
    BY DEF El, Element
  <2> HIDE DEF es, js, rest
  <2>6. QED
    BY <2>2, <2>3, <2>4, <2>5
<1>3. QED
  BY <1>1, <1>2

LEMMA IssuerAsserted ==
  ASSUME NEW pk \in Packs, NEW pol, ~pol.trust_anchor
  PROVE  /\ JsIssuer(pk) = IssuerIdentity(pk, pol, NoChain(pk))
         /\ \A e \in JsIssuer(pk) : Element(e)
<1> DEFINE js(a) == El("not_evaluated", IF a.x5c THEN "no_trust_anchor" ELSE "self_asserted")
           good == {j \in DOMAIN pk.artifacts : ~pk.artifacts[j].error}
<1>1. JsIssuer(pk) = {js(pk.artifacts[i]) : i \in good}
  <2>1. Read(pk) = {pk.artifacts[i] : i \in good}
    BY DEF Read
  <2>2. QED
    BY <2>1 DEF JsIssuer
<1>2. \A a : js(a) = IssuerElement(pol, a, "none") /\ Element(js(a))
  <2>1. ASSUME NEW a PROVE js(a) = IssuerElement(pol, a, "none")
    <3>1. CASE a.x5c
      BY <3>1 DEF IssuerElement
    <3>2. CASE ~a.x5c
      BY <3>2 DEF IssuerElement
    <3>3. QED
      BY <3>1, <3>2
  <2>2. \A a : Element(js(a))
    BY DEF El, Element
  <2>3. QED
    BY <2>1, <2>2
<1>3. IssuerIdentity(pk, pol, NoChain(pk)) =
        {IssuerElement(pol, pk.artifacts[i], "none") : i \in good}
  BY DEF IssuerIdentity, NoChain
<1> HIDE DEF js, good
<1>4. QED
  BY <1>1, <1>2, <1>3

-----------------------------------------------------------------------------
(* The anchors, the policy and the verdict.                                *)

\* Where nothing is TSA-verified, the anchors are those that need not be.
LEMMA AnchorsAgree ==
  ASSUME NEW pk, NEW pol
  PROVE  JsAnchors(pk, pol) = Cardinality(Identities(pk, pol, NoTsa(pk)))
<1>1. {j \in Claimed(pk) : Bound(Token(pk, j)) /\ ~pol.tsa_cert} = Counted(pk, pol, NoTsa(pk))
  BY DEF Counted, NoTsa
<1>2. QED
  BY <1>1 DEF JsAnchors, Identities

LEMMA RfcAgrees ==
  ASSUME NEW pk \in Packs
  PROVE  JsRfcFalse(pk) <=> Rfc3161Fails(pk)
<1>1. pk.anchors \in Seq({t \in Tokens : t.token # "missing"})
  BY PacksAssumption
<1>2. \A i \in DOMAIN pk.anchors : i # 0 /\ Token(pk, i) = pk.anchors[i]
  <2>1. DOMAIN pk.anchors = 1..Len(pk.anchors) /\ Len(pk.anchors) \in Nat
    BY <1>1
  <2>2. QED
    BY <2>1 DEF Token
<1>3. Token(pk, 0) = pk.block
  BY DEF Token
<1>4. QED
  BY <1>2, <1>3 DEF JsRfcFalse, Rfc3161Fails, Claimed

\* What the four policy inputs ask of this verifier's reading of a pack.
LEMMA GapsAre ==
  ASSUME NEW pk, NEW pol, IsPolicy(pol), NEW have
  PROVE  LET j == JsBlock(pk.producer, pol.trusted, have)
             gaps == JsPolicyGaps(pk, pol, have) IN
         /\ gaps \subseteq {"require_producer", "require_pq", "require_anchor", "min_anchors"}
         /\ "require_producer" \in gaps <=>
              pol.require_producer /\ ~(pk.producer # Absent /\ j.ok)
         /\ "require_pq" \in gaps <=>
              /\ pol.require_pq
              /\ ~(pk.producer # Absent /\ j.pq_protected /\ j.trusted = "true")
         /\ "require_anchor" \in gaps <=> pol.require_anchor /\ ~(JsAnchors(pk, pol) >= 1)
         /\ "min_anchors" \in gaps <=>
              pol.min_anchors # 0 /\ ~(JsAnchors(pk, pol) >= pol.min_anchors)
<1> DEFINE j == JsBlock(pk.producer, pol.trusted, have)
           gaps == JsPolicyGaps(pk, pol, have)
           asked == {r \in {"require_producer", "require_pq", "require_anchor"} : pol[r]}
                    \union (IF pol.min_anchors # 0 THEN {"min_anchors"} ELSE {})
           met == [require_producer |-> pk.producer # Absent /\ j.ok,
                   require_pq |-> /\ pk.producer # Absent
                                  /\ j.pq_protected /\ j.trusted = "true",
                   require_anchor |-> JsAnchors(pk, pol) >= 1,
                   min_anchors |-> JsAnchors(pk, pol) >= pol.min_anchors]
<1>1. gaps = {r \in asked : ~met[r]}
  BY DEF JsPolicyGaps
<1>2. asked \subseteq {"require_producer", "require_pq", "require_anchor", "min_anchors"}
  OBVIOUS
<1>3. /\ "require_producer" \in asked <=> pol.require_producer
      /\ "require_pq" \in asked <=> pol.require_pq
      /\ "require_anchor" \in asked <=> pol.require_anchor
      /\ "min_anchors" \in asked <=> pol.min_anchors # 0
  BY DEF IsPolicy
<1>4. /\ met["require_producer"] <=> pk.producer # Absent /\ j.ok
      /\ met["require_pq"] <=> pk.producer # Absent /\ j.pq_protected /\ j.trusted = "true"
      /\ met["require_anchor"] <=> JsAnchors(pk, pol) >= 1
      /\ met["min_anchors"] <=> JsAnchors(pk, pol) >= pol.min_anchors
  OBVIOUS
<1> HIDE DEF asked, met, gaps, j
<1>5. QED
  BY <1>1, <1>2, <1>3, <1>4 DEF gaps, j

\* A gap the other verifier finds, with whatever answers openssl gives it, is a
\* gap here; and with none, the gaps are the same.
LEMMA GapsAgree ==
  ASSUME NEW pk \in Packs, NEW pol, IsPolicy(pol), NEW ans,
         NEW have \in BOOLEAN, have => MLDSA_AVAILABLE
  PROVE  /\ JsPolicyGaps(pk, pol, have) = {} => PolicyGaps(pk, pol, ans) = {}
         /\ JsPolicyGaps(pk, pol, MLDSA_AVAILABLE) = PolicyGaps(pk, pol, NoTsa(pk))
<1> DEFINE b == pk.producer
           names == {"require_producer", "require_pq", "require_anchor", "min_anchors"}
           n(a) == Cardinality(Identities(pk, pol, a))
<1>1. pol.trusted \in (SUBSET Nat) \union {Absent} /\ pol.min_anchors \in Nat
  BY DEF IsPolicy
<1>2. b # Absent => b.entries \in Seq(Entries)
  BY PacksAssumption
<1>3. \A a : n(a) \in Nat
  BY FiniteAnchors, FS_CardinalityType
<1>4. JsAnchors(pk, pol) = n(NoTsa(pk)) /\ n(NoTsa(pk)) <= n(ans)
  <2>1. \A i \in Claimed(pk) : NoTsa(pk)[i] = "yes" => ans[i] = "yes"
    BY DEF NoTsa
  <2>2. QED
    BY <2>1, AnchorsAgree, MoreAnswersMoreAnchors
<1>5. ASSUME NEW a
      PROVE  /\ PolicyGaps(pk, pol, a) \subseteq names
             /\ "require_producer" \in PolicyGaps(pk, pol, a) <=>
                  pol.require_producer /\ ~(b # Absent /\ BlockOk(b))
             /\ "require_pq" \in PolicyGaps(pk, pol, a) <=>
                  /\ pol.require_pq
                  /\ ~(b # Absent /\ PqProtected(b, pol.trusted)
                                  /\ Trusted(b, pol.trusted) = "true")
             /\ "require_anchor" \in PolicyGaps(pk, pol, a) <=> pol.require_anchor /\ n(a) < 1
             /\ "min_anchors" \in PolicyGaps(pk, pol, a) <=>
                  pol.min_anchors # 0 /\ n(a) < pol.min_anchors
  BY DEF PolicyGaps
<1> HIDE DEF n
<1>6. ASSUME JsPolicyGaps(pk, pol, have) = {} PROVE PolicyGaps(pk, pol, ans) = {}
  <2> DEFINE j == JsBlock(b, pol.trusted, have)
  <2>1. b # Absent => /\ j.ok => BlockOk(b)
                      /\ j.pq_protected => PqProtected(b, pol.trusted)
                      /\ j.trusted = "true" => Trusted(b, pol.trusted) = "true"
    BY <1>1, <1>2, BlockAgrees
  <2>2. "require_producer" \notin PolicyGaps(pk, pol, ans)
    BY <1>5, <1>6, <2>1, GapsAre
  <2>3. "require_pq" \notin PolicyGaps(pk, pol, ans)
    BY <1>5, <1>6, <2>1, GapsAre
  <2>4. "require_anchor" \notin PolicyGaps(pk, pol, ans)
    <3>1. pol.require_anchor => JsAnchors(pk, pol) >= 1
      BY <1>6, GapsAre
    <3>2. QED
      BY <1>3, <1>4, <1>5, <3>1
  <2>5. "min_anchors" \notin PolicyGaps(pk, pol, ans)
    <3>1. pol.min_anchors # 0 => JsAnchors(pk, pol) >= pol.min_anchors
      BY <1>6, GapsAre
    <3>2. QED
      BY <1>1, <1>3, <1>4, <1>5, <3>1
  <2>6. QED
    BY <1>5, <2>2, <2>3, <2>4, <2>5
<1>7. JsPolicyGaps(pk, pol, MLDSA_AVAILABLE) = PolicyGaps(pk, pol, NoTsa(pk))
  <2> DEFINE j == JsBlock(b, pol.trusted, MLDSA_AVAILABLE)
             js == JsPolicyGaps(pk, pol, MLDSA_AVAILABLE)
             py == PolicyGaps(pk, pol, NoTsa(pk))
  <2>1. b # Absent => /\ j.ok <=> BlockOk(b)
                      /\ j.pq_protected <=> PqProtected(b, pol.trusted)
                      /\ j.trusted = Trusted(b, pol.trusted)
    BY <1>1, <1>2, BlockAgrees, MachineAssumption
  <2>2. "require_producer" \in js <=> "require_producer" \in py
    BY <1>5, <2>1, GapsAre
  <2>3. "require_pq" \in js <=> "require_pq" \in py
    BY <1>5, <2>1, GapsAre
  <2>4. "require_anchor" \in js <=> "require_anchor" \in py
    <3>1. "require_anchor" \in js <=> pol.require_anchor /\ ~(JsAnchors(pk, pol) >= 1)
      BY GapsAre
    <3>2. QED
      BY <1>3, <1>4, <1>5, <3>1
  <2>5. "min_anchors" \in js <=> "min_anchors" \in py
    <3>1. "min_anchors" \in js <=>
            pol.min_anchors # 0 /\ ~(JsAnchors(pk, pol) >= pol.min_anchors)
      BY GapsAre
    <3>2. QED
      BY <1>1, <1>3, <1>4, <1>5, <3>1
  <2>6. js \subseteq names /\ py \subseteq names
    BY <1>5, GapsAre
  <2> HIDE DEF js, py
  <2>7. js = py
    <3>1. \A r \in names : r \in js <=> r \in py
      BY <2>2, <2>3, <2>4, <2>5
    <3> HIDE DEF names
    <3>2. QED
      BY <2>6, <3>1
  <2>8. QED
    BY <2>7 DEF js, py
<1>8. QED
  BY <1>6, <1>7

LEMMA AllOkAgrees ==
  ASSUME NEW pk \in Packs, NEW pol, IsPolicy(pol),
         NEW have \in BOOLEAN, have => MLDSA_AVAILABLE
  PROVE  /\ JsAllOk(pk, pol, have) => AllOk(pk, pol)
         /\ have = MLDSA_AVAILABLE =>
              /\ JsAllOk(pk, pol, have) <=> AllOk(pk, pol)
              /\ JsUnpinned(pk, pol, have) <=> Unpinned(pk, pol)
<1> DEFINE b == pk.producer
           j == JsBlock(b, pol.trusted, have)
<1>1. pol.trusted \in (SUBSET Nat) \union {Absent}
  BY DEF IsPolicy
<1>2. b # Absent => b.entries \in Seq(Entries)
  BY PacksAssumption
<1>3. b # Absent => /\ j.ok => BlockOk(b)
                    /\ j.trusted = "true" => Trusted(b, pol.trusted) = "true"
                    /\ have = MLDSA_AVAILABLE => /\ j.ok <=> BlockOk(b)
                                                 /\ j.trusted = Trusted(b, pol.trusted)
  BY <1>1, <1>2, BlockAgrees
<1> HIDE DEF j
<1>4. /\ Unpinned(pk, pol) => JsUnpinned(pk, pol, have)
      /\ have = MLDSA_AVAILABLE => (JsUnpinned(pk, pol, have) <=> Unpinned(pk, pol))
  BY <1>3 DEF JsUnpinned, Unpinned, j
<1>5. (\A i \in DOMAIN pk.artifacts :
         LET a == pk.artifacts[i]
         IN ~a.error /\ a.sig /\ a.claims /\ a.kb \notin {"bad_hash", "bad_signature"})
        <=> Intact(pk) /\ \A a \in Read(pk) : a.kb \notin {"bad_hash", "bad_signature"}
  BY DEF Intact, Read
<1>6. QED
  BY <1>3, <1>4, <1>5 DEF JsAllOk, AllOk, j

-----------------------------------------------------------------------------
(* The receipt.                                                            *)

LEMMA StatesAgree ==
  ASSUME NEW pk \in Packs, NEW pol, IsPolicy(pol), ~pol.trust_anchor
  PROVE  JsStates(pk, pol, MLDSA_AVAILABLE) = States(pk, pol, NoTsa(pk), NoChain(pk))
<1>1. JsSealed(pk) # {}
  BY DEF JsSealed
<1>2. JsSubject(JsSealed(pk)) = Subject(SealedContent(pk))
  BY <1>1, SealedAgrees, SubjectsAgree DEF JsOr
<1>3. JsSubject(JsOr(JsHolder(pk))) = Subject(HolderBinding(pk))
  BY HolderAgrees, SubjectsAgree
<1>4. JsSubject(JsOr(JsTime(pk, pol))) = Subject(TimeAnchor(pk, pol, NoTsa(pk)))
  BY TimeAgrees, SubjectsAgree
<1>5. JsSubject(JsOr(JsProducer(pk.producer, pol.trusted, MLDSA_AVAILABLE)))
        = Subject(ProducerSignature(pk.producer, pol.trusted))
  <2>1. pk.producer # Absent => pk.producer.entries \in Seq(Entries)
    BY PacksAssumption
  <2>2. pol.trusted \in (SUBSET Nat) \union {Absent}
    BY DEF IsPolicy
  <2>3. QED
    BY <2>1, <2>2, ProducerAgrees, SubjectsAgree
<1>6. JsSubject(JsOr(JsIssuer(pk))) = Subject(IssuerIdentity(pk, pol, NoChain(pk)))
  BY IssuerAsserted, SubjectsAgree
<1>7. QED
  BY <1>2, <1>3, <1>4, <1>5, <1>6 DEF JsStates, States

\* The receipt of this verifier is the receipt of the other one without openssl.
LEMMA ReceiptsAgree ==
  ASSUME NEW pk \in Packs, NEW pol, IsPolicy(pol), ~pol.trust_anchor
  PROVE  JsReceipt(pk, pol, MLDSA_AVAILABLE) = ReceiptOf(pk, pol, NoTsa(pk), NoChain(pk))
<1> DEFINE have == MLDSA_AVAILABLE
           j == JsBlock(pk.producer, pol.trusted, have)
           js == JsReceipt(pk, pol, have)
           py == ReceiptOf(pk, pol, NoTsa(pk), NoChain(pk))
           states == States(pk, pol, NoTsa(pk), NoChain(pk))
<1>1. JsStates(pk, pol, have) = states
  BY StatesAgree
<1>2. JsPolicyGaps(pk, pol, have) = PolicyGaps(pk, pol, NoTsa(pk))
  BY GapsAgree, MachineAssumption
<1>3. /\ JsAllOk(pk, pol, have) <=> AllOk(pk, pol)
      /\ JsUnpinned(pk, pol, have) <=> Unpinned(pk, pol)
  BY AllOkAgrees, MachineAssumption
<1>4. pk.producer # Absent => (j.pq_protected <=> PqProtected(pk.producer, pol.trusted))
  <2>1. pk.producer # Absent => pk.producer.entries \in Seq(Entries)
    BY PacksAssumption
  <2>2. pol.trusted \in (SUBSET Nat) \union {Absent}
    BY DEF IsPolicy
  <2>3. QED
    BY <2>1, <2>2, BlockAgrees, MachineAssumption
<1>5. pk.producer # Absent =>
        \A e \in BlockEntries(pk.producer) : JsStatus(e, have) = Status(e)
  <2>1. pk.producer # Absent => pk.producer.entries \in Seq(Entries)
    BY PacksAssumption
  <2>2. QED
    BY <2>1, StatusAgrees, MachineAssumption DEF BlockEntries
<1>6. SelfAssertedOnly(pk, NoChain(pk)) = TRUE
  <2>1. pk.artifacts \in Seq(Artifacts)
    BY PacksAssumption
  <2>2. CASE pk.artifacts = <<>>
    BY <2>2 DEF SelfAssertedOnly
  <2>3. CASE pk.artifacts # <<>>
    <3>1. 1 \in DOMAIN pk.artifacts
      BY <2>1, <2>3
    <3>2. NoChain(pk)[1] # "yes"
      BY <3>1 DEF NoChain
    <3>3. QED
      BY <3>1, <3>2 DEF SelfAssertedOnly
  <2>4. QED
    BY <2>2, <2>3
<1>7. ChainVerified(pk, pol, NoChain(pk)) = "null"
  BY DEF ChainVerified
<1>8. JsAnchors(pk, pol) = Cardinality(Identities(pk, pol, NoTsa(pk)))
  BY AnchorsAgree
<1> DEFINE jsUnmet ==
             JsPolicyGaps(pk, pol, have)
             \union (IF JsUnpinned(pk, pol, have) THEN {"trusted_producer_keys"} ELSE {})
             \union (IF /\ pol.trust_set_complete
                        /\ "key_unresolved" \in JsStates(pk, pol, have).producer_signature.reasons
                       THEN {"trust_set_complete"} ELSE {})
<1>9. jsUnmet = Unmet(pk, pol, NoTsa(pk), states)
  <2>1. {r \in {"trusted_producer_keys"} : Unpinned(pk, pol)}
          = IF Unpinned(pk, pol) THEN {"trusted_producer_keys"} ELSE {}
    OBVIOUS
  <2> DEFINE unresolved == /\ pol.trust_set_complete
                           /\ "key_unresolved" \in states.producer_signature.reasons
  <2>2. {r \in {"trust_set_complete"} : unresolved}
          = IF unresolved THEN {"trust_set_complete"} ELSE {}
    OBVIOUS
  <2>3. Unmet(pk, pol, NoTsa(pk), states) =
          PolicyGaps(pk, pol, NoTsa(pk))
          \union {r \in {"trusted_producer_keys"} : Unpinned(pk, pol)}
          \union {r \in {"trust_set_complete"} : unresolved}
    BY DEF Unmet
  <2> HIDE DEF states
  <2>4. jsUnmet = PolicyGaps(pk, pol, NoTsa(pk))
          \union (IF Unpinned(pk, pol) THEN {"trusted_producer_keys"} ELSE {})
          \union (IF unresolved THEN {"trust_set_complete"} ELSE {})
    BY <1>1, <1>2, <1>3
  <2>5. QED
    BY <2>1, <2>2, <2>3, <2>4
<1> DEFINE jsValid == /\ pk.artifacts # <<>> /\ pk.digest /\ JsAllOk(pk, pol, have)
                      /\ pk.bindings /\ ~JsRfcFalse(pk) /\ JsPolicyGaps(pk, pol, have) = {}
           jsSkips == pk.producer # Absent
                        /\ \E e \in BlockEntries(pk.producer) : JsStatus(e, have) = "SKIP"
           pySkips == pk.producer # Absent
                        /\ \E e \in BlockEntries(pk.producer) : Status(e) = "SKIP"
           jsPq == pk.producer # Absent /\ j.pq_protected
           pyPq == pk.producer # Absent /\ PqProtected(pk.producer, pol.trusted)
<1>10. jsValid = Valid(pk, pol, NoTsa(pk))
  BY <1>2, <1>3, RfcAgrees DEF Valid
<1>11. jsSkips = pySkips
  BY <1>5
<1>12. jsPq = pyPq
  BY <1>4
<1>13. js = [class |-> "admitted", valid |-> jsValid,
             states |-> JsStates(pk, pol, have), unmet |-> jsUnmet,
             anchors_verified |-> JsAnchors(pk, pol), skipped |-> jsSkips,
             self_asserted_only |-> TRUE, chain_verified |-> "null", pq_protected |-> jsPq]
  BY DEF JsReceipt
<1>14. py = [class |-> "admitted", valid |-> Valid(pk, pol, NoTsa(pk)),
             states |-> states, unmet |-> Unmet(pk, pol, NoTsa(pk), states),
             anchors_verified |-> Cardinality(Identities(pk, pol, NoTsa(pk))),
             skipped |-> pySkips,
             self_asserted_only |-> SelfAssertedOnly(pk, NoChain(pk)),
             chain_verified |-> ChainVerified(pk, pol, NoChain(pk)), pq_protected |-> pyPq]
  BY DEF ReceiptOf
<1> HIDE DEF js, py, jsValid, states, jsUnmet, jsSkips, pySkips, jsPq, pyPq
<1>15. js = py
  BY <1>1, <1>6, <1>7, <1>8, <1>9, <1>10, <1>11, <1>12, <1>13, <1>14
<1>16. QED
  BY <1>15 DEF js, py

\* What this verifier accepts, with a backend the other one has, it accepts.
LEMMA AcceptedByBoth ==
  ASSUME NEW pk \in Packs, NEW pol, IsPolicy(pol),
         NEW have \in BOOLEAN, have => MLDSA_AVAILABLE,
         JsReceipt(pk, pol, have).valid
  PROVE  Ideal(pk, pol).valid
<1>1. /\ pk.artifacts # <<>> /\ pk.digest /\ JsAllOk(pk, pol, have)
      /\ pk.bindings /\ ~JsRfcFalse(pk) /\ JsPolicyGaps(pk, pol, have) = {}
  BY DEF JsReceipt
<1>2. AllOk(pk, pol)
  BY <1>1, AllOkAgrees
<1>3. ~Rfc3161Fails(pk)
  BY <1>1, RfcAgrees
<1>4. PolicyGaps(pk, pol, IdealTsa(pk, pol)) = {}
  BY <1>1, GapsAgree
<1>5. Valid(pk, pol, IdealTsa(pk, pol))
  BY <1>1, <1>2, <1>3, <1>4 DEF Valid
<1>6. QED
  BY <1>5 DEF Ideal, ReceiptOf

\* The two implementations give one receipt, of any pack and under any policy:
\* what ap2-verify.mjs says is what ap2_evidence.py says where there is no
\* openssl, and it accepts nothing that ap2_evidence.py with everything at hand
\* would refuse.
THEOREM VerifiersAlwaysAgree == Spec => []VerifiersAgree
<1>1. ASSUME FromInputs PROVE VerifiersAgree
  <2> DEFINE pol == [policy EXCEPT !.trust_anchor = FALSE]
  <2>1. pack \in Packs /\ policy \in Policies
    BY <1>1 DEF FromInputs
  <2>2. IsPolicy(pol) /\ ~pol.trust_anchor
    BY <2>1, PoliciesAssumption DEF IsPolicy
  <2> HIDE DEF pol
  <2>3. JsReceipt(pack, pol, MLDSA_AVAILABLE) = ReceiptOf(pack, pol, NoTsa(pack), NoChain(pack))
    BY <2>1, <2>2, ReceiptsAgree
  <2>4. \A have \in BOOLEAN :
          (have => MLDSA_AVAILABLE) /\ JsReceipt(pack, pol, have).valid => Ideal(pack, pol).valid
    BY <2>1, <2>2, AcceptedByBoth
  <2>5. QED
    BY <2>3, <2>4 DEF VerifiersAgree, pol
<1>2. FromInputs => VerifiersAgree
  BY <1>1
<1>3. QED
  BY <1>2, InputsStay, PTL
=============================================================================
