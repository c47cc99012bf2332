------------------------------- MODULE Records -------------------------------
(***************************************************************************)
(* How `restriction` finds a record in a token: the Mandate Content of its  *)
(* resolved claims, the references in it, and whether the holder could leave *)
(* the reference out.  A token p is its payload and its disclosures as       *)
(* signed; `resolved` is what the walk of module Disclosure makes of it.     *)
(***************************************************************************)
EXTENDS Expansion

DELEGATE == "delegate_payload"
RESTRICTS == "restricts"     \* RESTRICTS_CONSTRAINT
RESTRICTS_KEYS == {"type", "issuer_jwt_hash"}

Reading(form, content) == [form |-> form, content |-> content]

Has(obj, k) == obj.t = "object" /\ k \in DOMAIN obj.members

\* The digests that a whole walk met and nothing discloses (_digest_census).
Hidden == ToSet(encountered) \ used

MandateForm(resolved) ==
  IF ~Has(resolved, DELEGATE) THEN Reading("payload", resolved)
  ELSE LET dp == resolved.members[DELEGATE]
       IN IF dp.t = "list" /\ Len(dp.items) = 1 /\ dp.items[1].t = "object"
            THEN Reading(DELEGATE, dp.items[1])
            ELSE Reading(Nothing, Nothing)

IsRef(c) == Has(c, "type") /\ c.members["type"] = Leaf(RESTRICTS)

ConstraintsOf(content) ==
  IF Has(content, "constraints") /\ content.members["constraints"].t = "list"
    THEN content.members["constraints"].items ELSE <<>>

Contents(resolved) ==
  LET read == MandateForm(resolved)
  IN IF read.form # Nothing THEN <<read.content>>
     ELSE IF resolved.members[DELEGATE].t = "list" THEN resolved.members[DELEGATE].items
     ELSE <<>>

\* Where the references in the resolved contents are (_record_refs).
RecordRefs(resolved) ==
  LET cons(i) == ConstraintsOf(Contents(resolved)[i])
  IN UNION {{<<i, j>> : j \in {k \in DOMAIN cons(i) : IsRef(cons(i)[k])}} :
             i \in DOMAIN Contents(resolved)}

\* The reference of a record that has one.
TheRef(resolved) ==
  LET at == CHOOSE r \in RecordRefs(resolved) : TRUE
  IN ConstraintsOf(Contents(resolved)[at[1]])[at[2]]

-----------------------------------------------------------------------------
(* What the holder could leave out.                                        *)

DMap(p) ==
  [d \in {p.disclosures[i].digest : i \in DOMAIN p.disclosures} |->
     CHOOSE x \in ToSet(p.disclosures) : x.digest = d]

\* The property disclosures of that name among the digests of an object.
Disclosing(p, obj, name) ==
  LET table == DMap(p)
  IN {i \in (IF obj.t # "object" \/ obj.sd = NotAList THEN {} ELSE DOMAIN obj.sd) :
        /\ obj.sd[i] \in DOMAIN table
        /\ table[obj.sd[i]].form = "object" /\ table[obj.sd[i]].name = name}

\* Mutant: only the first digest of `_sd` is looked at.
DpDisclosedFirst(p) == 1 \in Disclosing(p, p.payload, DELEGATE)
DpDisclosed(p) == Disclosing(p, p.payload, DELEGATE) # {}

\* The members of a signed object by name.
Signed(obj) ==
  [k \in {obj.members[i].k : i \in DOMAIN obj.members} |->
     obj.members[CHOOSE i \in DOMAIN obj.members : obj.members[i].k = k].v]

Prop(p, obj, name) ==
  LET at == Disclosing(p, obj, name)
  IN IF name \in DOMAIN Signed(obj) THEN Signed(obj)[name]
     ELSE IF at = {} THEN Nothing
     ELSE DMap(p)[obj.sd[CHOOSE i \in at : \A j \in at : i <= j]].value

\* An element of delegate_payload, or what its placeholder discloses.
Unwrap(p, el) ==
  IF el.t # "placeholder" THEN el
  ELSE IF el.digest \in DOMAIN DMap(p) /\ DMap(p)[el.digest].form = "array"
    THEN DMap(p)[el.digest].value
  ELSE Nothing

\* Mutant: what an element of the list discloses counts as signed.
IsSignedDisclosed(p, x, ref) ==
  LET el == Unwrap(p, x)
  IN el # Nothing /\ el.t = "object" /\ el.sd = <<>> /\ Signed(el) = ref.members

\* A signed element is the resolved reference when nothing in it is a digest.
IsSigned(p, x, ref) == x.t = "object" /\ x.sd = <<>> /\ Signed(x) = ref.members

SignedContents(p) ==
  IF DELEGATE \notin DOMAIN Signed(p.payload) THEN {p.payload}
  ELSE LET dp == Signed(p.payload)[DELEGATE]
       IN IF dp.t # "list" THEN {} ELSE {Unwrap(p, dp.items[i]) : i \in DOMAIN dp.items}

RefIsPlain(p, ref) ==
  /\ ~DpDisclosed(p)
  /\ \E content \in SignedContents(p) :
       LET cons == IF content = Nothing \/ content.t # "object" THEN Nothing
                   ELSE Prop(p, content, "constraints")
       IN /\ cons # Nothing /\ cons.t = "list"
          /\ \E i \in DOMAIN cons.items : IsSigned(p, cons.items[i], ref)

-----------------------------------------------------------------------------
(* Step 2 of section 11.3, in its order.                                    *)

IsRecord(resolved) == Has(resolved, RESTRICTS) \/ RecordRefs(resolved) # {}

\* A hash is a leaf that is a string of 32 bytes unless it is Mistyped.
WellFormed(ref) ==
  DOMAIN ref.members = RESTRICTS_KEYS /\ ref.members["issuer_jwt_hash"] # Leaf(Mistyped)
    /\ ref.members["issuer_jwt_hash"].t = "leaf"

Reference(p, resolved) ==
  LET ref == TheRef(resolved)
  IN IF Has(resolved, RESTRICTS) THEN "restricts_misplaced"
     ELSE IF ~(\E r \in RecordRefs(resolved) : RecordRefs(resolved) = {r}) \/ ~WellFormed(ref)
       THEN "restricts_malformed"
     ELSE IF ~RefIsPlain(p, ref) THEN "restricts_disclosable"
     ELSE "plain"

-----------------------------------------------------------------------------
(* from_sd_jwt of the AP2 SDK, where a mandate is read as a type: a          *)
(* delegate_payload that is a list must hold exactly one object, and the     *)
(* content must have a `constraints` list.                                   *)

SdkContent(resolved) ==
  IF Has(resolved, DELEGATE) /\ resolved.members[DELEGATE].t = "list"
    THEN MandateForm(resolved).content ELSE resolved

IsMandate(content) ==
  /\ content # Nothing
  /\ Has(content, "constraints") /\ content.members["constraints"].t = "list"

-----------------------------------------------------------------------------
\* A token that steps 2, 5 and 6 let through, with the references that they read.
Readable == phase = "resolved" /\ Returned.t = "object" /\ Hidden = {} /\ MandateForm(Returned).form # Nothing

\* The mandates that a verifier can be shown.
Mandates(p) ==
  LET shown(s) == Presenting(p, Restrict(p.disclosures, s))
      content(s) == SdkContent(Claimed(shown(s)).value)
  IN {content(s) : s \in {z \in SUBSET DOMAIN p.disclosures :
                            Resolvable(shown(z)) /\ IsMandate(content(z))}}

\* A record whose reference is plain cannot be turned back into an ordinary
\* mandate: every mandate that its holder can show, by leaving out disclosures,
\* holds that reference.
HolderKeepsTheReference ==
  Readable /\ IsRecord(Returned) /\ Reference(token, Returned) = "plain" =>
    \A m \in Mandates(token) :
      \E i \in DOMAIN ConstraintsOf(m) : ConstraintsOf(m)[i] = TheRef(Returned)

\* An original that is compared at all has one set of terms: every mandate that
\* its holder can show is the content that is compared, or a part of it.
OneSetOfTerms ==
  Readable /\ ~DpDisclosed(token) =>
    \A m \in Mandates(token) : Prunes(m, MandateForm(Returned).content)
=============================================================================
