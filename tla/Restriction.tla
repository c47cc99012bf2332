----------------------------- MODULE Restriction -----------------------------
(***************************************************************************)
(* `ap2-evidence restriction`: every restriction record R of a pack is      *)
(* compared with the open mandate O it names, then the verdicts are carried *)
(* down the chains of records (SPEC section 11).                            *)
(*                                                                          *)
(* JSON objects are functions on their keys, and two are equal when their   *)
(* canonical forms are.  A constraint list is the set of its elements: every *)
(* loop over one asks whether some element is equal or within.  What a      *)
(* mandate means is not here: see Admits in module RestrictionChain.        *)
(***************************************************************************)
EXTENDS Integers, Sequences

CONSTANTS
  Mistyped,   \* a value of a wrong JSON type
  NotAList,   \* a `constraints` member that is no list
  Absent      \* no `type`, no entry, no original

Elements(list) == {list[i] : i \in DOMAIN list}

-----------------------------------------------------------------------------
(* The shape of a constraint.                                              *)

AllowedTypes == {"allowed_payees", "allowed_payment_instruments",
                 "allowed_pisps", "allowed_merchants"}

Required(t) ==
  CASE t \in {"amount_range", "budget"} -> {"currency", "max"}
    [] t = "agent_recurrence" -> {"frequency"}
    [] t \in AllowedTypes -> {"allowed"}
    [] t = "execution_date" -> {}
    [] t = "reference" -> {"conditional_transaction_id"}
    [] t = "line_items" -> {"items"}

Optional(t) ==
  CASE t = "amount_range" -> {"min"}
    [] t = "agent_recurrence" -> {"max_occurrences"}
    [] t = "execution_date" -> {"not_before", "not_after"}
    [] OTHER -> {}

SchemaTypes == AllowedTypes \union
  {"amount_range", "budget", "agent_recurrence", "execution_date", "reference",
   "line_items"}

LineItemKeys == {"acceptable_items", "id", "quantity"}

\* An integer, a frequency by its place in _FREQ_ORDER, a date by its form and
\* its place among the dates of that form, a non-empty list of items with their
\* keys; any other key is of its type or Mistyped.
WellTyped(k, v) ==
  /\ v # Mistyped
  /\ k \in {"max", "min", "max_occurrences"} => v \in Int
  /\ k = "frequency" => v \in 0..6
  /\ k \in {"not_before", "not_after"} =>
       v \in [form : {"date", "datetime", "other"}, at : Int]
  /\ k = "items" =>
       /\ v # <<>>
       /\ \A i \in DOMAIN v : LineItemKeys \subseteq DOMAIN v[i] /\ v[i].quantity > 0

TypeOf(c) == IF "type" \in DOMAIN c THEN c.type ELSE Absent

UnknownNames(c) ==
  \/ DOMAIN c \ ({"type"} \union Required(c.type) \union Optional(c.type)) # {}
  \/ c.type = "line_items" /\ \E i \in DOMAIN c.items : DOMAIN c.items[i] # LineItemKeys

\* A wrong type or a missing key is found before an unknown one.
Shape(c) ==
  IF TypeOf(c) \in {Absent, Mistyped} THEN "malformed"
  ELSE IF c.type \notin SchemaTypes THEN "unknown_type"
  ELSE IF \/ \E k \in Required(c.type) : k \notin DOMAIN c \/ ~WellTyped(k, c[k])
          \/ \E k \in Optional(c.type) : k \in DOMAIN c /\ ~WellTyped(k, c[k])
    THEN "malformed"
  ELSE IF UnknownNames(c) THEN "unknown_name" ELSE "ok"

-----------------------------------------------------------------------------
(* Is r within o, both well-formed and of one type?                        *)

\* "dates" when two dates are not in one comparable form.
WithinDates(o, r) ==
  LET bounds  == {"not_before", "not_after"} \intersect DOMAIN o
      alike(b) == o[b].form # "other" /\ o[b].form = r[b].form
  IN IF \/ \E b \in bounds : b \notin DOMAIN r
        \/ "not_before" \in bounds /\ alike("not_before")
                                   /\ r.not_before.at < o.not_before.at
        \/ "not_after" \in bounds /\ alike("not_after")
                                  /\ r.not_after.at > o.not_after.at
       THEN "no"
     ELSE IF \A b \in bounds : alike(b) THEN "yes" ELSE "dates"

WithinItems(o, r) ==
  /\ DOMAIN r = DOMAIN o
  /\ \A i \in DOMAIN o :
       /\ r[i].id = o[i].id /\ r[i].quantity = o[i].quantity
       /\ r[i].acceptable_items = <<>> => o[i].acceptable_items = <<>>
       /\ Elements(r[i].acceptable_items) \subseteq Elements(o[i].acceptable_items)

WithinTerms(o, r) ==
  CASE o.type = "amount_range" ->
         /\ r.currency = o.currency /\ r.max <= o.max
         /\ "min" \in DOMAIN o => "min" \in DOMAIN r /\ r.min >= o.min
    [] o.type = "budget" -> r.currency = o.currency /\ r.max <= o.max
    [] o.type = "agent_recurrence" ->
         /\ r.frequency >= o.frequency
         /\ "max_occurrences" \in DOMAIN o =>
              "max_occurrences" \in DOMAIN r /\ r.max_occurrences <= o.max_occurrences
    [] o.type \in AllowedTypes -> Elements(r.allowed) \subseteq Elements(o.allowed)
    [] o.type = "reference" ->
         r.conditional_transaction_id = o.conditional_transaction_id
    [] o.type = "line_items" -> WithinItems(o.items, r.items)

Within(o, r) ==
  IF o.type = "execution_date" THEN WithinDates(o, r)
  ELSE IF WithinTerms(o, r) THEN "yes" ELSE "no"

-----------------------------------------------------------------------------
(* Reasons (evaluate_restriction).                                         *)

No(state, reason) == [state |-> state, reason |-> reason]

StateOf(reasons) ==
  IF \E x \in reasons : x.state = "contradicted" THEN "contradicted"
  ELSE IF reasons # {} THEN "not_evaluated" ELSE "verified"

\* The constraints of R that are of c's type.
Same(rc, c) == {x \in rc : TypeOf(x) = c.type}

\* Every requirement c of O is met by one of R.
RequirementReasons(c, rc) ==
  LET same     == Same(rc, c)
      verdicts == {Within(c, x) : x \in {y \in same : Shape(y) = "ok"}}
  IN CASE c \in rc -> {}
       [] c \notin rc /\ Shape(c) = "unknown_type" -> {No("not_evaluated", "unknown_name")}
       [] c \notin rc /\ Shape(c) \in {"malformed", "unknown_name"} ->
            {No("not_evaluated", "original_malformed")}
       [] c \notin rc /\ Shape(c) = "ok" ->
            IF same = {} THEN {No("contradicted", "constraint_removed")}
            ELSE IF \/ "yes" \in verdicts
                    \/ \E x \in same : Shape(x) = "unknown_name"  \* judged below
              THEN {}
            ELSE IF "dates" \in verdicts THEN {No("not_evaluated", "date_form")}
            ELSE {No("contradicted", "constraint_widened")}

\* Every constraint x that R adds.
AdditionReasons(x, oc) ==
  IF x \in oc THEN {}
  ELSE CASE Shape(x) = "unknown_type" -> {}       \* reported, AP2 fails it
         [] Shape(x) = "malformed" -> {No("contradicted", "malformed")}
         [] Shape(x) = "unknown_name" -> {No("not_evaluated", "unknown_name")}
         [] Shape(x) = "ok" ->
              IF /\ x.type = "agent_recurrence"
                 /\ \A c \in oc : TypeOf(c) # "agent_recurrence"
                THEN {No("not_evaluated", "recurrence_added")} ELSE {}

ConstraintReasons(oc, rc) ==
  IF oc = NotAList THEN {No("not_evaluated", "original_malformed")}
  ELSE IF rc = NotAList THEN {No("contradicted", "malformed")}
  ELSE (UNION {RequirementReasons(c, rc) : c \in oc})
       \union (UNION {AdditionReasons(x, oc) : x \in rc})

\* The rule for a claim beside the Mandate Content; `iss` stands for sub, aud
\* and vct too, `iat` for jti.
TopRule(k) ==
  CASE k = "exp" -> "until" [] k = "nbf" -> "from"
    [] k \in {"cnf", "iss"} -> "equal" [] k = "iat" -> "typed" [] OTHER -> "unknown"

SupportedVct == {"payment", "checkout"}

\* The rule for a claim of the content; `payee` stands for every preset value.
ContentRule(form, vct, k) ==
  IF k \in {"cnf", "exp", "iat"} THEN TopRule(k)
  ELSE IF k = "payee" /\ vct = "payment" THEN "preset"
  ELSE IF form = "payload" THEN TopRule(k) ELSE "unknown"

Differ(o, r, k) ==
  (k \in DOMAIN o) # (k \in DOMAIN r) \/ (k \in DOMAIN o /\ o[k] # r[k])

\* Mutant: an `exp` or `nbf` that R dropped is passed over.
TimeWidenedPresent(rule, o, r, k) ==
  /\ k \in DOMAIN o \intersect DOMAIN r
  /\ IF rule = "from" THEN r[k] < o[k] ELSE r[k] > o[k]

\* r leaves the time that o bounds from below or above at k.
TimeWidened(rule, o, r, k) ==
  /\ k \in DOMAIN o
  /\ k \in DOMAIN r => IF rule = "from" THEN r[k] < o[k] ELSE r[k] > o[k]

ClaimReasons(rule, o, r, k) ==
  CASE rule \in {"until", "from"} ->
         IF k \in DOMAIN o /\ o[k] \notin Int THEN {No("not_evaluated", "original_malformed")}
         ELSE IF k \in DOMAIN r /\ r[k] \notin Int THEN {No("contradicted", "malformed")}
         ELSE IF TimeWidened(rule, o, r, k) THEN {No("contradicted", "time_widened")}
         ELSE {}
    [] rule = "equal" ->
         IF Differ(o, r, k)
           THEN {No("contradicted", IF k = "cnf" THEN "cnf_differs" ELSE "claim_changed")}
           ELSE {}
    [] rule = "typed" ->
         (IF k \in DOMAIN o /\ o[k] \notin Int
            THEN {No("not_evaluated", "original_malformed")} ELSE {})
         \union (IF k \in DOMAIN r /\ r[k] \notin Int
                   THEN {No("contradicted", "malformed")} ELSE {})
    [] rule = "preset" ->
         IF k \in DOMAIN o /\ Differ(o, r, k)
           THEN {No("contradicted", "preset_changed")} ELSE {}
    [] rule = "unknown" ->
         IF Differ(o, r, k) THEN {No("not_evaluated", "unknown_name")} ELSE {}

TopReasons(o, r) ==
  IF o.form = "payload" THEN {}
  ELSE UNION {ClaimReasons(TopRule(k), o.top, r.top, k) :
                k \in DOMAIN o.top \union DOMAIN r.top}

\* Another vct is matched only when the contents are equal.
ContentReasons(o, r) ==
  IF o.vct \notin SupportedVct
    THEN IF <<o.vct, o.claims, o.constraints, o.refs>> = <<r.vct, r.claims, r.constraints, r.refs>>
           THEN {} ELSE {No("not_evaluated", "vct_not_supported")}
  ELSE IF r.vct # o.vct THEN {No("contradicted", "claim_changed")}
  ELSE (UNION {ClaimReasons(ContentRule(o.form, o.vct, k), o.claims, r.claims, k) :
                 k \in DOMAIN o.claims \union DOMAIN r.claims})
       \union ConstraintReasons(o.constraints, r.constraints)

KeyReasons(o, r) ==
  IF o.key # r.key THEN {No("contradicted", "issuer_key_differs")} ELSE {}

\* Mutant: what R does not disclose is taken to be a decoy.
EvaluateOpen(o, r) ==
  KeyReasons(o, r) \union
  IF o.hidden # 0 THEN {No("not_evaluated", "undisclosed_digests")}
  ELSE IF o.disclosable THEN {No("not_evaluated", "original_disclosable")}
  ELSE IF o.form = "none" \/ r.form = "none" THEN {No("not_evaluated", "form_unsupported")}
  ELSE IF o.form # r.form THEN {No("not_evaluated", "form_differs")}
  ELSE TopReasons(o, r) \union ContentReasons(o, r)

\* Steps 4 to 6, then "no broader": what cannot be read ends the comparison.
Evaluate(o, r) ==
  KeyReasons(o, r) \union
  IF o.hidden # 0 \/ r.hidden # 0 THEN {No("not_evaluated", "undisclosed_digests")}
  ELSE IF o.disclosable THEN {No("not_evaluated", "original_disclosable")}
  ELSE IF o.form = "none" \/ r.form = "none" THEN {No("not_evaluated", "form_unsupported")}
  ELSE IF o.form # r.form THEN {No("not_evaluated", "form_differs")}
  ELSE TopReasons(o, r) \union ContentReasons(o, r)
=============================================================================
