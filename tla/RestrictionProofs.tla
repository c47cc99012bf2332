-------------------------- MODULE RestrictionProofs --------------------------
(***************************************************************************)
(* Proofs about module RestrictionChain, for any packs and closed mandates.*)
(*                                                                         *)
(* The heart is NoReasonsNarrower: a comparison that ends without a reason *)
(* is of an R that admits nothing its O does not, apart from shadowed      *)
(* requirements.  It rests on one lemma per table row (what is within      *)
(* meets no more), one for the claims and one for the reuse.  That the run *)
(* only calls verified what compared so is the invariant Compared; that    *)
(* the sweeps lower every record above one with a reason, and no other, is *)
(* the invariant Sweeping.                                                 *)
(***************************************************************************)
EXTENDS RestrictionChain, WellFoundedInduction, TLAPS

-----------------------------------------------------------------------------
(* Well-formed constraints.                                                *)

\* A well-formed constraint is of a type of the table, with its keys typed.
LEMMA OkShape ==
  ASSUME NEW c, Shape(c) = "ok"
  PROVE  /\ c.type \in SchemaTypes
         /\ \A k \in Required(c.type) : k \in DOMAIN c /\ WellTyped(k, c[k])
         /\ \A k \in Optional(c.type) : k \in DOMAIN c => WellTyped(k, c[k])
<1>1. TypeOf(c) \notin {Absent, Mistyped} /\ c.type \in SchemaTypes
  BY DEF Shape
<1>2. QED
  BY <1>1 DEF Shape

\* The rows of the table.
LEMMA Rows ==
  /\ Required("amount_range") = {"currency", "max"} /\ Optional("amount_range") = {"min"}
  /\ Required("budget") = {"currency", "max"}
  /\ Required("agent_recurrence") = {"frequency"}
  /\ Optional("agent_recurrence") = {"max_occurrences"}
  /\ Optional("execution_date") = {"not_before", "not_after"}
BY DEF Required, Optional, AllowedTypes

\* A range within a range admits no other amount.
LEMMA RangeWithin ==
  ASSUME NEW o, NEW r, NEW m \in Closed, o.type = "amount_range", r.type = o.type,
         Shape(o) = "ok", Shape(r) = "ok", WithinTerms(o, r), MeetsTerms(r, m)
  PROVE  MeetsTerms(o, m)
<1>1. /\ o.max \in Int /\ r.max \in Int
      /\ "min" \in DOMAIN o => o.min \in Int
      /\ "min" \in DOMAIN r => r.min \in Int
  BY OkShape, Rows DEF WellTyped
<1>2. /\ r.currency = o.currency /\ r.max <= o.max
      /\ "min" \in DOMAIN o => "min" \in DOMAIN r /\ r.min >= o.min
  BY DEF WithinTerms, AllowedTypes
<1>3. /\ m.currency = r.currency /\ m.amount <= r.max
      /\ "min" \in DOMAIN r => m.amount >= r.min
  BY DEF MeetsTerms, AllowedTypes
<1>4. m.amount \in Int
  BY ClosedAssumption
<1>5. /\ m.currency = o.currency /\ m.amount <= o.max
      /\ "min" \in DOMAIN o => m.amount >= o.min
  BY <1>1, <1>2, <1>3, <1>4
<1>6. QED
  BY <1>5 DEF MeetsTerms, AllowedTypes

\* A budget within a budget.
LEMMA BudgetWithin ==
  ASSUME NEW o, NEW r, NEW m \in Closed, o.type = "budget", r.type = o.type,
         Shape(o) = "ok", Shape(r) = "ok", WithinTerms(o, r), MeetsTerms(r, m)
  PROVE  MeetsTerms(o, m)
<1>1. o.max \in Int /\ r.max \in Int
  BY OkShape, Rows DEF WellTyped
<1>2. r.currency = o.currency /\ r.max <= o.max
  BY DEF WithinTerms, AllowedTypes
<1>3. m.currency = r.currency /\ m.spent <= r.max
  BY DEF MeetsTerms, AllowedTypes
<1>4. m.spent \in Int
  BY ClosedAssumption
<1>5. m.currency = o.currency /\ m.spent <= o.max
  BY <1>1, <1>2, <1>3, <1>4
<1>6. QED
  BY <1>5 DEF MeetsTerms, AllowedTypes

\* A recurrence within a recurrence: no more frequent, no more often.
LEMMA RecurrenceWithin ==
  ASSUME NEW o, NEW r, NEW m \in Closed, o.type = "agent_recurrence", r.type = o.type,
         Shape(o) = "ok", Shape(r) = "ok", WithinTerms(o, r), MeetsTerms(r, m)
  PROVE  MeetsTerms(o, m)
<1>1. /\ o.frequency \in Int /\ r.frequency \in Int
      /\ "max_occurrences" \in DOMAIN o => o.max_occurrences \in Int
      /\ "max_occurrences" \in DOMAIN r => r.max_occurrences \in Int
  BY OkShape, Rows DEF WellTyped
<1>2. /\ r.frequency >= o.frequency
      /\ "max_occurrences" \in DOMAIN o =>
           "max_occurrences" \in DOMAIN r /\ r.max_occurrences <= o.max_occurrences
  BY DEF WithinTerms, AllowedTypes
<1>3. /\ m.gap >= r.frequency
      /\ "max_occurrences" \in DOMAIN r => m.uses <= r.max_occurrences
  BY DEF MeetsTerms, AllowedTypes
<1>4. m.gap \in Int /\ m.uses \in Int
  BY ClosedAssumption
<1>5. /\ m.gap >= o.frequency
      /\ "max_occurrences" \in DOMAIN o => m.uses <= o.max_occurrences
  BY <1>1, <1>2, <1>3, <1>4
<1>6. QED
  BY <1>5 DEF MeetsTerms, AllowedTypes

\* The rows that compare elements: allowed lists, references, line items.
LEMMA ListsWithin ==
  ASSUME NEW o, NEW r, NEW m, r.type = o.type,
         o.type \in AllowedTypes \union {"reference", "line_items"},
         WithinTerms(o, r), MeetsTerms(r, m)
  PROVE  MeetsTerms(o, m)
<1>1. CASE o.type \in AllowedTypes
  <2>1. Elements(r.allowed) \subseteq Elements(o.allowed)
    BY <1>1 DEF WithinTerms, AllowedTypes
  <2>2. m.party[o.type] \in Elements(r.allowed)
    BY <1>1 DEF MeetsTerms, AllowedTypes
  <2>3. m.party[o.type] \in Elements(o.allowed)
    BY <2>1, <2>2
  <2>4. QED
    BY <1>1, <2>3 DEF MeetsTerms, AllowedTypes
<1>2. CASE o.type = "reference"
  BY <1>2 DEF WithinTerms, MeetsTerms, AllowedTypes
<1>3. CASE o.type = "line_items"
  <2>1. WithinItems(o.items, r.items)
    BY <1>3 DEF WithinTerms, AllowedTypes
  <2>2. /\ DOMAIN m.basket = DOMAIN r.items
        /\ \A i \in DOMAIN r.items : MeetsItem(r.items[i], m.basket[i])
    BY <1>3 DEF MeetsTerms, AllowedTypes
  <2>3. ASSUME NEW i \in DOMAIN o.items
        PROVE  MeetsItem(o.items[i], m.basket[i])
    BY <2>1, <2>2, <2>3 DEF WithinItems, MeetsItem
  <2>4. DOMAIN m.basket = DOMAIN o.items
    BY <2>1, <2>2 DEF WithinItems
  <2>5. QED
    BY <1>3, <2>3, <2>4 DEF MeetsTerms, AllowedTypes
<1>4. QED
  BY <1>1, <1>2, <1>3

\* Dates in one comparable form, inside the dates of O.
LEMMA DatesWithin ==
  ASSUME NEW o, NEW r, NEW m \in Closed, o.type = "execution_date", r.type = o.type,
         Shape(o) = "ok", Shape(r) = "ok", WithinDates(o, r) = "yes", MeetsTerms(r, m)
  PROVE  MeetsTerms(o, m)
<1> DEFINE B == {"not_before", "not_after"}
           D == [form : {"date", "datetime", "other"}, at : Int]
<1>1. \A k \in B : (k \in DOMAIN o => o[k] \in D) /\ (k \in DOMAIN r => r[k] \in D)
  BY OkShape, Rows DEF WellTyped
<1>2. \A k \in B : k \in DOMAIN o =>
        k \in DOMAIN r /\ o[k].form # "other" /\ o[k].form = r[k].form
  BY DEF WithinDates
<1>3. /\ "not_before" \in DOMAIN o => ~(r.not_before.at < o.not_before.at)
      /\ "not_after" \in DOMAIN o => ~(r.not_after.at > o.not_after.at)
  BY <1>2 DEF WithinDates
<1>4. /\ "not_before" \in DOMAIN r /\ r.not_before.form # "other" =>
           m.day[r.not_before.form] >= r.not_before.at
      /\ "not_after" \in DOMAIN r /\ r.not_after.form # "other" =>
           m.day[r.not_after.form] <= r.not_after.at
  BY DEF MeetsTerms, AllowedTypes
<1>5. m.day \in [{"date", "datetime", "other"} -> Int]
  BY ClosedAssumption
<1>6. "not_before" \in DOMAIN o => m.day[o.not_before.form] >= o.not_before.at
  <2> SUFFICES ASSUME "not_before" \in DOMAIN o
               PROVE  m.day[o.not_before.form] >= o.not_before.at
    OBVIOUS
  <2>1. o.not_before \in D /\ r.not_before \in D
    BY <1>1, <1>2
  <2>2. m.day[o.not_before.form] >= r.not_before.at
    BY <1>2, <1>4
  <2>3. QED
    BY <1>3, <1>5, <2>1, <2>2
<1>7. "not_after" \in DOMAIN o => m.day[o.not_after.form] <= o.not_after.at
  <2> SUFFICES ASSUME "not_after" \in DOMAIN o
               PROVE  m.day[o.not_after.form] <= o.not_after.at
    OBVIOUS
  <2>1. o.not_after \in D /\ r.not_after \in D
    BY <1>1, <1>2
  <2>2. m.day[o.not_after.form] <= r.not_after.at
    BY <1>2, <1>4
  <2>3. QED
    BY <1>3, <1>5, <2>1, <2>2
<1>8. QED
  BY <1>2, <1>6, <1>7 DEF MeetsTerms, AllowedTypes

\* What is within a constraint meets no more than it.
LEMMA WithinIsNarrower ==
  ASSUME NEW o, NEW r, NEW m \in Closed, r.type = o.type,
         Shape(o) = "ok", Shape(r) = "ok", Within(o, r) = "yes", MeetsTerms(r, m)
  PROVE  MeetsTerms(o, m)
<1>1. o.type \in SchemaTypes
  BY OkShape
<1>2. CASE o.type = "execution_date"
  BY <1>2, DatesWithin DEF Within
<1>3. CASE o.type # "execution_date"
  <2>1. WithinTerms(o, r)
    BY <1>3 DEF Within
  <2>2. QED
    BY <1>1, <1>3, <2>1, RangeWithin, BudgetWithin, RecurrenceWithin, ListsWithin
    DEF SchemaTypes
<1>4. QED
  BY <1>2, <1>3

-----------------------------------------------------------------------------
(* A comparison without a reason.                                          *)

\* The requirement c of O is met by whatever meets R, or it is shadowed.
LEMMA RequirementMet ==
  ASSUME NEW oc, NEW rc, NEW c \in oc, NEW m \in Closed,
         RequirementReasons(c, rc) = {},
         UNION {AdditionReasons(x, oc) : x \in rc} = {},
         \A x \in rc : MeetsConstraint(x, m)
  PROVE  MeetsConstraint(c, m) \/ Shadowed(c, oc, rc)
<1> DEFINE same == Same(rc, c)
           verdicts == {Within(c, x) : x \in {y \in same : Shape(y) = "ok"}}
<1>1. CASE c \in rc
  BY <1>1
<1>2. CASE c \notin rc
  <2>1. Shape(c) \in {"ok", "malformed", "unknown_type", "unknown_name"}
    BY DEF Shape
  <2>2. Shape(c) = "ok"
    BY <1>2, <2>1 DEF RequirementReasons
  <2>3. \/ "yes" \in verdicts
        \/ \E x \in same : Shape(x) = "unknown_name"
    BY <1>2, <2>2 DEF RequirementReasons
  <2>4. CASE "yes" \in verdicts
    <3>1. PICK x \in same : Shape(x) = "ok" /\ Within(c, x) = "yes"
      BY <2>4
    <3>2. x \in rc /\ TypeOf(x) = c.type
      BY <3>1 DEF Same
    <3>3. x.type = c.type
      <4>1. TypeOf(x) # Absent
        BY <3>1 DEF Shape
      <4>2. QED
        BY <3>2, <4>1 DEF TypeOf
    <3>4. MeetsTerms(x, m)
      BY <3>1, <3>2 DEF MeetsConstraint
    <3>5. MeetsTerms(c, m)
      BY <2>2, <3>1, <3>3, <3>4, WithinIsNarrower
    <3>6. QED
      BY <2>2, <3>5 DEF MeetsConstraint
  <2>5. CASE \E x \in same : Shape(x) = "unknown_name"
    <3>1. PICK x \in same : Shape(x) = "unknown_name"
      BY <2>5
    <3>2. x \in rc /\ TypeOf(x) = c.type
      BY <3>1 DEF Same
    <3>3. AdditionReasons(x, oc) = {}
      BY <3>2
    <3>4. x \in oc
      BY <3>1, <3>3 DEF AdditionReasons
    <3>5. QED
      BY <3>1, <3>2, <3>4 DEF Shadowed
  <2>6. QED
    BY <2>3, <2>4, <2>5
<1>3. QED
  BY <1>1, <1>2

\* R is reused no more than O.
LEMMA ReuseMet ==
  ASSUME NEW oc, NEW rc, NEW m,
         UNION {RequirementReasons(c, rc) : c \in oc} = {},
         UNION {AdditionReasons(x, oc) : x \in rc} = {},
         \A x \in rc : MeetsConstraint(x, m), MeetsReuse(rc, m)
  PROVE  MeetsReuse(oc, m)
<1> SUFFICES ASSUME \A c \in oc : TypeOf(c) # "agent_recurrence"
             PROVE  \A x \in rc : TypeOf(x) # "agent_recurrence"
  BY DEF MeetsReuse
<1> SUFFICES ASSUME NEW x \in rc, TypeOf(x) = "agent_recurrence"
             PROVE  FALSE
  OBVIOUS
<1>1. x \notin oc
  OBVIOUS
<1>2. AdditionReasons(x, oc) = {}
  OBVIOUS
<1>3. Shape(x) \in {"ok", "malformed", "unknown_type", "unknown_name"}
  BY DEF Shape
<1>4. Shape(x) \in {"ok", "unknown_type"}
  BY <1>1, <1>2, <1>3 DEF AdditionReasons
<1>5. x.type = "agent_recurrence"
  <2>1. TypeOf(x) # Absent
    BY <1>4 DEF Shape
  <2>2. QED
    BY <2>1 DEF TypeOf
<1>6. Shape(x) # "unknown_type"
  BY <1>5 DEF Shape, SchemaTypes
<1>7. QED
  BY <1>1, <1>2, <1>4, <1>5, <1>6 DEF AdditionReasons

\* The claim k of O is met by whatever meets R's.
LEMMA ClaimMet ==
  ASSUME NEW rule \in {"until", "from", "equal", "typed", "preset", "unknown"},
         NEW o, NEW r, NEW k \in DOMAIN o, NEW m \in Closed,
         ClaimReasons(rule, o, r, k) = {},
         k \in DOMAIN r => MeetsClaim(rule, k, r[k], m)
  PROVE  MeetsClaim(rule, k, o[k], m)
<1>1. CASE rule \in {"until", "from"}
  <2>1. o[k] \in Int /\ (k \in DOMAIN r => r[k] \in Int) /\ ~TimeWidened(rule, o, r, k)
    BY <1>1 DEF ClaimReasons
  <2>2. k \in DOMAIN r /\ (IF rule = "from" THEN ~(r[k] < o[k]) ELSE ~(r[k] > o[k]))
    BY <2>1 DEF TimeWidened
  <2>3. m.time \in Int
    BY ClosedAssumption
  <2>4. CASE rule = "until"
    <3>1. m.time <= r[k]
      BY <2>2, <2>4 DEF MeetsClaim, Until
    <3>2. m.time <= o[k]
      BY <2>1, <2>2, <2>3, <2>4, <3>1
    <3>3. QED
      BY <2>1, <2>4, <3>2 DEF MeetsClaim, Until
  <2>5. CASE rule = "from"
    <3>1. m.time >= r[k]
      BY <2>2, <2>5 DEF MeetsClaim, From
    <3>2. m.time >= o[k]
      BY <2>1, <2>2, <2>3, <2>5, <3>1
    <3>3. QED
      BY <2>1, <2>5, <3>2 DEF MeetsClaim, From
  <2>6. QED
    BY <1>1, <2>4, <2>5
<1>2. CASE rule = "typed"
  BY <1>2 DEF MeetsClaim
<1>3. CASE rule \in {"equal", "preset", "unknown"}
  <2>1. ~Differ(o, r, k)
    BY <1>3 DEF ClaimReasons
  <2>2. k \in DOMAIN r /\ r[k] = o[k]
    BY <2>1 DEF Differ
  <2>3. QED
    BY <1>3, <2>2
<1>4. QED
  BY <1>1, <1>2, <1>3

\* Every claim has one of the rules.
LEMMA Rules ==
  ASSUME NEW form, NEW vct, NEW k
  PROVE  /\ TopRule(k) \in {"until", "from", "equal", "typed", "preset", "unknown"}
         /\ ContentRule(form, vct, k) \in
              {"until", "from", "equal", "typed", "preset", "unknown"}
<1>1. TopRule(k) \in {"until", "from", "equal", "typed", "preset", "unknown"}
  BY DEF TopRule
<1>2. QED
  BY <1>1 DEF ContentRule

\* R admits no closed mandate that O does not, apart from what is shadowed.
NarrowerThan(o, r) ==
  \A m \in Closed :
    Admits(r, m) =>
      /\ MeetsClaims(o, m)
      /\ MeetsReuse(o.constraints, m)
      /\ \A c \in o.constraints :
           MeetsConstraint(c, m) \/ Shadowed(c, o.constraints, r.constraints)

\* A comparison that ends without a reason is of a narrower mandate.
LEMMA NoReasonsNarrower ==
  ASSUME NEW o, NEW r, Evaluate(o, r) = {}
  PROVE  NarrowerThan(o, r)
<1>1. /\ o.form = r.form /\ o.form # "none"
      /\ TopReasons(o, r) = {} /\ ContentReasons(o, r) = {}
  BY DEF Evaluate, No
<1> SUFFICES ASSUME NEW m \in Closed, Admits(r, m)
             PROVE  /\ MeetsClaims(o, m)
                    /\ MeetsReuse(o.constraints, m)
                    /\ \A c \in o.constraints :
                         MeetsConstraint(c, m) \/ Shadowed(c, o.constraints, r.constraints)
  BY DEF NarrowerThan
<1>2. /\ MeetsClaims(r, m) /\ MeetsReuse(r.constraints, m)
      /\ \A x \in r.constraints : MeetsConstraint(x, m)
  BY DEF Admits
<1>3. o.form # "payload" => \A k \in DOMAIN o.top : MeetsClaim(TopRule(k), k, o.top[k], m)
  <2> SUFFICES ASSUME o.form # "payload", NEW k \in DOMAIN o.top
               PROVE  MeetsClaim(TopRule(k), k, o.top[k], m)
    OBVIOUS
  <2>1. ClaimReasons(TopRule(k), o.top, r.top, k) = {}
    BY <1>1 DEF TopReasons
  <2>2. k \in DOMAIN r.top => MeetsClaim(TopRule(k), k, r.top[k], m)
    BY <1>1, <1>2 DEF MeetsClaims
  <2>3. QED
    BY <2>1, <2>2, Rules, ClaimMet
<1>4. CASE o.vct \notin SupportedVct
  <2>1. o.vct = r.vct /\ o.claims = r.claims /\ o.constraints = r.constraints
    BY <1>1, <1>4 DEF ContentReasons, No
  <2>2. \A k \in DOMAIN o.claims :
          MeetsClaim(ContentRule(o.form, o.vct, k), k, o.claims[k], m)
    BY <1>1, <1>2, <2>1 DEF MeetsClaims
  <2>3. MeetsClaims(o, m)
    BY <1>3, <2>2 DEF MeetsClaims
  <2>4. QED
    BY <1>2, <2>1, <2>3
<1>5. CASE o.vct \in SupportedVct
  <2>1. r.vct = o.vct
    BY <1>1, <1>5 DEF ContentReasons
  <2>2. \A k \in DOMAIN o.claims :
          ClaimReasons(ContentRule(o.form, o.vct, k), o.claims, r.claims, k) = {}
    BY <1>1, <1>5, <2>1 DEF ContentReasons
  <2>3. ConstraintReasons(o.constraints, r.constraints) = {}
    <3> DEFINE K == UNION {ClaimReasons(ContentRule(o.form, o.vct, k), o.claims, r.claims, k) :
                             k \in DOMAIN o.claims \union DOMAIN r.claims}
               C == ConstraintReasons(o.constraints, r.constraints)
    <3>1. ContentReasons(o, r) = K \union C
      BY <1>5, <2>1 DEF ContentReasons
    <3> HIDE DEF K, C
    <3>2. C = {}
      BY <1>1, <3>1
    <3>3. QED
      BY <3>2 DEF C
  <2>4. MeetsClaims(o, m)
    <3>1. ASSUME NEW k \in DOMAIN o.claims
          PROVE  MeetsClaim(ContentRule(o.form, o.vct, k), k, o.claims[k], m)
      <4>1. k \in DOMAIN r.claims =>
              MeetsClaim(ContentRule(o.form, o.vct, k), k, r.claims[k], m)
        BY <1>1, <1>2, <2>1 DEF MeetsClaims
      <4>2. QED
        BY <2>2, <4>1, Rules, ClaimMet
    <3>2. QED
      BY <1>3, <3>1 DEF MeetsClaims
  <2>5. /\ UNION {RequirementReasons(c, r.constraints) : c \in o.constraints} = {}
        /\ UNION {AdditionReasons(x, o.constraints) : x \in r.constraints} = {}
    <3> DEFINE Q == UNION {RequirementReasons(c, r.constraints) : c \in o.constraints}
               A == UNION {AdditionReasons(x, o.constraints) : x \in r.constraints}
    <3>1. o.constraints # NotAList /\ r.constraints # NotAList
      BY <2>3 DEF ConstraintReasons, No
    <3>2. Q \union A = {}
      BY <2>3, <3>1 DEF ConstraintReasons
    <3> HIDE DEF Q, A
    <3>3. Q = {} /\ A = {}
      BY <3>2
    <3>4. QED
      BY <3>3 DEF Q, A
  <2>6. MeetsReuse(o.constraints, m)
    BY <1>2, <2>5, ReuseMet
  <2>7. ASSUME NEW c \in o.constraints
        PROVE  MeetsConstraint(c, m) \/ Shadowed(c, o.constraints, r.constraints)
    <3>1. RequirementReasons(c, r.constraints) = {}
      BY <2>5
    <3>2. QED
      BY <1>2, <2>5, <3>1, RequirementMet
  <2>8. QED
    BY <2>4, <2>6, <2>7
<1>6. QED
  BY <1>4, <1>5

-----------------------------------------------------------------------------
(* The run.                                                                *)

\* No reasons, no `not verified`.
LEMMA VerifiedIs ==
  ASSUME NEW e, e # Absent
  PROVE  Verified(e) <=> e.reasons = {}
BY DEF Verified, StateOf

\* What is called verified is what compared without a reason, and an artifact
\* that the loop has not reached has no entry.
Compared ==
  /\ entries = [i \in DOMAIN pack.arts |-> entries[i]]
  /\ phase = "verify" => \A i \in DOMAIN pack.arts : entries[i] = Absent
  /\ phase = "records" => \A i \in DOMAIN pack.arts : i >= at => entries[i] = Absent
  /\ \A i \in DOMAIN pack.arts :
       entries[i] # Absent /\ entries[i].reasons = {} => entries[i] = Entry(pack, i)

Packs == UNION PackSets

Reaching == at \in Nat /\ pack \in Packs

\* The artifacts of a pack are numbered from 1.
LEMMA PackLength ==
  ASSUME NEW pk \in Packs
  PROVE  Len(pk.arts) \in Nat /\ DOMAIN pk.arts = 1..Len(pk.arts)
<1>1. pk.arts \in Seq({pk.arts[i] : i \in DOMAIN pk.arts})
  BY PacksAssumption DEF Packs
<1>2. QED
  BY <1>1

LEMMA PackIndices ==
  ASSUME NEW pk \in Packs
  PROVE  DOMAIN pk.arts \subseteq Nat
BY PackLength

\* The run compares a pack it may be given, artifact by artifact.
THEOREM RunReaches == Spec => []Reaching
<1>1. Init => Reaching
  BY DEF Init, Reaching, Packs
<1>2. Reaching /\ [Next]_vars => Reaching'
  BY DEF Reaching, Next, vars, VerifyPack, EvaluateRecord, RecordsEvaluated, Sweep,
         Swept, Answer
<1>3. QED
  BY <1>1, <1>2, PTL DEF Spec

\* A set of numbers has a least one.
LEMMA LeastNumber ==
  ASSUME NEW T \in SUBSET Nat, T # {}
  PROVE  \E x \in T : \A y \in T : x <= y
<1> DEFINE R == {p \in Nat \X Nat : p[1] < p[2]}
<1>1. IsWellFoundedOn(R, Nat)
  BY NatLessThanWellFounded DEF OpToRel
<1>2. \A x, y \in Nat : y < x => <<y, x>> \in R
  OBVIOUS
<1> HIDE DEF R
<1>3. PICK x \in T : \A y \in T : ~(<<y, x>> \in R)
  BY <1>1, WFMin
<1>4. ASSUME NEW y \in T PROVE x <= y
  <2>1. ~(y < x)
    BY <1>2, <1>3
  <2>2. QED
    BY <2>1
<1>5. QED
  BY <1>4

\* Among the presentations of a mandate, the original is one of them: some
\* presentation hides the least, and the first of those comes first.
LEMMA OriginalMatches ==
  ASSUME NEW pk \in Packs, NEW i \in DOMAIN pk.arts, Matches(pk.arts, i) # {}
  PROVE  Original(pk.arts, i) \in Matches(pk.arts, i)
<1> DEFINE M == Matches(pk.arts, i)
           h(j) == pk.arts[j].hidden
<1>1. M \subseteq Nat /\ \A j \in M : h(j) \in Nat
  BY PackIndices, PacksAssumption DEF Matches, Packs
<1>2. PICK a \in {h(j) : j \in M} : \A b \in {h(j) : j \in M} : a <= b
  BY <1>1, LeastNumber
<1>3. PICK j \in {k \in M : h(k) = a} : \A k \in {k \in M : h(k) = a} : j <= k
  BY <1>1, <1>2, LeastNumber
<1>4. ASSUME NEW k \in M
      PROVE  h(j) < h(k) \/ (h(j) = h(k) /\ j <= k)
  <2>1. h(k) \in Nat /\ h(j) = a /\ a <= h(k) /\ a \in Nat /\ j \in Nat /\ k \in Nat
    BY <1>1, <1>2, <1>3
  <2>2. h(k) = a => j <= k
    BY <1>3
  <2> HIDE DEF h, M
  <2>3. QED
    BY <2>1, <2>2
<1>5. j \in M
  BY <1>3
<1>6. QED
  BY <1>4, <1>5 DEF Original

\* The entry of a record names another artifact of the pack, or none.
LEMMA EntryOriginal ==
  ASSUME NEW pk \in Packs, NEW i \in DOMAIN pk.arts
  PROVE  Entry(pk, i).original \in (DOMAIN pk.arts \ {i}) \union {Absent}
<1>1. CASE pk.valid /\ Malformation(pk.arts[i]) = {} /\ Matches(pk.arts, i) # {}
  <2>1. Entry(pk, i).original = Original(pk.arts, i)
    BY <1>1 DEF Entry
  <2>2. QED
    BY <1>1, <2>1, OriginalMatches DEF Matches
<1>2. CASE ~(pk.valid /\ Malformation(pk.arts[i]) = {} /\ Matches(pk.arts, i) # {})
  BY <1>2 DEF Entry
<1>3. QED
  BY <1>1, <1>2

\* The variables keep their types, an entry is of a record and never names
\* itself, and exit code 0 is `met`.
THEOREM TypeCorrect == Spec => []TypeOK
<1>1. Init => TypeOK
  <2> SUFFICES ASSUME Init PROVE TypeOK
    OBVIOUS
  <2>1. Len(pack.arts) \in Nat /\ Records = {}
    BY PackLength DEF Init, Records
  <2>2. at \in 1..(Len(pack.arts) + 1) /\ DOMAIN entries = DOMAIN pack.arts
    BY <2>1 DEF Init
  <2>3. changed \in BOOLEAN /\ met \in BOOLEAN
    BY DEF Init
  <2>4. exit = 256
    BY DEF Init
  <2>5. phase = "verify"
    BY DEF Init
  <2>6. QED
    BY <2>1, <2>2, <2>3, <2>4, <2>5 DEF TypeOK
<1>2. Reaching /\ TypeOK /\ [Next]_vars => TypeOK'
  <2> SUFFICES ASSUME Reaching, TypeOK, [Next]_vars PROVE TypeOK'
    OBVIOUS
  <2>1. Len(pack.arts) \in Nat /\ DOMAIN pack.arts = 1..Len(pack.arts)
    BY PackLength DEF Reaching
  <2>2. CASE VerifyPack
    BY <2>2 DEF VerifyPack, TypeOK, Records
  <2>3. CASE EvaluateRecord
    <3> DEFINE e == IF IsRecord(pack.arts[at]) THEN Entry(pack, at) ELSE Absent
    <3>1. /\ entries' = [entries EXCEPT ![at] = e] /\ at \in DOMAIN pack.arts
          /\ at' = at + 1 /\ UNCHANGED <<pack, phase, changed, met, exit>>
      BY <2>3 DEF EvaluateRecord
    <3>2. e # Absent => IsRecord(pack.arts[at])
      OBVIOUS
    <3>3. e # Absent => e.original \in (DOMAIN pack.arts \ {at}) \union {Absent}
      BY <3>1, EntryOriginal DEF Reaching
    <3> HIDE DEF e
    <3>4. /\ DOMAIN entries' = DOMAIN pack.arts /\ entries'[at] = e
          /\ \A i \in DOMAIN pack.arts : i # at => entries'[i] = entries[i]
      BY <3>1 DEF TypeOK
    <3>5. ASSUME NEW i \in Records'
          PROVE  /\ IsRecord(pack.arts[i])
                 /\ entries'[i].original \in (DOMAIN pack.arts \ {i}) \union {Absent}
      <4>1. i \in DOMAIN pack.arts /\ entries'[i] # Absent
        BY <3>4, <3>5 DEF Records
      <4>2. CASE i = at
        BY <3>2, <3>3, <3>4, <4>1, <4>2
      <4>3. CASE i # at
        BY <3>4, <4>1, <4>3 DEF TypeOK, Records
      <4>4. QED
        BY <4>2, <4>3
    <3>6. at' \in 1..(Len(pack.arts) + 1)
      BY <2>1, <3>1
    <3>7. QED
      BY <3>1, <3>4, <3>5, <3>6 DEF TypeOK
  <2>4. CASE RecordsEvaluated
    BY <2>1, <2>4 DEF RecordsEvaluated, TypeOK, Records
  <2>5. CASE Sweep
    <3>1. /\ at \in DOMAIN pack.arts /\ at' = at + 1
          /\ UNCHANGED <<pack, phase, met, exit>> /\ changed' \in BOOLEAN
      BY <2>5 DEF Sweep, TypeOK
    <3>2. at' \in 1..(Len(pack.arts) + 1)
      BY <2>1, <3>1
    <3>3. /\ DOMAIN entries' = DOMAIN pack.arts
          /\ \A i \in DOMAIN pack.arts :
               entries'[i] # Absent => entries[i] # Absent /\ entries'[i].original = entries[i].original
      <4>1. CASE entries' = entries
        BY <4>1 DEF TypeOK
      <4>2. CASE entries' # entries
        <5>1. entries[at] # Absent /\ entries' =
                [entries EXCEPT ![at].reasons =
                   @ \union {No("not_evaluated", "original_not_verified")}]
          BY <2>5, <4>2 DEF Sweep, Verified
        <5>2. at \in DOMAIN entries /\ DOMAIN entries = DOMAIN pack.arts
          BY <3>1 DEF TypeOK
        <5>3. /\ DOMAIN entries' = DOMAIN entries
              /\ \A i \in DOMAIN entries : i # at => entries'[i] = entries[i]
          BY <5>1
        <5>4. entries'[at] = [entries[at] EXCEPT !.reasons =
                                @ \union {No("not_evaluated", "original_not_verified")}]
          BY <5>1, <5>2
        <5>5. entries'[at].original = entries[at].original
          BY <5>4
        <5>6. QED
          BY <5>1, <5>2, <5>3, <5>5
      <4>3. QED
        BY <4>1, <4>2
    <3>4. ASSUME NEW i \in Records'
          PROVE  /\ IsRecord(pack.arts[i])
                 /\ entries'[i].original \in (DOMAIN pack.arts \ {i}) \union {Absent}
      <4>1. i \in Records /\ entries'[i].original = entries[i].original
        BY <3>3 DEF Records, TypeOK
      <4>2. QED
        BY <4>1 DEF TypeOK
    <3>5. QED
      BY <3>1, <3>2, <3>3, <3>4 DEF TypeOK
  <2>6. CASE Swept
    <3>1. /\ phase' \in {"chain", "answer"} /\ at' = 1 /\ changed' = FALSE
          /\ UNCHANGED <<pack, entries, met, exit>>
      BY <2>6 DEF Swept
    <3>2. at' \in 1..(Len(pack.arts) + 1)
      BY <2>1, <3>1
    <3>3. QED
      BY <3>1, <3>2 DEF TypeOK, Records
  <2>7. CASE Answer
    <3>1. met' \in BOOLEAN
      BY <2>7 DEF Answer
    <3>2. exit' \in {0, 1, 74} /\ (exit' = 0 => met')
      BY <2>7 DEF Answer
    <3>3. phase' = "done" /\ UNCHANGED <<pack, at, entries, changed>>
      BY <2>7 DEF Answer
    <3>4. QED
      BY <3>1, <3>2, <3>3 DEF TypeOK, Records
  <2>8. CASE UNCHANGED vars
    BY <2>8 DEF vars, TypeOK, Records
  <2>9. QED
    BY <2>2, <2>3, <2>4, <2>5, <2>6, <2>7, <2>8 DEF Next
<1>3. QED
  BY <1>1, <1>2, RunReaches, PTL DEF Spec

\* Every verdict of the run is the comparison's, or lower.
THEOREM VerdictsAreCompared == Spec => []Compared
<1>1. Init => Compared
  BY DEF Init, Compared
<1>2. Reaching /\ Compared /\ [Next]_vars => Compared'
  <2> SUFFICES ASSUME Reaching, Compared, [Next]_vars PROVE Compared'
    OBVIOUS
  <2>1. CASE VerifyPack
    BY <2>1 DEF VerifyPack, Compared
  <2>2. CASE EvaluateRecord
    <3> DEFINE e == IF IsRecord(pack.arts[at]) THEN Entry(pack, at) ELSE Absent
    <3>1. /\ entries' = [entries EXCEPT ![at] = e] /\ at' = at + 1
          /\ at \in DOMAIN pack.arts /\ pack' = pack /\ phase = "records"
          /\ phase' = "records"
      BY <2>2 DEF EvaluateRecord
    <3>2. entries' = [i \in DOMAIN pack.arts |-> IF i = at THEN e ELSE entries[i]]
      BY <3>1 DEF Compared
    <3> HIDE DEF e
    <3>3. entries' = [i \in DOMAIN pack'.arts |-> entries'[i]]
      BY <3>1, <3>2
    <3>4. \A i \in DOMAIN pack.arts : i >= at + 1 => entries'[i] = Absent
      BY <3>1, <3>2, PackIndices DEF Compared, Reaching
    <3>5. ASSUME NEW i \in DOMAIN pack.arts, entries'[i] # Absent, entries'[i].reasons = {}
          PROVE  entries'[i] = Entry(pack, i)
      <4>1. CASE i = at
        BY <3>2, <3>5, <4>1 DEF e
      <4>2. CASE i # at
        BY <3>2, <3>5, <4>2 DEF Compared
      <4>3. QED
        BY <4>1, <4>2
    <3>6. QED
      BY <3>1, <3>3, <3>4, <3>5 DEF Compared
  <2>3. CASE RecordsEvaluated
    BY <2>3 DEF RecordsEvaluated, Compared
  <2>4. CASE Sweep
    <3>1. pack' = pack /\ phase = "chain" /\ phase' = "chain"
      BY <2>4 DEF Sweep
    <3>2. CASE entries' = entries
      BY <3>1, <3>2 DEF Compared
    <3>3. CASE entries' # entries
      <4>1. at \in DOMAIN pack.arts /\ entries[at] # Absent /\ entries' =
              [entries EXCEPT ![at].reasons =
                 @ \union {No("not_evaluated", "original_not_verified")}]
        BY <2>4, <3>3 DEF Sweep, Verified
      <4>2. /\ entries' = [i \in DOMAIN pack.arts |-> entries'[i]]
            /\ \A i \in DOMAIN pack.arts : i # at => entries'[i] = entries[i]
        BY <4>1 DEF Compared
      <4>3. entries'[at].reasons = {} => entries[at] = Entry(pack, at) /\ entries'[at] = entries[at]
        BY <4>1 DEF Compared
      <4>4. QED
        BY <3>1, <4>2, <4>3 DEF Compared
    <3>4. QED
      BY <3>2, <3>3
  <2>5. CASE Swept
    BY <2>5 DEF Swept, Compared
  <2>6. CASE Answer
    BY <2>6 DEF Answer, Compared
  <2>7. CASE UNCHANGED vars
    BY <2>7 DEF vars, Compared
  <2>8. QED
    BY <2>1, <2>2, <2>3, <2>4, <2>5, <2>6, <2>7 DEF Next
<1>3. QED
  BY <1>1, <1>2, RunReaches, PTL DEF Spec

\* A verified entry is the comparison's, with the original that was found.
LEMMA VerifiedEntry ==
  ASSUME Compared, NEW i \in Records, Verified(entries[i])
  PROVE  /\ entries[i] = Entry(pack, i)
         /\ pack.valid /\ Matches(pack.arts, i) # {}
         /\ entries[i] = [original |-> Original(pack.arts, i), reasons |-> {}]
         /\ Evaluate(pack.arts[entries[i].original], pack.arts[i]) = {}
<1>1. i \in DOMAIN pack.arts /\ entries[i] # Absent /\ entries[i].reasons = {}
  BY VerifiedIs DEF Records, Compared
<1>2. entries[i] = Entry(pack, i)
  BY <1>1 DEF Compared
<1>3. /\ pack.valid /\ Malformation(pack.arts[i]) = {} /\ Matches(pack.arts, i) # {}
  <2> DEFINE entry(o, reasons) == [original |-> o, reasons |-> reasons]
  <2>1. \A o, reasons : entry(o, reasons) = entries[i] => reasons = {}
    BY <1>1
  <2>2. pack.valid
    <3>1. ~pack.valid => entries[i] = entry(Absent, {No("not_evaluated", "pack_not_valid")})
      BY <1>2 DEF Entry
    <3>2. QED
      BY <2>1, <3>1
  <2>3. Malformation(pack.arts[i]) = {}
    <3>1. Malformation(pack.arts[i]) # {} =>
            entries[i] = entry(Absent, Malformation(pack.arts[i]))
      BY <1>2, <2>2 DEF Entry
    <3>2. QED
      BY <2>1, <3>1
  <2>4. Matches(pack.arts, i) # {}
    <3>1. Matches(pack.arts, i) = {} =>
            entries[i] = entry(Absent, {No("not_evaluated", "original_not_in_pack")})
      BY <1>2, <2>2, <2>3 DEF Entry
    <3>2. QED
      BY <2>1, <3>1
  <2>5. QED
    BY <2>2, <2>3, <2>4
<1>4. entries[i] = [original |-> Original(pack.arts, i),
                    reasons |-> Evaluate(pack.arts[Original(pack.arts, i)], pack.arts[i])]
  BY <1>2, <1>3 DEF Entry
<1>5. QED
  BY <1>1, <1>2, <1>3, <1>4

\* A verified record admits nothing its original does not, apart from what a
\* shadowed requirement bounds: for any mandates, whatever their length.
THEOREM VerifiedNarrower == Spec => []VerifiedIsNarrower
<1>1. Compared => VerifiedIsNarrower
  BY VerifiedEntry, NoReasonsNarrower DEF VerifiedIsNarrower, NarrowerThan
<1>2. QED
  BY <1>1, VerdictsAreCompared, PTL

\* A step only ever lowers a verified entry.
THEOREM OnlyWorsen == Spec => EntriesOnlyWorsen
<1> DEFINE W == \A i \in Records :
                  entries'[i] # entries[i] =>
                    /\ Verified(entries[i]) /\ ~Verified(entries'[i])
                    /\ entries'[i].original = entries[i].original
<1>1. Reaching /\ Compared /\ [Next]_vars => [W]_vars
  <2> SUFFICES ASSUME Reaching, Compared, Next, NEW i \in Records, entries'[i] # entries[i]
               PROVE  /\ Verified(entries[i]) /\ ~Verified(entries'[i])
                      /\ entries'[i].original = entries[i].original
    OBVIOUS
  <2>1. i \in DOMAIN pack.arts /\ entries[i] # Absent
    BY DEF Records, Compared
  <2>2. ~EvaluateRecord
    <3> SUFFICES ASSUME EvaluateRecord PROVE FALSE
      OBVIOUS
    <3>1. at \in DOMAIN pack.arts /\ phase = "records" /\ i = at
      BY <2>1 DEF EvaluateRecord, Compared
    <3>2. entries[at] = Absent
      BY <3>1, PackIndices DEF Compared, Reaching
    <3>3. QED
      BY <2>1, <3>1, <3>2
  <2>3. Sweep
    BY <2>2 DEF Next, VerifyPack, RecordsEvaluated, Swept, Answer
  <2>4. i = at /\ Verified(entries[at]) /\ at \in DOMAIN entries /\
          entries' = [entries EXCEPT ![at].reasons =
                        @ \union {No("not_evaluated", "original_not_verified")}]
    BY <2>1, <2>3 DEF Sweep, Compared
  <2>5. entries'[at] = [entries[at] EXCEPT !.reasons =
                          @ \union {No("not_evaluated", "original_not_verified")}]
    BY <2>4
  <2>6. entries'[at].original = entries[at].original
    BY <2>5
  <2>7. entries[at].reasons = {}
    BY <2>1, <2>4, VerifiedIs
  <2>8. ~Verified(entries'[at])
    <3>1. entries'[at].reasons =
            entries[at].reasons \union {No("not_evaluated", "original_not_verified")}
      BY <2>5
    <3>2. entries'[at].reasons # {}
      BY <3>1
    <3>3. QED
      BY <3>2 DEF Verified, StateOf
  <2>9. QED
    BY <2>4, <2>6, <2>8
<1>2. QED
  BY <1>1, RunReaches, VerdictsAreCompared, PTL DEF Spec, EntriesOnlyWorsen

-----------------------------------------------------------------------------
(* The sweeps.                                                             *)

\* A record is in its own chain, and the chain of what it rests on is part of it.
LEMMA ChainHolds ==
  ASSUME NEW i \in DOMAIN entries
  PROVE  /\ i \in Chain(i)
         /\ i \in Records /\ entries[i].original \in DOMAIN entries \ {Absent} =>
              Chain(entries[i].original) \subseteq Chain(i)
BY DEF Chain, Grounded

\* What holds of a record, and of the original of every record it holds of,
\* holds along the chain.
LEMMA AlongTheChain ==
  ASSUME NEW i \in DOMAIN entries, NEW S \in SUBSET DOMAIN entries, i \in S, Grounded(S)
  PROVE  Chain(i) \subseteq S
BY DEF Chain

\* A sweep leaves every chain as it is.
LEMMA ChainsStay ==
  ASSUME DOMAIN entries' = DOMAIN entries, Records' = Records,
         \A i \in Records : entries'[i].original = entries[i].original
  PROVE  \A i \in DOMAIN entries : Chain(i)' = Chain(i)
<1>1. \A S \in SUBSET DOMAIN entries : Grounded(S)' <=> Grounded(S)
  BY DEF Grounded
<1>2. QED
  BY <1>1 DEF Chain

\* The verdict of the mandate that record i rests on.
UpVerified(i) ==
  Verified(entries[i]) /\ Up(entries, entries[i]) # Absent => Verified(Up(entries, entries[i]))

\* Only a record that rests on one with a reason is lowered; a sweep that has
\* lowered nothing has found the records before it in order; and once there is
\* an answer, so are all of them.
Sweeping ==
  /\ phase \in {"verify", "records"} => \A i \in Records : entries[i] = Entry(pack, i)
  /\ \A i \in Records :
       ~Verified(entries[i]) =>
         \E j \in Chain(i) \intersect Records : Entry(pack, j).reasons # {}
  /\ phase = "chain" /\ ~changed => \A i \in Records : i < at => UpVerified(i)
  /\ phase \in {"answer", "done"} => \A i \in Records : UpVerified(i)
  /\ phase = "done" /\ met => Records # {} /\ \A i \in Records : Verified(entries[i])

\* The inductive invariant of the sweeps holds throughout.
THEOREM SweepsReach == Spec => []Sweeping
<1>1. Init => Sweeping
  BY DEF Init, Sweeping, Records
<1>2. Reaching /\ TypeOK /\ Compared /\ Sweeping /\ [Next]_vars => Sweeping'
  <2> SUFFICES ASSUME Reaching, TypeOK, Compared, Sweeping, [Next]_vars PROVE Sweeping'
    OBVIOUS
  <2>1. Len(pack.arts) \in Nat /\ DOMAIN pack.arts = 1..Len(pack.arts) /\ at \in Nat
    BY PackLength DEF Reaching
  <2>2. CASE VerifyPack
    <3>1. entries' = entries /\ Records = {} /\ Records' = {} /\ phase' # "done"
      BY <2>2 DEF VerifyPack, Compared, Records
    <3>2. QED
      BY <3>1 DEF Sweeping
  <2>3. CASE EvaluateRecord
    <3>1. /\ phase = "records" /\ phase' = "records" /\ pack' = pack
          /\ at \in DOMAIN entries
      BY <2>3 DEF EvaluateRecord, TypeOK
    <3>2. entries' = [entries EXCEPT ![at] =
                       IF IsRecord(pack.arts[at]) THEN Entry(pack, at) ELSE Absent]
      BY <2>3 DEF EvaluateRecord
    <3>3. DOMAIN entries' = DOMAIN entries
      BY <3>2
    <3>4. \A i \in Records' : entries'[i] = Entry(pack, i)
      BY <3>1, <3>2, <3>3 DEF Sweeping, Records
    <3>5. ASSUME NEW i \in Records', ~Verified(entries'[i])
          PROVE  i \in Chain(i)' /\ Entry(pack, i).reasons # {}
      <4>1. i \in Chain(i)'
        BY <3>5 DEF Chain, Records
      <4>2. entries'[i] # Absent
        BY <3>5 DEF Records
      <4>3. QED
        BY <3>4, <3>5, <4>1, <4>2, VerifiedIs
    <3>6. QED
      BY <3>1, <3>4, <3>5 DEF Sweeping
  <2>4. CASE RecordsEvaluated
    <3>1. /\ phase' = "chain" /\ at' = 1 /\ entries' = entries /\ pack' = pack
          /\ Records' = Records
      BY <2>4 DEF RecordsEvaluated, Records
    <3>2. \A i \in Records : ~(i < 1)
      BY <2>1 DEF Records, TypeOK
    <3>3. \A i \in DOMAIN entries : Chain(i)' = Chain(i)
      BY <3>1, ChainsStay
    <3>4. Records \subseteq DOMAIN entries
      BY DEF Records
    <3>5. QED
      BY <3>1, <3>2, <3>3, <3>4 DEF Sweeping
  <2>5. CASE Sweep
    <3>1. /\ phase = "chain" /\ phase' = "chain" /\ pack' = pack /\ at' = at + 1
          /\ at \in DOMAIN entries
      BY <2>5 DEF Sweep, TypeOK
    <3>2. Records \subseteq DOMAIN entries /\ Records \subseteq Nat
      BY <2>1 DEF Records, TypeOK
    <3> DEFINE e  == entries[at]
               up == Up(entries, e)
    <3>3. CASE Verified(e) /\ up # Absent /\ ~Verified(up)
      <4> DEFINE low == {No("not_evaluated", "original_not_verified")}
      <4>1. /\ entries' = [entries EXCEPT ![at].reasons = @ \union low]
            /\ changed' = TRUE
        BY <2>5, <3>3 DEF Sweep
      <4>2. /\ at \in Records /\ e.original # Absent /\ up = entries[e.original]
            /\ e.original \in Records
        <5>1. at \in Records
          BY <3>1, <3>3 DEF Verified, Records
        <5>2. e.original # Absent /\ up = entries[e.original]
          BY <3>3 DEF Up
        <5>3. e.original \in DOMAIN entries
          BY <5>1, <5>2 DEF TypeOK
        <5>4. QED
          BY <3>3, <5>1, <5>2, <5>3 DEF Records
      <4>3. /\ DOMAIN entries' = DOMAIN entries
            /\ \A i \in DOMAIN entries : i # at => entries'[i] = entries[i]
            /\ entries'[at] = [entries[at] EXCEPT !.reasons = @ \union low]
        BY <3>1, <4>1
      <4>4. entries'[at] = [original |-> e.original, reasons |-> low]
        <5>1. e = [original |-> Original(pack.arts, at), reasons |-> {}]
          BY <3>3, <4>2, VerifiedEntry
        <5>2. [e EXCEPT !.reasons = @ \union low] =
                [original |-> e.original, reasons |-> {} \union low]
          BY <5>1
        <5>3. QED
          BY <4>3, <5>2
      <4>5. entries'[at] # Absent
        <5>1. e.original \in Nat
          BY <3>2, <4>2
        <5>2. entries'[at] \in [original : Nat, reasons : {low}]
          BY <4>4, <5>1
        <5>3. QED
          BY <5>2, AbsentAssumption
      <4>6. Records' = Records
        BY <4>2, <4>3, <4>5 DEF Records
      <4>7. \A i \in DOMAIN entries : Chain(i)' = Chain(i)
        <5>1. entries'[at].original = entries[at].original
          BY <4>4
        <5>2. QED
          BY <3>2, <4>3, <4>6, <5>1, ChainsStay
      <4>8. PICK j \in Chain(e.original) \intersect Records : Entry(pack, j).reasons # {}
        BY <3>3, <4>2 DEF Sweeping
      <4>9. j \in Chain(at)
        BY <3>2, <4>2, <4>8, ChainHolds
      <4>10. ASSUME NEW i \in Records', ~Verified(entries'[i])
             PROVE  \E k \in Chain(i)' \intersect Records' : Entry(pack, k).reasons # {}
        <5>1. CASE i = at
          BY <3>2, <4>2, <4>6, <4>7, <4>8, <4>9, <5>1
        <5>2. CASE i # at
          BY <3>2, <4>3, <4>6, <4>7, <4>10, <5>2 DEF Sweeping
        <5>3. QED
          BY <5>1, <5>2
      <4>11. QED
        BY <3>1, <4>1, <4>10 DEF Sweeping
    <3>4. CASE ~(Verified(e) /\ up # Absent /\ ~Verified(up))
      <4>1. UNCHANGED <<entries, changed>>
        BY <2>5, <3>4 DEF Sweep
      <4>2. Records' = Records /\ \A i \in DOMAIN entries : Chain(i)' = Chain(i)
        BY <4>1, ChainsStay DEF Records
      <4>3. UpVerified(at)
        BY <3>4 DEF UpVerified
      <4>4. \A i \in Records : i < at + 1 => i < at \/ i = at
        BY <2>1, <3>2
      <4>5. \A i \in Records : UpVerified(i)' <=> UpVerified(i)
        BY <4>1 DEF UpVerified
      <4>6. QED
        BY <3>1, <3>2, <4>1, <4>2, <4>3, <4>4, <4>5 DEF Sweeping
    <3>5. QED
      BY <3>3, <3>4
  <2>6. CASE Swept
    <3>1. /\ phase = "chain" /\ entries' = entries /\ pack' = pack /\ met' = met
          /\ phase' = (IF changed THEN "chain" ELSE "answer") /\ at' = 1
          /\ Records' = Records
      BY <2>6 DEF Swept, Records
    <3>2. \A i \in Records : i < at /\ ~(i < 1)
      BY <2>1, <2>6 DEF Swept, Records, TypeOK
    <3>3. \A i \in DOMAIN entries : Chain(i)' = Chain(i)
      BY <3>1, ChainsStay
    <3>4. \A i \in Records : UpVerified(i)' <=> UpVerified(i)
      BY <3>1 DEF UpVerified
    <3>5. Records \subseteq DOMAIN entries
      BY DEF Records
    <3>6. QED
      BY <3>1, <3>2, <3>3, <3>4, <3>5 DEF Sweeping
  <2>7. CASE Answer
    <3>1. /\ phase = "answer" /\ phase' = "done" /\ entries' = entries /\ pack' = pack
          /\ Records' = Records
          /\ met' = (pack.admitted /\ Records # {} /\ \A i \in Records : Verified(entries[i]))
      BY <2>7 DEF Answer, Records
    <3>2. \A i \in DOMAIN entries : Chain(i)' = Chain(i)
      BY <3>1, ChainsStay
    <3>3. \A i \in Records : UpVerified(i)' <=> UpVerified(i)
      BY <3>1 DEF UpVerified
    <3>4. Records \subseteq DOMAIN entries
      BY DEF Records
    <3>5. QED
      BY <3>1, <3>2, <3>3, <3>4 DEF Sweeping
  <2>8. CASE UNCHANGED vars
    <3>1. /\ UNCHANGED <<pack, phase, at, entries, changed, met>> /\ Records' = Records
      BY <2>8 DEF vars, Records
    <3>2. \A i \in DOMAIN entries : Chain(i)' = Chain(i)
      BY <3>1, ChainsStay
    <3>3. \A i \in Records : UpVerified(i)' <=> UpVerified(i)
      BY <3>1 DEF UpVerified
    <3>4. Records \subseteq DOMAIN entries
      BY DEF Records
    <3>5. QED
      BY <3>1, <3>2, <3>3, <3>4 DEF Sweeping
  <2>9. QED
    BY <2>2, <2>3, <2>4, <2>5, <2>6, <2>7, <2>8 DEF Next
<1>3. QED
  BY <1>1, <1>2, RunReaches, TypeCorrect, VerdictsAreCompared, PTL DEF Spec

\* The sweeps lower exactly the records whose chain holds one with a reason.
THEOREM ChainRuleHolds == Spec => []ChainRuleIsExact
<1>1. TypeOK /\ Compared /\ Sweeping => ChainRuleIsExact
  <2> SUFFICES ASSUME TypeOK, Compared, Sweeping, phase = "done", NEW i \in Records
               PROVE  Verified(entries[i]) <=>
                        \A j \in Chain(i) \intersect Records : Entry(pack, j).reasons = {}
    BY DEF ChainRuleIsExact
  <2>1. ~Verified(entries[i]) =>
          \E j \in Chain(i) \intersect Records : Entry(pack, j).reasons # {}
    BY DEF Sweeping
  <2>2. ASSUME Verified(entries[i]), NEW j \in Chain(i) \intersect Records
        PROVE  Entry(pack, j).reasons = {}
    <3> DEFINE S == {k \in DOMAIN entries : k \in Records => Verified(entries[k])}
    <3>1. i \in S /\ S \in SUBSET DOMAIN entries
      BY <2>2 DEF Records
    <3>2. ASSUME NEW k \in S \intersect Records
          PROVE  entries[k].original \in S \union {Absent}
      <4>1. UpVerified(k) /\ Verified(entries[k])
        BY DEF Sweeping
      <4>2. entries[k].original \in DOMAIN entries \union {Absent}
        BY DEF TypeOK
      <4>3. QED
        BY <4>1, <4>2 DEF UpVerified, Up, Records
    <3>3. Grounded(S)
      BY <3>2 DEF Grounded
    <3>4. Chain(i) \subseteq S
      BY <3>1, <3>3, AlongTheChain DEF Records
    <3>5. Verified(entries[j])
      BY <3>4
    <3>6. QED
      BY <3>5, VerifiedEntry, VerifiedIs DEF Records
  <2>3. QED
    BY <2>1, <2>2
<1>2. QED
  BY <1>1, TypeCorrect, VerdictsAreCompared, SweepsReach, PTL

\* A comparison without a reason is of two mandates under one issuer key, with
\* nothing in either left undisclosed.
LEMMA OneKeyAllDisclosed ==
  ASSUME NEW o, NEW r, Evaluate(o, r) = {}
  PROVE  o.key = r.key /\ o.hidden = 0 /\ r.hidden = 0
<1>1. KeyReasons(o, r) = {}
  BY DEF Evaluate
<1>2. o.key = r.key
  BY <1>1 DEF KeyReasons
<1>3. o.hidden = 0 /\ r.hidden = 0
  BY DEF Evaluate
<1>4. QED
  BY <1>2, <1>3

\* `met` speaks for every mandate of every chain, however long, to the root.
THEOREM MetSpeaksForTheRoot == Spec => []MetReachesTheRoot
<1>1. TypeOK /\ Compared /\ Sweeping => MetReachesTheRoot
  <2> SUFFICES ASSUME TypeOK, Compared, Sweeping, phase = "done", met
               PROVE  /\ pack.valid /\ Records # {}
                      /\ \A i \in Records : \A j \in Chain(i) :
                           pack.arts[j].key = pack.arts[i].key /\ pack.arts[j].hidden = 0
    BY DEF MetReachesTheRoot
  <2>1. Records # {} /\ \A i \in Records : Verified(entries[i])
    BY DEF Sweeping
  <2>2. pack.valid
    BY <2>1, VerifiedEntry
  <2>3. ASSUME NEW k \in Records
        PROVE  /\ entries[k].original \in DOMAIN entries \union {Absent}
               /\ pack.arts[entries[k].original].key = pack.arts[k].key
               /\ pack.arts[entries[k].original].hidden = 0 /\ pack.arts[k].hidden = 0
    <3>1. Evaluate(pack.arts[entries[k].original], pack.arts[k]) = {}
      BY <2>1, VerifiedEntry
    <3>2. entries[k].original \in DOMAIN entries \union {Absent}
      BY DEF TypeOK
    <3>3. QED
      BY <3>1, <3>2, OneKeyAllDisclosed
  <2>4. ASSUME NEW i \in Records, NEW j \in Chain(i)
        PROVE  pack.arts[j].key = pack.arts[i].key /\ pack.arts[j].hidden = 0
    <3> DEFINE S == {k \in DOMAIN entries : pack.arts[k].key = pack.arts[i].key
                                             /\ pack.arts[k].hidden = 0}
    <3>1. i \in S /\ S \in SUBSET DOMAIN entries
      BY <2>3 DEF Records
    <3>2. Grounded(S)
      BY <2>3 DEF Grounded
    <3>3. Chain(i) \subseteq S
      BY <3>1, <3>2, AlongTheChain DEF Records
    <3>4. QED
      BY <3>3
  <2>5. QED
    BY <2>1, <2>2, <2>4
<1>2. QED
  BY <1>1, TypeCorrect, VerdictsAreCompared, SweepsReach, PTL
=============================================================================
