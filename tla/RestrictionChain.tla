--------------------------- MODULE RestrictionChain ---------------------------
(***************************************************************************)
(* One run of `ap2-evidence restriction` (_verify_restrictions): the pack   *)
(* is verified, every restriction record in it is compared with the mandate *)
(* it names, in pack order, and the entries are swept until no verified one *)
(* rests on one that is not.                                                *)
(*                                                                          *)
(* A pack is what its bytes make true.  An artifact is the issuer JWT it    *)
(* presents (its hash), the snapshotted key, the digests it leaves          *)
(* undisclosed, and the mandate it resolves to: the form, the claims beside *)
(* the Mandate Content and in it, the constraints and, apart from those,    *)
(* the references of this profile's type.                                   *)
(***************************************************************************)
EXTENDS Restriction

CONSTANTS
  PackSets,         \* sets of the packs a run may be given
  Closed,           \* the closed mandates a verdict is about
  WildcardItems,    \* an empty `acceptable_items` admits anything (the SDK)
  ReuseByDefault    \* a mandate without a recurrence may be reused

\* A pack is valid only with every artifact readable, and the references are
\* elements of the `constraints` list.
ASSUME PacksAssumption ==
  \A S \in PackSets : \A pk \in S :
    /\ pk.admitted \in BOOLEAN /\ pk.valid \in BOOLEAN /\ pk.notrun \in BOOLEAN
    /\ pk.arts \in Seq({pk.arts[i] : i \in DOMAIN pk.arts})
    /\ pk.valid => pk.admitted
    /\ \A i \in DOMAIN pk.arts :
         LET a == pk.arts[i]
         IN /\ pk.valid => a.readable
            /\ a.hidden \in Nat
            /\ a.refs \in Seq([wellformed : BOOLEAN, jwt : Nat, plain : BOOLEAN])
            /\ a.refs # <<>> => a.constraints # NotAList

ASSUME ClosedAssumption ==
  \A m \in Closed :
    /\ m.time \in Int /\ m.amount \in Int /\ m.spent \in Int
    /\ m.gap \in Int /\ m.uses \in Int
    /\ m.day \in [{"date", "datetime", "other"} -> Int]

\* An entry that a sweep has lowered is not the absence of one.
ASSUME AbsentAssumption ==
  Absent \notin [original : Nat, reasons : {{No("not_evaluated", "original_not_verified")}}]

VARIABLES
  pack,     \* the run's input
  phase,    \* where the run is
  at,       \* the artifact the loop is at
  entries,  \* the receipt's entry for each artifact that is a record
  changed,  \* this sweep lowered an entry
  met,      \* the receipt's verdict
  exit      \* the exit code of a receipt that is written; 256 until then

vars == <<pack, phase, at, entries, changed, met, exit>>

-----------------------------------------------------------------------------
(* Records, originals, entries.                                            *)

IsRecord(a) == a.readable /\ (a.misplaced \/ a.refs # <<>>)

\* Step 2: the reference itself.
Malformation(a) ==
  IF a.misplaced THEN {No("contradicted", "restricts_misplaced")}
  ELSE IF Len(a.refs) # 1 \/ ~a.refs[1].wellformed
    THEN {No("contradicted", "restricts_malformed")}
  ELSE IF ~a.refs[1].plain THEN {No("contradicted", "restricts_disclosable")}
  ELSE {}

\* Step 3: the other presentations of the issuer JWT that R names.
Matches(arts, i) ==
  {j \in DOMAIN arts \ {i} : arts[j].readable /\ arts[j].jwt = arts[i].refs[1].jwt}

\* The fewest undisclosed digests, then pack order.
Original(arts, i) ==
  CHOOSE j \in Matches(arts, i) :
    \A k \in Matches(arts, i) :
      \/ arts[j].hidden < arts[k].hidden
      \/ arts[j].hidden = arts[k].hidden /\ j <= k

Entry(pk, i) ==
  LET r == pk.arts[i]
      entry(o, reasons) == [original |-> o, reasons |-> reasons]
  IN IF ~pk.valid THEN entry(Absent, {No("not_evaluated", "pack_not_valid")})
     ELSE IF Malformation(r) # {} THEN entry(Absent, Malformation(r))
     ELSE IF Matches(pk.arts, i) = {}
       THEN entry(Absent, {No("not_evaluated", "original_not_in_pack")})
     ELSE LET o == Original(pk.arts, i)
          IN entry(o, Evaluate(pk.arts[o], r))

Verified(e) == e # Absent /\ StateOf(e.reasons) = "verified"

\* The entry of the mandate that entry e rests on: by_name of its original.
Up(es, e) == IF e.original = Absent THEN Absent ELSE es[e.original]

-----------------------------------------------------------------------------
(* The run.                                                                *)

Init ==
  /\ \E S \in PackSets : pack \in S
  /\ phase = "verify"
  /\ at = 1
  /\ entries = [i \in DOMAIN pack.arts |-> Absent]
  /\ changed = FALSE
  /\ met = FALSE
  /\ exit = 256

\* A refused pack has no entries.
VerifyPack ==
  /\ phase = "verify"
  /\ phase' = IF pack.admitted THEN "records" ELSE "answer"
  /\ UNCHANGED <<pack, at, entries, changed, met, exit>>

EvaluateRecord ==
  /\ phase = "records" /\ at \in DOMAIN pack.arts
  /\ entries' = [entries EXCEPT ![at] =
                   IF IsRecord(pack.arts[at]) THEN Entry(pack, at) ELSE Absent]
  /\ at' = at + 1
  /\ UNCHANGED <<pack, phase, changed, met, exit>>

RecordsEvaluated ==
  /\ phase = "records" /\ at \notin DOMAIN pack.arts
  /\ phase' = "chain" /\ at' = 1
  /\ UNCHANGED <<pack, entries, changed, met, exit>>

\* Mutant: every record that rests on an unverified one gets the reason.
SweepAnyState ==
  /\ phase = "chain" /\ at \in DOMAIN pack.arts
  /\ LET e == entries[at]
     IN IF e # Absent /\ Up(entries, e) # Absent /\ ~Verified(Up(entries, e))
          THEN /\ entries' = [entries EXCEPT ![at].reasons =
                                @ \union {No("not_evaluated", "original_not_verified")}]
               /\ changed' = (entries' # entries)
          ELSE UNCHANGED <<entries, changed>>
  /\ at' = at + 1
  /\ UNCHANGED <<pack, phase, met, exit>>

\* Mutant: a record that is lowered does not call for another sweep.
SweepShort ==
  /\ phase = "chain" /\ at \in DOMAIN pack.arts
  /\ LET e == entries[at]
     IN IF Verified(e) /\ Up(entries, e) # Absent /\ ~Verified(Up(entries, e))
          THEN /\ entries' = [entries EXCEPT ![at].reasons =
                                @ \union {No("not_evaluated", "original_not_verified")}]
               /\ UNCHANGED changed
          ELSE UNCHANGED <<entries, changed>>
  /\ at' = at + 1
  /\ UNCHANGED <<pack, phase, met, exit>>

\* Step 7 for one entry: R is at most what the mandate it restricts is.
Sweep ==
  /\ phase = "chain" /\ at \in DOMAIN pack.arts
  /\ LET e == entries[at]
     IN IF Verified(e) /\ Up(entries, e) # Absent /\ ~Verified(Up(entries, e))
          THEN /\ entries' = [entries EXCEPT ![at].reasons =
                                @ \union {No("not_evaluated", "original_not_verified")}]
               /\ changed' = TRUE
          ELSE UNCHANGED <<entries, changed>>
  /\ at' = at + 1
  /\ UNCHANGED <<pack, phase, met, exit>>

\* Another sweep as long as one lowered an entry.
Swept ==
  /\ phase = "chain" /\ at \notin DOMAIN pack.arts
  /\ phase' = IF changed THEN "chain" ELSE "answer"
  /\ changed' = FALSE
  /\ at' = 1
  /\ UNCHANGED <<pack, entries, met, exit>>

Records == {i \in DOMAIN entries : entries[i] # Absent}

\* `met`, and the exit code of a receipt that reaches stdout.
Answer ==
  /\ phase = "answer"
  /\ met' = (pack.admitted /\ Records # {} /\ \A i \in Records : Verified(entries[i]))
  /\ exit' = IF pack.notrun THEN 74 ELSE IF met' THEN 0 ELSE 1
  /\ phase' = "done"
  /\ UNCHANGED <<pack, at, entries, changed>>

Next == \/ VerifyPack \/ EvaluateRecord \/ RecordsEvaluated
        \/ Sweep \/ Swept \/ Answer

Spec == Init /\ [][Next]_vars

\* Nothing in the run waits for anybody.
FairSpec == Spec /\ WF_vars(Next)

-----------------------------------------------------------------------------
(* What a mandate means (AP2's conjunctive evaluation).                     *)

\* A closed mandate is presented at a time, for an amount, having spent this
\* much, so long after the previous use and as this use, to these parties, on a
\* day (in each form), for a reference and a basket that serves each item of the
\* mandate; it carries values for the other claims, and meets some constraints
\* whose meaning this profile does not know.
Until(v, m) == v \in Int /\ m.time <= v
From(v, m)  == v \in Int /\ m.time >= v

MeetsClaim(rule, k, v, m) ==
  CASE rule = "until" -> Until(v, m)
    [] rule = "from"  -> From(v, m)
    [] rule = "typed" -> TRUE
    [] OTHER -> k \in DOMAIN m.carries /\ m.carries[k] = v

MeetsItem(item, line) ==
  /\ line.id = item.id /\ line.quantity = item.quantity
  /\ \/ line.product \in Elements(item.acceptable_items)
     \/ item.acceptable_items = <<>> /\ WildcardItems

MeetsTerms(c, m) ==
  CASE c.type = "amount_range" ->
         /\ m.currency = c.currency /\ m.amount <= c.max
         /\ "min" \in DOMAIN c => m.amount >= c.min
    [] c.type = "budget" -> m.currency = c.currency /\ m.spent <= c.max
    [] c.type = "agent_recurrence" ->
         /\ m.gap >= c.frequency
         /\ "max_occurrences" \in DOMAIN c => m.uses <= c.max_occurrences
    [] c.type \in AllowedTypes -> m.party[c.type] \in Elements(c.allowed)
    [] c.type = "reference" -> m.ref = c.conditional_transaction_id
    [] c.type = "line_items" ->
         /\ DOMAIN m.basket = DOMAIN c.items
         /\ \A i \in DOMAIN c.items : MeetsItem(c.items[i], m.basket[i])
    [] c.type = "execution_date" ->
         /\ "not_before" \in DOMAIN c =>
              IF c.not_before.form = "other" THEN m.day["other"] = c.not_before.at
              ELSE m.day[c.not_before.form] >= c.not_before.at
         /\ "not_after" \in DOMAIN c =>
              IF c.not_after.form = "other" THEN m.day["other"] = c.not_after.at
              ELSE m.day[c.not_after.form] <= c.not_after.at

\* A constraint that is not well-formed is met by whatever meets it.
MeetsConstraint(c, m) == IF Shape(c) = "ok" THEN MeetsTerms(c, m) ELSE c \in m.opaque

MeetsReuse(constraints, m) ==
  (\A c \in constraints : TypeOf(c) # "agent_recurrence") =>
    ReuseByDefault \/ m.uses <= 1

MeetsClaims(a, m) ==
  /\ a.form # "payload" =>
       \A k \in DOMAIN a.top : MeetsClaim(TopRule(k), k, a.top[k], m)
  /\ \A k \in DOMAIN a.claims :
       MeetsClaim(ContentRule(a.form, a.vct, k), k, a.claims[k], m)

Admits(a, m) ==
  /\ MeetsClaims(a, m)
  /\ MeetsReuse(a.constraints, m)
  /\ \A c \in a.constraints : MeetsConstraint(c, m)

-----------------------------------------------------------------------------
(* Properties.                                                             *)

\* Every variable keeps its shape; an entry is of a record, never of itself.
TypeOK ==
  /\ phase \in {"verify", "records", "chain", "answer", "done"}
  /\ at \in 1..(Len(pack.arts) + 1)
  /\ DOMAIN entries = DOMAIN pack.arts
  /\ \A i \in Records :
       /\ IsRecord(pack.arts[i])
       /\ entries[i].original \in (DOMAIN pack.arts \ {i}) \union {Absent}
  /\ changed \in BOOLEAN /\ met \in BOOLEAN /\ exit \in {0, 1, 74, 256}
  /\ exit = 0 => met

\* The requirement c of O has a neighbour of its type, copied into R, with a
\* name outside the schema: the comparison then does not look for c in R.
Shadowed(c, oc, rc) ==
  \E x \in oc \intersect rc : TypeOf(x) = c.type /\ Shape(x) = "unknown_name"

\* A verified record admits no closed mandate that its original does not: every
\* claim, the reuse and every constraint that is not shadowed is met, whatever
\* the constraints and claims this profile does not know mean.
VerifiedIsNarrower ==
  \A i \in Records :
    Verified(entries[i]) =>
      LET o == pack.arts[entries[i].original]
          r == pack.arts[i]
      IN \A m \in Closed :
           Admits(r, m) =>
             /\ MeetsClaims(o, m)
             /\ MeetsReuse(o.constraints, m)
             /\ \A c \in o.constraints :
                  MeetsConstraint(c, m) \/ Shadowed(c, o.constraints, r.constraints)

\* SPEC 11.2 and 11.5: "a record is NEVER `verified` when it is broader than O".
NeverBroader ==
  \A i \in Records :
    Verified(entries[i]) =>
      \A m \in Closed :
        Admits(pack.arts[i], m) => Admits(pack.arts[entries[i].original], m)

\* A set of mandates in which every record's original is there too.
Grounded(S) == \A j \in S \intersect Records : entries[j].original \in S \union {Absent}

\* Record i and the mandates it rests on, up to the root: what any set that
\* holds i and is grounded must hold.
Chain(i) == {j \in DOMAIN entries :
               \A S \in SUBSET DOMAIN entries : i \in S /\ Grounded(S) => j \in S}

\* When the command answers `met`, one issuer key signed every mandate of every
\* chain, down to the root, and nothing in any of them is left undisclosed.
MetReachesTheRoot ==
  phase = "done" /\ met =>
    /\ pack.valid /\ Records # {}
    /\ \A i \in Records : \A j \in Chain(i) :
         pack.arts[j].key = pack.arts[i].key /\ pack.arts[j].hidden = 0

\* The sweeps lower exactly the records that rest on one that is not verified.
ChainRuleIsExact ==
  phase = "done" /\ pack.valid =>
    \A i \in Records :
      Verified(entries[i]) <=>
        \A j \in Chain(i) \intersect Records : Entry(pack, j).reasons = {}

\* A step never improves an entry, and never adds to one that is not verified.
EntriesOnlyWorsen ==
  [][\A i \in Records :
       entries'[i] # entries[i] =>
         /\ Verified(entries[i]) /\ ~Verified(entries'[i])
         /\ entries'[i].original = entries[i].original]_vars

\* The sweeps end: every run answers.
Answers == <>(phase = "done")
=============================================================================
