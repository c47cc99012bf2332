----------------------------- MODULE MCRestriction -----------------------------
(***************************************************************************)
(* The packs and closed mandates of the runs of RestrictionChain.           *)
(***************************************************************************)
EXTENDS RestrictionChain, TLC

UpTo2(S) == {{}} \union {{x, y} : x \in S, y \in S}

None == [k \in {} |-> 0]

Mandate(id, refs) ==
  [readable |-> TRUE, jwt |-> id, hidden |-> 0, key |-> 1, disclosable |-> FALSE,
   form |-> "delegate_payload", vct |-> "payment", top |-> None, claims |-> None,
   constraints |-> {}, misplaced |-> FALSE, refs |-> refs]
Ref(id) == [wellformed |-> TRUE, jwt |-> id, plain |-> TRUE]
O == Mandate(1, <<>>)
R == Mandate(2, <<Ref(1)>>)

PackOf(arts) == [admitted |-> TRUE, valid |-> TRUE, notrun |-> FALSE, arts |-> arts]

-----------------------------------------------------------------------------
(* Constraints: for each type narrower, wider, incomparable and ill-formed. *)
Range(cur, top) == [type |-> "amount_range", currency |-> cur, max |-> top]
RangeFrom(cur, top, low) == Range(cur, top) @@ [min |-> low]
Budget(cur, top) == [type |-> "budget", currency |-> cur, max |-> top]
Recur(f) == [type |-> "agent_recurrence", frequency |-> f]
RecurUpTo(f, n) == Recur(f) @@ [max_occurrences |-> n]
Allowed(list) == [type |-> "allowed_payees", allowed |-> list]
Dates(f) == [type |-> "execution_date"] @@ f
Day(form, n) == [form |-> form, at |-> n]
Reference(id) == [type |-> "reference", conditional_transaction_id |-> id]
Items(list) == [type |-> "line_items", items |-> list]
Item(id, n, acceptable) == [id |-> id, quantity |-> n, acceptable_items |-> acceptable]
Named(c) == c @@ [x |-> 1]   \* with a name outside the schema
Other(n) == [type |-> "com.example", x |-> n]

Families ==
  {{Range("USD", 1), Range("USD", 2), RangeFrom("USD", 2, 1), RangeFrom("USD", 2, 2),
    Range("EUR", 1), Named(Range("USD", 2)), Range("USD", Mistyped), Other(1)},
   {Budget("USD", 1), Budget("USD", 2), Budget("EUR", 1), Named(Budget("USD", 1)),
    [type |-> "budget", max |-> 1], [max |-> 1], [type |-> Mistyped]},
   {Recur(0), Recur(1), RecurUpTo(1, 1), RecurUpTo(1, 2), RecurUpTo(0, 2),
    Recur(Mistyped), Named(Recur(0)), Budget("USD", 1)},
   {Allowed(<<>>), Allowed(<<"a">>), Allowed(<<"a", "b">>), Allowed(<<"b", "a">>),
    Allowed(Mistyped), Named(Allowed(<<"a">>)), Other(1), Other(2)},
   {Dates(None), Dates([not_before |-> Day("date", 1)]),
    Dates([not_before |-> Day("date", 2)]), Dates([not_after |-> Day("date", 1)]),
    Dates([not_after |-> Day("date", 2), not_before |-> Day("date", 1)]),
    Dates([not_before |-> Day("datetime", 2)]), Dates([not_before |-> Day("other", 2)])},
   {Reference("a"), Reference("b"), Named(Reference("a")),
    Items(<<Item("i", 1, <<"a">>)>>), Items(<<Item("i", 1, <<"b", "a">>)>>),
    Items(<<Item("i", 1, <<>>)>>), Items(<<Item("i", 2, <<"a">>)>>),
    Items(<<Item("i", 1, <<"a">>), Item("j", 1, <<>>)>>),
    Items(<<Item("i", 0, <<"a">>)>>), Items(<<Named(Item("i", 1, <<"a">>))>>)}}

TermPacks ==
  {PackOf(<<[R EXCEPT !.constraints = p[1]], [O EXCEPT !.constraints = p[2]]>>) :
     p \in UNION {UpTo2(U) \X UpTo2(U) : U \in Families}}

IllFormed == {c \in UNION Families : Shape(c) # "ok"}

\* A closed mandate within everything, and what differs from it in one respect.
Plain ==
  [time |-> 1, amount |-> 1, currency |-> "USD", spent |-> 1, gap |-> 1, uses |-> 1,
   party |-> [t \in AllowedTypes |-> "a"], ref |-> "a",
   day |-> [date |-> 2, datetime |-> 2, other |-> 2],
   basket |-> <<[id |-> "i", quantity |-> 1, product |-> "a"]>>,
   carries |-> None, opaque |-> IllFormed]

TermMandates ==
  {[Plain EXCEPT !.opaque = {}]}
        \union {[Plain EXCEPT !.amount = n, !.spent = n, !.currency = c] :
           n \in 0..3, c \in {"USD", "EUR"}}
        \union {[Plain EXCEPT !.gap = g, !.uses = u] : g \in 0..1, u \in 1..3}
        \union {[Plain EXCEPT !.party = [t \in AllowedTypes |-> p]] : p \in {"b", "c"}}
        \union {[Plain EXCEPT !.ref = "b"]}
        \union {[Plain EXCEPT !.day = [date |-> d, datetime |-> t, other |-> t]] :
                  d \in 0..3, t \in {1, 3}}
        \union {[Plain EXCEPT !.basket = b] :
                  b \in {<<>>, <<[id |-> "i", quantity |-> 2, product |-> "a"]>>,
                         <<[id |-> "i", quantity |-> 1, product |-> "b"]>>,
                         <<[id |-> "i", quantity |-> 1, product |-> "c"]>>,
                         <<[id |-> "i", quantity |-> 1, product |-> "a"],
                           [id |-> "j", quantity |-> 1, product |-> "c"]>>}}

-----------------------------------------------------------------------------
(* Claims: each name with any value on either side, at either place.       *)
Values(k) ==
  IF k \in {"exp", "nbf", "iat"} THEN {1, 2, Mistyped} ELSE {"a", "b"}
Claim(k) == {None} \union {[j \in {k} |-> v] : v \in Values(k)}
ClaimNames == {"exp", "nbf", "iat", "cnf", "iss", "payee", "x"}

\* The claims of `payload` are all in the content.
Sides(k) ==
  {[form |-> "payload", top |-> None, claims |-> c] : c \in Claim(k)}
  \union {[form |-> "delegate_payload", top |-> t, claims |-> c] :
            t \in Claim(k), c \in Claim(k)}

With(a, v, side) ==
  [a EXCEPT !.vct = v, !.form = side.form, !.top = side.top, !.claims = side.claims]

ClaimPacks ==
  {PackOf(<<With(O, v, p[1]), With(R, w, p[2])>>) :
     v \in {"payment", "checkout", "other"}, w \in {"payment", "other"},
     p \in UNION {Sides(k) \X Sides(k) : k \in ClaimNames}}
  \union {PackOf(<<[O EXCEPT !.constraints = c], [R EXCEPT !.form = f]>>) :
            c \in {NotAList, {}}, f \in {"payload", "delegate_payload", "none"}}

ClaimMandates ==
  {[Plain EXCEPT !.time = t, !.carries = [k \in {"cnf", "iss", "payee", "x"} |-> v]] :
     t \in 0..3, v \in {"a", "b"}} \union {Plain}

-----------------------------------------------------------------------------
(* Chains of three records on a root and other presentations of a mandate,  *)
(* in any pack order, one or two of them flawed in any way.                 *)
Flawed(a) ==
  {a, [a EXCEPT !.hidden = 1], [a EXCEPT !.key = 2], [a EXCEPT !.disclosable = TRUE],
   [a EXCEPT !.misplaced = TRUE], [a EXCEPT !.constraints = {Range("USD", 1)}]}
  \union IF a.refs = <<>> THEN {[a EXCEPT !.form = "none"]}
         ELSE {[a EXCEPT !.refs[1].wellformed = FALSE], [a EXCEPT !.refs[1].plain = FALSE],
               [a EXCEPT !.refs = <<Ref(1), Ref(1)>>]}

Orders(n) == {p \in [1..n -> 1..n] : \A i, j \in 1..n : p[i] = p[j] => i = j}
Ordered(arts) == {[i \in DOMAIN arts |-> arts[p[i]]] : p \in Orders(Len(arts))}

Second == Mandate(3, <<Ref(2)>>)
Third  == Mandate(4, <<Ref(3)>>)

ChainPacks ==
  LET trees ==
        {<<o, r, Second, Third>> : o \in Flawed(O), r \in Flawed(R)}
        \union {<<O, r, x, Third>> : r \in Flawed(R), x \in Flawed(Second)}
        \union {<<o, p, r, Second>> : o \in Flawed(O), p \in Flawed(O), r \in {R}}
        \union {<<r, x>> : r \in Flawed(R), x \in Flawed(Second)}
        \union {<<O, R, x>> : x \in Flawed(Second)}
  IN {PackOf(arts) : arts \in UNION {Ordered(t) : t \in trees}}
     \union {[PackOf(arts) EXCEPT !.valid = v, !.admitted = d, !.notrun = n] :
               arts \in {<<>>, <<O>>, <<R, O>>, <<[O EXCEPT !.readable = FALSE], R>>},
               v \in {FALSE}, d \in BOOLEAN, n \in BOOLEAN}
     \union {[PackOf(arts) EXCEPT !.notrun = n] : arts \in {<<>>, <<O>>, <<R, O>>},
               n \in BOOLEAN}

AllPacks    == {TermPacks, ClaimPacks, ChainPacks}
TermsOnly   == {TermPacks}
AllMandates == TermMandates \union ClaimMandates
=============================================================================
