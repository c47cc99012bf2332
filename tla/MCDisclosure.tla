---------------------------- MODULE MCDisclosure ----------------------------
(***************************************************************************)
(* Model checking module Disclosure against module Expansion, over           *)
(* presentations of at most three disclosures that nest in one another, and  *)
(* tokens no issuer would write.                                             *)
(***************************************************************************)
EXTENDS Expansion, FiniteSets

-----------------------------------------------------------------------------
(* The presentations.  A disclosure holds digests of later ones only: its    *)
(* own digest is a hash of what it holds.                                    *)
A == Leaf("a")
Member(k, v) == [k |-> k, v |-> v]
P(d) == Placeholder(d)

Kinds == {[form |-> "object", name |-> "x"], [form |-> "object", name |-> "a"],
          [form |-> "array", name |-> "x"]}
Odd == {[form |-> "malformed", name |-> "x"], [form |-> "object", name |-> Mistyped],
        [form |-> "object", name |-> "_sd"], [form |-> "object", name |-> "..."]}
Discloses(d, kind, v) ==
  [digest |-> d, form |-> kind.form, name |-> kind.name, value |-> v]

Firsts == {Leaf("d1"), Object(<<>>, <<"d2">>), Object(<<Member("a", A)>>, <<"d2", "d3">>),
           List(<<P("d2")>>), List(<<P("d3"), A, P("d2")>>), P("d2")}
Seconds == {Leaf("d2"), Object(<<>>, <<"d3">>), List(<<List(<<List(<<P("d3")>>)>>)>>)}

Payloads ==
  {Object(m, sd) :
     m \in {<<>>, <<Member("a", A)>>, <<Member("b", List(<<P("d1"), A>>))>>,
            <<Member("b", List(<<P("d1"), P("d2")>>)), Member("a", Object(<<>>, <<"d3">>))>>},
     sd \in {<<>>, <<"d1">>, <<"d1", "d2">>, <<"d2", "d1">>, <<"d3", "d1">>, <<"d1", "d1">>, <<"d4">>}}
OddPayloads ==
  {Object(<<Member("a", A)>>, NotAList), Object(<<Member("b", List(<<P(Mistyped)>>))>>, <<>>),
   Object(<<Member("b", P("d1")), Member("a", A)>>, <<"d1">>),
   Object(<<Member("b", List(<<Object(<<>>, NotAList)>>))>>, <<"d1">>)}

Token(payload, issued, shown, alg) ==
  [payload |-> payload, issued |-> issued, sd_alg |-> alg,
   disclosures |-> SelectSeq(issued, LAMBDA d : d.digest \in shown)]

Three == <<Discloses("d1", [form |-> "object", name |-> "x"], Leaf("d1")),
           Discloses("d2", [form |-> "object", name |-> "y"], Leaf("d2")),
           Discloses("d3", [form |-> "object", name |-> "z"], Leaf("d3"))>>

Singles == {<<Discloses("d1", k, v)>> : k \in Odd \union Kinds, v \in {Leaf("d1"), P("d4")}}

FlatPresentations ==
  {t \in {Token(p, issued, s, alg) :
             p \in Payloads \union OddPayloads, issued \in Singles \union {Three},
             s \in SUBSET {"d1", "d2", "d3"}, alg \in {"absent", "sha-256", "other"}} :
     t.issued \in Singles => t.disclosures = t.issued /\ t.sd_alg = "sha-256"}

NestedPresentations ==
  {Token(p, <<Discloses("d1", k1, v1), Discloses("d2", k2, v2),
              Discloses("d3", k3, Leaf("d3"))>>, s, "absent") :
     p \in Payloads, k1 \in Kinds, v1 \in Firsts, v2 \in Seconds,
     k2 \in {[form |-> "object", name |-> "x"], [form |-> "array", name |-> "x"]},
     k3 \in {[form |-> "object", name |-> "x"], [form |-> "array", name |-> "x"]},
     s \in {{"d1"}, {"d1", "d2"}, {"d1", "d3"}, {"d1", "d2", "d3"}}}

AllPresentations ==
  FlatPresentations \union NestedPresentations
  \union {[Token(p, Three, {"d1"}, "absent") EXCEPT !.disclosures = Three \o <<Three[1]>>] :
            p \in Payloads}
=============================================================================
