------------------------------ MODULE MCRecords ------------------------------
(***************************************************************************)
(* Model checking module Records on the tokens that module Disclosure       *)
(* resolves: what a verifier of the AP2 SDK would read in each presentation  *)
(* that the holder could make of them.                                      *)
(***************************************************************************)
EXTENDS MCDisclosure, Records

-----------------------------------------------------------------------------
(* Tokens with a reference, or terms, at every place.                       *)

Ref == Object(<<Member("type", Leaf(RESTRICTS)), Member("issuer_jwt_hash", Leaf("h"))>>, <<>>)
BadRef == Object(<<Member("type", Leaf(RESTRICTS)), Member("issuer_jwt_hash", Leaf(Mistyped))>>, <<>>)
HalfRef == Object(<<Member("issuer_jwt_hash", Leaf("h"))>>, <<"d1">>)
Term == Object(<<Member("type", Leaf("budget"))>>, <<>>)
Wide == Object(<<Member("type", Leaf("range"))>>, <<>>)

Holding(cons) == <<Member("constraints", List(cons))>>
Lists == {<<>>, <<Ref>>, <<Term>>, <<Term, Ref>>, <<Ref, Ref>>, <<P("d1")>>, <<P("d1"), Term>>,
          <<Ref, P("d1")>>, <<HalfRef>>, <<BadRef>>}
Named == {<<>>, <<"d1">>, <<"d2", "d1">>}
Contained == {Object(m, sd) : m \in {<<>>} \union {Holding(c) : c \in Lists}, sd \in Named}

Delegating ==
  {Member(DELEGATE, dp) :
     dp \in {List(<<c>>) : c \in Contained}
            \union {List(<<P("d1")>>), List(<<P("d1"), P("d2")>>), List(<<>>), Leaf("a")}}

RecordPayloads ==
  Contained
  \union {Object(<<Member(RESTRICTS, Leaf("h"))>> \o Holding(<<Term>>), <<>>)}
  \union {Object(m \o <<d>>, sd) : m \in {<<>>, Holding(<<Wide>>), Holding(<<Ref>>)},
                                   d \in Delegating, sd \in {<<>>, <<"d2">>}}

Property(name, v) == [form |-> "object", name |-> name, value |-> v]
Item(v) == [form |-> "array", name |-> "x", value |-> v]

FirstDisclosures ==
  {Property("constraints", List(c)) : c \in {<<Ref>>, <<Term>>, <<P("d2"), Term>>, <<P("d2"), Ref>>}}
  \union {Property(DELEGATE, List(<<c>>)) :
            c \in {P("d2"), Object(Holding(<<Ref>>), <<>>), Object(Holding(<<Term>>), <<"d2">>)}}
  \union {Property("type", Leaf(RESTRICTS)), Property("x", Leaf("a")), Item(Ref), Item(Term),
          Item(Object(Holding(<<Ref>>), <<>>)), Item(Object(Holding(<<P("d2")>>), <<>>)),
          Item(Object(<<>>, <<"d2">>)),
          Item(Object(<<Member("issuer_jwt_hash", Leaf("h"))>>, <<"d2">>))}
SecondDisclosures ==
  {Property("constraints", List(<<Ref>>)), Property("constraints", List(<<Term>>)),
   Property("type", Leaf(RESTRICTS)), Property("y", Leaf("a")), Item(Ref), Item(Term),
   Property(DELEGATE, List(<<Object(Holding(<<Term>>), <<>>)>>)),
   Item(Object(Holding(<<Term>>), <<>>))}

Digested(d, disclosure) ==
  [digest |-> d, form |-> disclosure.form, name |-> disclosure.name, value |-> disclosure.value]


\* The digests written in a node.
RECURSIVE Written(_)
Written(n) ==
  CASE n.t = "placeholder" -> {n.digest}
    [] n.t = "list" -> UNION {Written(n.items[i]) : i \in DOMAIN n.items}
    [] n.t = "object" -> UNION {Written(n.members[i].v) : i \in DOMAIN n.members} \union ToSet(n.sd)
    [] OTHER -> {}

DisclosureLists ==
  {<<>>} \union {<<Digested("d1", x)>> : x \in FirstDisclosures}
  \union {<<Digested("d2", y)>> : y \in SecondDisclosures}
  \union {<<Digested("d1", x), Digested("d2", y)>> : x \in FirstDisclosures, y \in SecondDisclosures}

\* Every digest that is written has its disclosure, and no other.
Closed(p, ds) ==
  Written(p) \union UNION {Written(ds[i].value) : i \in DOMAIN ds} = {ds[i].digest : i \in DOMAIN ds}

RecordTokens ==
  {t \in {Token(q[1], q[2], {"d1", "d2"}, "absent") :
            q \in {z \in RecordPayloads \X DisclosureLists : Closed(z[1], z[2])}} : TRUE}

\* Every digest of a token has its disclosure: what hides one is not evaluated.
Whole(p) == Resolvable(p) /\ ToSet(Claimed(p).census) = DOMAIN TableOf(p.disclosures)
=============================================================================
