----------------------------- MODULE Disclosure -----------------------------
(***************************************************************************)
(* resolve_disclosures: the digests of an SD-JWT payload replaced by what   *)
(* the presented disclosures say, on a stack of generators that the code    *)
(* keeps itself.  A node is a leaf, an object (its members in order and the *)
(* digests of its `_sd`) or a list whose items may be placeholders          *)
(* {"...": digest}.  A digest stands for the disclosure that hashes to it.  *)
(***************************************************************************)
EXTENDS Integers, Sequences

CONSTANTS
  Presentations,   \* what a token may carry
  Nodes,           \* the JSON that it carries
  MAX_JSON_DEPTH,  \* 512 in the code
  Nothing,         \* Python's None
  Mistyped,        \* a name or a digest that is no string
  NotAList         \* an `_sd` that is no list of strings


VARIABLES
  token,        \* the presentation: payload, disclosures and `_sd_alg`
  by_digest,    \* the disclosures by their digest
  stack,        \* the suspended walks, the innermost last
  value,        \* what the last walk returned, alone, until its parent takes it
  seen, encountered, used,
  phase

vars == <<token, by_digest, stack, value, seen, encountered, used, phase>>

Leaf(v) == [t |-> "leaf", v |-> v]
Object(members, sd) == [t |-> "object", members |-> members, sd |-> sd]
List(items) == [t |-> "list", items |-> items]
Placeholder(d) == [t |-> "placeholder", digest |-> d]

\* A placeholder is one only as an item of a list: elsewhere it is an object.
Plain(n) ==
  IF n.t = "placeholder" THEN Object(<<[k |-> "...", v |-> Leaf(n.digest)]>>, <<>>) ELSE n

ASSUME DepthAssumption == MAX_JSON_DEPTH \in Nat

\* Nodes is whole: with a container it holds what is in it.  The strict reader
\* has refused an object that names a member twice, and a digest is what a JSON
\* text held, never None.
ASSUME NodesAssumption ==
  /\ Nothing \notin Nodes
  /\ \A n \in Nodes :
       /\ n.t \in {"leaf", "list", "object", "placeholder"}
       /\ n.t = "placeholder" => n.digest # Nothing /\ Leaf(n.digest) \in Nodes
       /\ n.t = "list" =>
            /\ Len(n.items) \in Nat /\ DOMAIN n.items = 1..Len(n.items)
            /\ \A i \in 1..Len(n.items) : n.items[i] \in Nodes
       /\ n.t = "object" =>
            /\ Len(n.members) \in Nat /\ DOMAIN n.members = 1..Len(n.members)
            /\ \A i \in 1..Len(n.members) : n.members[i].v \in Nodes
            /\ \A i, j \in 1..Len(n.members) : n.members[i].k = n.members[j].k => i = j
            /\ n.sd # NotAList =>
                 /\ Len(n.sd) \in Nat /\ DOMAIN n.sd = 1..Len(n.sd)
                 /\ \A i \in 1..Len(n.sd) : n.sd[i] # Nothing
  /\ {p.payload : p \in Presentations} \subseteq {n \in Nodes : n.t # "placeholder"}
  /\ UNION {{p.disclosures[i].value :
               i \in {j \in DOMAIN p.disclosures : p.disclosures[j].form # "malformed"}} :
             p \in Presentations} \subseteq Nodes

\* A digest of another type, null say, is one: None says that none is met.
ASSUME MistypedAssumption == Mistyped # Nothing

\* walk(n, depth), not started; at is its place among its children.
Walk(n, depth) == [node |-> Plain(n), depth |-> depth, at |-> 1, out |-> <<>>]

DisclosedDepth(f) == f.depth + 1

Top == stack[Len(stack)]
Below == SubSeq(stack, 1, Len(stack) - 1)
Returned == value[1]

Put(out, k, v) == [x \in DOMAIN out \union {k} |-> IF x = k THEN v ELSE out[x]]

\* f is about to meet a digest.
Asks(f) ==
  \/ /\ f.node.t = "object" /\ f.at > Len(f.node.members)
     /\ f.node.sd # NotAList /\ f.at - Len(f.node.members) <= Len(f.node.sd)
  \/ /\ f.node.t = "list" /\ f.at <= Len(f.node.items)
     /\ f.node.items[f.at].t = "placeholder"

\* That digest.
Digest(f) ==
  IF ~Asks(f) THEN Nothing
  ELSE IF f.node.t = "list" THEN f.node.items[f.at].digest
  ELSE f.node.sd[f.at - Len(f.node.members)]

\* The member, or the item, that f walks next.
Child(f) ==
  CASE f.node.t = "object" /\ ~(f.at > Len(f.node.members)) -> f.node.members[f.at].v
    [] f.node.t = "list" /\ f.at <= Len(f.node.items) /\ Digest(f) = Nothing -> f.node.items[f.at]
    [] OTHER -> Nothing

\* A digest that cannot stand where it is met.
Misplaced(f) ==
  LET d == Digest(f)
  IN /\ d # Nothing
     /\ \/ d = Mistyped \/ d \in seen
        \/ d \in DOMAIN by_digest /\
             IF f.node.t = "list" THEN by_digest[d].form # "array"
             ELSE \/ by_digest[d].form # "object"
                  \/ by_digest[d].name \in {Mistyped, "_sd", "..."}
                  \/ by_digest[d].name \in DOMAIN f.out

TooDeep(f) == f.node.t # "leaf" /\ f.depth > MAX_JSON_DEPTH

Unlisted(f) ==
  f.node.t = "object" /\ f.at > Len(f.node.members) /\ f.node.sd = NotAList

Refused(f) == TooDeep(f) \/ Unlisted(f) \/ Misplaced(f)

\* What f's walk returns.
Result(f) ==
  CASE f.node.t = "leaf" -> f.node
    [] f.node.t = "list" -> List(f.out)
    [] OTHER -> [t |-> "object", members |-> f.out]

-----------------------------------------------------------------------------
Init ==
  /\ token \in Presentations
  /\ by_digest = <<>> /\ stack = <<>> /\ value = <<>>
  /\ seen = {} /\ encountered = <<>> /\ used = {} /\ phase = "index"

Indexes == DOMAIN token.disclosures

\* The table of disclosures, unless one is malformed or comes twice.
Index ==
  /\ phase = "index"
  /\ IF \/ token.sd_alg \notin {"absent", "sha-256"}
        \/ \E i \in Indexes : token.disclosures[i].form = "malformed"
        \/ \E i, j \in Indexes :
             i # j /\ token.disclosures[i].digest = token.disclosures[j].digest
       THEN phase' = "refused" /\ UNCHANGED <<by_digest, stack>>
       ELSE /\ by_digest' =
                 [d \in {token.disclosures[i].digest : i \in Indexes} |->
                    token.disclosures[CHOOSE i \in Indexes : token.disclosures[i].digest = d]]
            /\ stack' = <<Walk(token.payload, 1)>>
            /\ phase' = "walk"
  /\ UNCHANGED <<token, value, seen, encountered, used>>

\* The innermost walk is to go on.
Walking == phase = "walk" /\ value = <<>> /\ stack # <<>>

Refuse ==
  /\ Walking /\ Refused(Top)
  /\ phase' = "refused"
  /\ UNCHANGED <<token, by_digest, stack, value, seen, encountered, used>>

\* It hands a child to run(), which starts a walk of it.
YieldChild ==
  /\ Walking /\ ~Refused(Top) /\ Child(Top) # Nothing
  /\ stack' = Append(stack, Walk(Child(Top), Top.depth + 1))
  /\ UNCHANGED <<token, by_digest, value, seen, encountered, used, phase>>

Meet(d) == seen' = seen \union {d} /\ encountered' = Append(encountered, d)

\* It meets a digest, and hands over what that discloses.
YieldDisclosed ==
  /\ Walking /\ ~Refused(Top)
  /\ Digest(Top) # Nothing /\ Digest(Top) \in DOMAIN by_digest
  /\ Meet(Digest(Top))
  /\ stack' = Append(stack, Walk(by_digest[Digest(Top)].value, DisclosedDepth(Top)))
  /\ UNCHANGED <<token, by_digest, value, used, phase>>

Advanced == [Top EXCEPT !.at = @ + 1]

\* Mutant: an undisclosed item of a list stays in it.
SkipKept ==
  /\ Walking /\ ~Refused(Top)
  /\ Digest(Top) # Nothing /\ Digest(Top) \notin DOMAIN by_digest
  /\ Meet(Digest(Top))
  /\ stack' = Append(Below, IF Top.node.t = "list"
                              THEN [Advanced EXCEPT !.out = Append(@, Placeholder(Digest(Top)))]
                              ELSE Advanced)
  /\ UNCHANGED <<token, by_digest, value, used, phase>>

\* It meets a digest that nothing discloses: no claim, no item.
Skip ==
  /\ Walking /\ ~Refused(Top)
  /\ Digest(Top) # Nothing /\ Digest(Top) \notin DOMAIN by_digest
  /\ Meet(Digest(Top))
  /\ stack' = Append(Below, Advanced)
  /\ UNCHANGED <<token, by_digest, value, used, phase>>

\* It is through.
Return ==
  /\ Walking /\ ~Refused(Top) /\ Child(Top) = Nothing /\ Digest(Top) = Nothing
  /\ value' = <<Result(Top)>> /\ stack' = Below
  /\ UNCHANGED <<token, by_digest, seen, encountered, used, phase>>

Key(f) == IF Digest(f) = Nothing THEN f.node.members[f.at].k ELSE by_digest[Digest(f)].name

\* Mutant: an object does not move on.
TakeStill ==
  /\ phase = "walk" /\ value # <<>> /\ stack # <<>>
  /\ stack' = Append(Below,
       IF Top.node.t = "list" THEN [Advanced EXCEPT !.out = Append(@, Returned)]
       ELSE [Top EXCEPT !.out = Put(@, Key(Top), Returned)])
  /\ used' = IF Digest(Top) = Nothing THEN used ELSE used \union {Digest(Top)}
  /\ value' = <<>>
  /\ UNCHANGED <<token, by_digest, seen, encountered, phase>>

\* A walk takes what its child's walk returned.
Take ==
  /\ phase = "walk" /\ value # <<>> /\ stack # <<>>
  /\ stack' = Append(Below,
       IF Top.node.t = "list" THEN [Advanced EXCEPT !.out = Append(@, Returned)]
       ELSE [Advanced EXCEPT !.out = Put(@, Key(Top), Returned)])
  /\ used' = IF Digest(Top) = Nothing THEN used ELSE used \union {Digest(Top)}
  /\ value' = <<>>
  /\ UNCHANGED <<token, by_digest, seen, encountered, phase>>

\* Mutant: disclosures that match no digest are left aside.
FinishUnused ==
  /\ phase = "walk" /\ value # <<>> /\ stack = <<>>
  /\ phase' = "resolved"
  /\ UNCHANGED <<token, by_digest, stack, value, seen, encountered, used>>

\* Disclosures that match no digest refuse the token.
Finish ==
  /\ phase = "walk" /\ value # <<>> /\ stack = <<>>
  /\ phase' = IF DOMAIN by_digest \subseteq used THEN "resolved" ELSE "refused"
  /\ UNCHANGED <<token, by_digest, stack, value, seen, encountered, used>>

Next ==
  Index \/ Refuse \/ YieldChild \/ YieldDisclosed \/ Skip \/ Return \/ Take \/ Finish

Spec == Init /\ [][Next]_vars

\* One process, which nothing interrupts.
FairSpec == Spec /\ WF_vars(Next)

-----------------------------------------------------------------------------
(* Properties.                                                              *)

\* The variables keep their shape; nothing is used that was not met.
TypeOK ==
  /\ phase \in {"index", "walk", "resolved", "refused"}
  /\ DOMAIN by_digest \subseteq {token.disclosures[i].digest : i \in Indexes}
  /\ \A d \in used : d \in seen /\ d \in DOMAIN by_digest
  /\ phase = "resolved" => value # <<>> /\ stack = <<>>

\* The n-th walk on the stack is of a node at depth n of the resolved claims, and
\* the stack never holds more than MAX_JSON_DEPTH + 1 walks (the innermost, of a
\* leaf or about to be refused), however the disclosures nest.
StackIsDepth ==
  /\ Len(stack) <= MAX_JSON_DEPTH + 1
  /\ \A n \in 1..Len(stack) : stack[n].depth = n

\* A digest is met once, and what is met is what the census lists.
MetOnce ==
  /\ \A i, j \in 1..Len(encountered) : encountered[i] = encountered[j] => i = j
  /\ seen = {encountered[i] : i \in 1..Len(encountered)}

\* Every token is resolved or refused.
Ends == <>(phase \in {"resolved", "refused"})
=============================================================================
