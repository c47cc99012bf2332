------------------------------ MODULE Expansion ------------------------------
(***************************************************************************)
(* What resolve_disclosures is to compute, by recursion on the JSON: the    *)
(* reference that the stack of module Disclosure is compared with.  T maps   *)
(* digests to disclosures.  The recursions are functions, of the containers  *)
(* that a value may still hold, so that the proofs can unfold them.          *)
(***************************************************************************)
EXTENDS Disclosure, SequencesExt

\* `issued` is what the issuer disclosed to the holder of a token.
ASSUME IssuedAssumption ==
  UNION {{p.issued[i].value : i \in {j \in DOMAIN p.issued : p.issued[j].form # "malformed"}} :
         p \in Presentations} \subseteq Nodes

-----------------------------------------------------------------------------
(* The places of a node.                                                    *)

\* A list has its items, an object its members and then its digests.
Places(n) ==
  IF n.t = "list" THEN Len(n.items)
  ELSE IF n.t = "object" THEN Len(n.members) + (IF n.sd = NotAList THEN 0 ELSE Len(n.sd))
  ELSE 0

\* The digest that stands at a place, if one does.
DigestAt(n, i) ==
  IF n.t = "list" THEN IF n.items[i].t = "placeholder" THEN n.items[i].digest ELSE Nothing
  ELSE IF i > Len(n.members) THEN n.sd[i - Len(n.members)] ELSE Nothing

\* A place shows something unless its digest is not disclosed.
Shown(T, n, i) == DigestAt(n, i) # Nothing => DigestAt(n, i) \in DOMAIN T

\* What it shows, and in an object under which name.
Within(T, n, i) ==
  IF DigestAt(n, i) # Nothing THEN T[DigestAt(n, i)].value
  ELSE IF n.t = "list" THEN n.items[i] ELSE n.members[i].v
Name(T, n, i) ==
  IF DigestAt(n, i) # Nothing THEN T[DigestAt(n, i)].name ELSE n.members[i].k

\* A disclosure stands where it may.
Fits(T, n, i) ==
  LET d == DigestAt(n, i)
  IN d # Nothing /\ d \in DOMAIN T =>
       IF n.t = "list" THEN T[d].form = "array"
       ELSE T[d].form = "object" /\ T[d].name \notin {Mistyped, "_sd", "..."}

-----------------------------------------------------------------------------
(* The expansion of a node: its value, the digests in it and in what it      *)
(* discloses, in reading order, and whether they all fit.                    *)

Mark(n, i) == IF DigestAt(n, i) = Nothing THEN <<>> ELSE <<DigestAt(n, i)>>

\* `got` of the places before it, and this one; `of` expands what is in n.
Placed(T, of, n, i, got) ==
  IF ~Shown(T, n, i)
    THEN [fits |-> got.fits /\ DigestAt(n, i) # Mistyped,
          out |-> got.out, census |-> got.census \o Mark(n, i)]
    ELSE LET e == of[Within(T, n, i)]
         IN [fits |-> /\ got.fits /\ e.fits
                      /\ DigestAt(n, i) # Mistyped /\ Fits(T, n, i)
                      /\ n.t = "object" => Name(T, n, i) \notin DOMAIN got.out,
             out |-> IF n.t = "list" THEN Append(got.out, e.value)
                     ELSE Put(got.out, Name(T, n, i), e.value),
             census |-> got.census \o Mark(n, i) \o e.census]

\* The first m places of n.
Gathering(T, of, n) ==
  LET gathering[m \in 0..Places(n)] ==
        IF m = 0 THEN [fits |-> TRUE, out |-> <<>>, census |-> <<>>]
        ELSE Placed(T, of, n, m, gathering[m - 1])
  IN gathering

Unfit == [fits |-> FALSE, value |-> Nothing, census |-> <<>>]

\* A node in which k containers may nest.
Expansion(T, of, k, n) ==
  IF n.t = "leaf" THEN [fits |-> TRUE, value |-> n, census |-> <<>>]
  ELSE IF k = 0 \/ (n.t = "object" /\ n.sd = NotAList) THEN Unfit
  ELSE LET all == Gathering(T, of, n)[Places(n)]
       IN [fits |-> all.fits, census |-> all.census,
           value |-> IF n.t = "list" THEN List(all.out)
                     ELSE [t |-> "object", members |-> all.out]]

Expansions(T) ==
  LET expansions[k \in 0..MAX_JSON_DEPTH] ==
        [n \in Nodes |->
           Expansion(T, IF k = 0 THEN <<>> ELSE expansions[k - 1], k, Plain(n))]
  IN expansions

Expanded(T, n) == Expansions(T)[MAX_JSON_DEPTH][n]

-----------------------------------------------------------------------------
(* Tokens.                                                                  *)

TableOf(ds) ==
  [d \in {ds[i].digest : i \in DOMAIN ds} |->
     ds[CHOOSE i \in DOMAIN ds : ds[i].digest = d]]

\* What a token claims.
Claimed(p) == Expanded(TableOf(p.disclosures), p.payload)

Resolvable(p) ==
  /\ p.sd_alg \in {"absent", "sha-256"}
  /\ \A i \in DOMAIN p.disclosures : p.disclosures[i].form # "malformed"
  /\ \A i, j \in DOMAIN p.disclosures :
       p.disclosures[i].digest = p.disclosures[j].digest => i = j
  /\ Claimed(p).fits
  /\ IsInjective(Claimed(p).census)
  /\ DOMAIN TableOf(p.disclosures) \subseteq ToSet(Claimed(p).census)

\* The token with those disclosures.
Presenting(p, ds) == [payload |-> p.payload, sd_alg |-> p.sd_alg, disclosures |-> ds]

\* The walk resolves exactly the tokens whose digests and disclosures fit, each
\* to the claims that the recursion gives; the census that section 11 counts
\* hidden digests in lists every digest of the payload and of what is disclosed,
\* in reading order, and every disclosure.
ResolvesAsReference ==
  phase \in {"resolved", "refused"} =>
    /\ phase = "resolved" <=> Resolvable(token)
    /\ phase = "resolved" =>
         /\ Returned = Claimed(token).value
         /\ encountered = Claimed(token).census
         /\ used = DOMAIN TableOf(token.disclosures)

-----------------------------------------------------------------------------
(* Parts of a value.                                                        *)

Children(v) ==
  IF v.t = "object" THEN {v.members[k] : k \in DOMAIN v.members}
  ELSE IF v.t = "list" THEN {v.items[i] : i \in 1..Len(v.items)}
  ELSE {}

\* What stands in v, by how deep it stands there.
Inside(S) == UNION {Children(x) : x \in S}
Layers(v) ==
  LET layers[l \in 0..MAX_JSON_DEPTH] == IF l = 0 THEN {v} ELSE Inside(layers[l - 1])
  IN layers

\* a is b without some of its claims and items: the pairs of what stands in them,
\* k layers from the last one, of which one is the other so, if R is right about
\* the layer below.
Pruned(a, b, k, R) ==
  {q \in Layers(a)[MAX_JSON_DEPTH - k] \X Layers(b)[MAX_JSON_DEPTH - k] :
     \/ q[1] = q[2]
     \/ /\ q[1].t = "object" /\ q[2].t = "object"
        /\ \A x \in DOMAIN q[1].members :
             /\ x \in DOMAIN q[2].members
             /\ k > 0 => <<q[1].members[x], q[2].members[x]>> \in R
     \/ /\ q[1].t = "list" /\ q[2].t = "list"
        /\ \E at \in [1..Len(q[1].items) -> 1..Len(q[2].items)] :
             /\ \A i, j \in 1..Len(q[1].items) : i < j => at[i] < at[j]
             /\ k > 0 => \A i \in 1..Len(q[1].items) :
                           <<q[1].items[i], q[2].items[at[i]]>> \in R}
Prunings(a, b) ==
  LET prunings[k \in 0..MAX_JSON_DEPTH] ==
        Pruned(a, b, k, IF k = 0 THEN {} ELSE prunings[k - 1])
  IN prunings

Prunes(a, b) == <<a, b>> \in Prunings(a, b)[MAX_JSON_DEPTH]

\* Who withholds disclosures can only withhold: what is resolved with some of the
\* issuer's is a part of the claims that the issuer signed.
WithholdingOnlyWithholds ==
  phase = "resolved" /\ ToSet(token.disclosures) \subseteq ToSet(token.issued) =>
    LET whole == Presenting(token, token.issued)
    IN Resolvable(whole) => Prunes(Returned, Claimed(whole).value)
=============================================================================
