-------------------------------- MODULE Merkle --------------------------------
(***************************************************************************)
(* The trees whose proofs the Elara reader folds, from the root down, and  *)
(* what it is that the proofs speak for them.                              *)
(***************************************************************************)
EXTENDS Elara

-----------------------------------------------------------------------------
(* Account trees: what stands at some of the paths.                        *)

Paths == [1..Depth -> {0, 1}]

Prefixed(tree, prefix) == {p \in DOMAIN tree : \A i \in DOMAIN prefix : p[i] = prefix[i]}

\* The hash of a prefix, from those of the two that are one bit longer.
HashOf(tree, h, prefix, longer) ==
  IF Prefixed(tree, prefix) = {} THEN EMPTY
  ELSE IF h = 0 THEN SmtLeaf(prefix, tree[prefix])
  ELSE SmtInterior(longer[Append(prefix, 0)], longer[Append(prefix, 1)])

\* Of the prefixes that h bits lack to be paths.
Subtrees(tree) ==
  LET subtrees[h \in 0..Depth] ==
        [prefix \in [1..(Depth - h) -> {0, 1}] |->
           HashOf(tree, h, prefix, IF h = 0 THEN <<>> ELSE subtrees[h - 1])]
  IN subtrees

SubRoot(tree, prefix) == Subtrees(tree)[Depth - Len(prefix)][prefix]

\* The proof of an account: the siblings that are not empty, the deepest first.
Prefix(p, d) == [i \in 1..d |-> p[i]]
Sibling(tree, p, d) == SubRoot(tree, Append(Prefix(p, d), 1 - p[d + 1]))
Present(tree, p) == {d \in 0..(Depth - 1) : Sibling(tree, p, d) # EMPTY}

\* A set of depths, the deepest first.
Deepest(ds) ==
  CHOOSE s \in [1..Cardinality(ds) -> ds] : \A i, j \in DOMAIN s : i < j => s[i] > s[j]

Siblings(tree, p) ==
  LET ds == Deepest(Present(tree, p)) IN [k \in DOMAIN ds |-> Sibling(tree, p, ds[k])]

Proven(a, lacks) ==
  LET sibs == Siblings(a.tree, a.path)
  IN SmtFold(a.path, a.value, Present(a.tree, a.path),
             IF lacks /\ sibs # <<>> THEN Tail(sibs) ELSE sibs)
Holds(a) == a.path \in DOMAIN a.tree /\ a.tree[a.path] = a.value

\* A proof vector passes exactly for the value that the tree holds at the
\* account, a reject vector exactly for another, and a proof that lacks a sibling
\* passes as neither; bound is only what is the root of the header.
AccountsSpeak(a) ==
  LET root == SubRoot(a.tree, <<>>)
      got  == Proven(a, FALSE)
      holds == Holds(a)
  IN /\ RunVector(got, root, FALSE) = "PASS" <=> holds
     /\ RunVector(got, root, TRUE) = "PASS" <=> ~holds
     /\ \A claimed \in {root, EMPTY} :
          RunBinding(got, claimed, root, TRUE) = "PASS" <=> holds /\ claimed = root
     /\ Present(a.tree, a.path) # {} =>
          \A rejects \in BOOLEAN : RunVector(Proven(a, TRUE), root, rejects) = "FAIL"

-----------------------------------------------------------------------------
(* Seal trees.                                                              *)

Powers(n) ==
  LET powers[k \in 0..n] == IF k = 0 THEN 1 ELSE 2 * powers[k - 1]
  IN powers

\* The largest power of two below c.
Half(c) == CHOOSE p \in {Powers(c)[k] : k \in 0..c} : p < c /\ c <= 2 * p

Raw(i) == <<"raw", i>>

\* The tree of c leaves from leaf m, split at the largest power of two: its root,
\* and the way up from each of its leaves.
Split(grown, c, m) ==
  IF c = 1 THEN [root |-> Raw(m), up |-> [i \in {m} |-> <<>>]]
  ELSE LET l == grown[Half(c)][m]
           r == grown[c - Half(c)][m + Half(c)]
       IN [root |-> SealNode("t", l.root, r.root),
           up |-> [i \in m..(m + c - 1) |->
                     IF i < m + Half(c)
                       THEN Append(l.up[i], [hash |-> r.root, is_right |-> TRUE])
                       ELSE Append(r.up[i], [hash |-> l.root, is_right |-> FALSE])]]

SealSplits(n) ==
  LET splits[c \in 1..n] == [m \in 1..n |-> Split(splits, c, m)]
  IN splits

\* Folding level by level, odd nodes going up unchanged, is splitting at the
\* largest power of two: the tree whose way up from any leaf, and from no other
\* leaf, folds to the root.
SealsSpeak(n) ==
  LET whole == SealSplits(n)[n][1]
  IN /\ SealTree("t", [i \in 1..n |-> Raw(i)]) = {whole.root}
     /\ \A i, j \in 1..n : FoldIncl("t", Raw(j), whole.up[i]) = whole.root <=> i = j
=============================================================================
