-------------------------------- MODULE Elara --------------------------------
(***************************************************************************)
(* The Merkle folds of the Elara reader.  A hash is the term it is the hash*)
(* of, so two hashes are equal only if what was hashed is.  An account's   *)
(* path, the hash of its identifier, is the sequence of its bits.  A fold  *)
(* gives the set of its root, empty when the code raises.                  *)
(***************************************************************************)
EXTENDS Naturals, Sequences, FiniteSets

CONSTANT Depth   \* of the account tree, 256 in the code

ASSUME TreeAssumption == Depth \in Nat

EMPTY == <<"empty">>
SmtLeaf(path, value) == <<"leaf", path, value>>
SmtInterior(l, r) == <<"node", l, r>>

\* Mutant: the siblings are listed from the root.
PlaceFromRoot(present, d) == Cardinality({e \in present : e <= d})

\* The place in the list of the sibling at depth d: the deepest comes first.
Place(present, d) == Cardinality({e \in present : e >= d})

SiblingAt(present, siblings, d) ==
  IF d \in present THEN siblings[Place(present, d)] ELSE EMPTY

\* One depth of the way up.
Lift(path, d, cur, sib) ==
  IF path[d + 1] = 1 THEN SmtInterior(sib, cur) ELSE SmtInterior(cur, sib)

\* smt_fold: `present` is the set of depths whose sibling is in the list.
SmtFold(path, value, present, siblings) ==
  LET lifted[m \in 0..Depth] ==
        IF m = 0 THEN SmtLeaf(path, value)
        ELSE Lift(path, Depth - m, lifted[m - 1], SiblingAt(present, siblings, Depth - m))
  IN IF Len(siblings) > Depth \/ Len(siblings) # Cardinality(present) THEN {}
     ELSE {lifted[Depth]}

SealNode(tag, l, r) == <<tag, l, r>>

\* One level of the seal tree; an odd node goes up unchanged.
SealLevel(tag, level) ==
  [i \in 1..((Len(level) + 1) \div 2) |->
     IF 2 * i > Len(level) THEN level[2 * i - 1]
     ELSE SealNode(tag, level[2 * i - 1], level[2 * i])]

\* seal_fold_tree: more levels than it takes, since one hash is its own level.
SealTree(tag, leaves) ==
  LET levels[k \in 0..Len(leaves)] ==
        IF k = 0 THEN leaves ELSE SealLevel(tag, levels[k - 1])
  IN IF leaves = <<>> THEN {} ELSE {levels[Len(leaves)][1]}

\* seal_fold_incl, and zone_fold, which has no tag.
Combine(tag, cur, s) ==
  IF s.is_right THEN SealNode(tag, cur, s.hash) ELSE SealNode(tag, s.hash, cur)

FoldIncl(tag, leaf, siblings) ==
  LET joined[k \in 0..Len(siblings)] ==
        IF k = 0 THEN leaf ELSE Combine(tag, joined[k - 1], siblings[k])
  IN joined[Len(siblings)]

\* run_vector: an exception fails a vector that expects a rejection too.
RunVector(got, exp, rejects) ==
  IF \E root \in got : IF rejects THEN root # exp ELSE root = exp THEN "PASS" ELSE "FAIL"

\* account-binding: the fold is the proof's root and the header's.
Bound(root, proof_root, header_root) == root = proof_root /\ root = header_root

RunBinding(got, proof_root, header_root, exp) ==
  IF \E root \in got : Bound(root, proof_root, header_root) = exp THEN "PASS" ELSE "FAIL"
=============================================================================
