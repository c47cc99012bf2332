------------------------------- MODULE Reading -------------------------------
(***************************************************************************)
(* A run of the readers: it walks a token, or has something to read beside *)
(* a token.                                                                *)
(***************************************************************************)
EXTENDS Records, Merkle

CONSTANT Inputs   \* what there is to read: for each operation, its arguments

\* Some of the accounts of a tree hold a value; a seal is of some leaves.
ASSUME InputsAssumption ==
  /\ "account" \in DOMAIN Inputs =>
       \A a \in Inputs["account"] : a.path \in Paths /\ DOMAIN a.tree \subseteq Paths
  /\ "seal" \in DOMAIN Inputs => Inputs["seal"] \subseteq Nat \ {0}

VARIABLE input

Chosen == \E op \in DOMAIN Inputs : \E arg \in Inputs[op] : input = [op |-> op, arg |-> arg]

Start == Init /\ (input = Nothing \/ Chosen)

Going == Next /\ UNCHANGED input

ReadingSpec == Start /\ [][Going]_<<vars, input>>

Reads(op) == input # Nothing /\ input.op = op /\ phase = "index"

\* A Merkle proof of either tree passes for exactly the leaf it was made for.
ProofsSpeakForTheRoot ==
  /\ Reads("account") => AccountsSpeak(input.arg)
  /\ Reads("seal") => SealsSpeak(input.arg)
=============================================================================
