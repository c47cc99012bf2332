------------------------------- MODULE Checks -------------------------------
(***************************************************************************)
(* What module Verdict takes openssl's checks to be: each check is settled  *)
(* in its turn, once, with the answer that its input calls for or with      *)
(* "none", and never with another answer.                                   *)
(***************************************************************************)
EXTENDS Sequences, Naturals

VARIABLES
  right,   \* the answer that the input of each check calls for
  answer   \* the answer of each check, "unasked" before its turn

vars == <<right, answer>>

Init == answer = [i \in DOMAIN right |-> "unasked"]

Settle(i) ==
  /\ answer[i] = "unasked"
  /\ \A j \in 1..(i - 1) : answer[j] # "unasked"
  /\ \E a \in {right[i], "none"} : answer' = [answer EXCEPT ![i] = a]
  /\ UNCHANGED right

Next == \E i \in DOMAIN right : Settle(i)

Spec == Init /\ [][Next]_vars

\* Every check is settled.
EverySettled == <>(\A i \in DOMAIN right : answer[i] # "unasked")
=============================================================================
