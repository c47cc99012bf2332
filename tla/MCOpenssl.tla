------------------------------ MODULE MCOpenssl ------------------------------
(***************************************************************************)
(* The checks of the runs of Openssl: a token and a chain, and every check   *)
(* alone.                                                                   *)
(***************************************************************************)
EXTENDS Openssl

Token(time, then, now) ==
  [kind |-> "token", time |-> time, base64 |-> TRUE, parts |-> 1,
   textpath |-> TRUE, at |-> then, now |-> now]
Tokens == {Token(t, a, n) : t \in {"date", "none", "nodate"}, a, n \in {"yes", "no"}}

Chain(time, then, now) ==
  [kind |-> "chain", time |-> time, base64 |-> TRUE, parts |-> 2,
   textpath |-> TRUE, at |-> then, now |-> now]
Chains ==
  {Chain(t, a, n) : t \in {"date", "none"}, a \in Answers, n \in {"yes", "no"}}
OddChains ==
  {[Chain("date", "yes", "no") EXCEPT !.base64 = FALSE],
   [Chain("date", "yes", "no") EXCEPT !.textpath = FALSE],
   [Chain("none", "no", "yes") EXCEPT !.parts = 1]}

MCChecklists ==
  {<<c>> : c \in Chains \union OddChains} \union {<<t>> : t \in Tokens}
  \union {<<t, u>> : t, u \in Tokens}
  \union {<<t, c>> : t \in Tokens, c \in Chains \union OddChains}
  \union {<<Token("date", "yes", "no"), Token("none", "no", "yes"), c>> : c \in OddChains}

\* Tokens whose genTime is no date.
NoDates == {<<Token("nodate", a, n)>> : a, n \in {"yes", "no"}}
=============================================================================
