------------------------------ MODULE KeySource ------------------------------
(***************************************************************************)
(* Which key an artifact is verified under and where it came from: the      *)
(* caller's choice (a supplied JWK, a JWKS URL), else the x5c of the        *)
(* protected header, else its jwk.  A key of the header that is not the     *)
(* source must still name the key that was used.                            *)
(*                                                                          *)
(* A JWK is the point it names: two JWKs are the same key exactly when the  *)
(* four members that build and verify compare are equal.                    *)
(***************************************************************************)
EXTENDS Naturals, FiniteSets

CONSTANTS
  Keys,    \* P-256 keys
  Junk,    \* an object that is no P-256 key, a certificate that has none
  NotAKey, \* a value of the wrong type
  Absent   \* no such member, nothing given

ASSUME KeysAssumption ==
  Junk \notin Keys /\ NotAKey \notin Keys \union {Junk}
  /\ Absent \notin Keys \union {Junk, NotAKey}

Jwks == Keys \union {Junk}

\* The outcome of a choice that is refused.
Refused == [jwk |-> Absent, class |-> Absent]

-----------------------------------------------------------------------------
(* A JWKS and the key in it.                                               *)

\* A JWK of the set that can verify ES256 (`key_ops` is a set here).
Usable(k) ==
  /\ k.ec
  /\ k.use \in {Absent, "sig"} /\ k.alg \in {Absent, "ES256"}
  /\ k.key_ops = Absent \/ "verify" \in k.key_ops

Candidates(kid, set) ==
  {i \in DOMAIN set : Usable(set[i]) /\ (kid # Absent => set[i].kid = kid)}

\* The set is read whole, over TLS to the last redirect, and names one key.
Fetched(kid, reply) ==
  IF \/ kid = NotAKey \/ reply.outcome # "keys"
     \/ Cardinality(Candidates(kid, reply.keys)) # 1
    THEN Refused
    ELSE LET i == CHOOSE j \in Candidates(kid, reply.keys) : TRUE
         IN [jwk |-> reply.keys[i].jwk, class |-> "jwks_fetched"]

-----------------------------------------------------------------------------
(* The header's own keys.                                                  *)

\* `x5c` is absent, no list of certificates, or a chain: its leaf's key and
\* what follows the leaf (certificates, too many, or not base64).
LeafKey(h) == IF h.x5c \in {Absent, NotAKey} THEN Absent ELSE h.x5c.leaf

FromHeader(h) ==
  IF h.x5c # Absent
    THEN IF LeafKey(h) \in Keys /\ h.x5c.tail = "certificates"
           THEN [jwk |-> LeafKey(h), class |-> "x5c_header"] ELSE Refused
  ELSE IF h.jwk \in Jwks THEN [jwk |-> h.jwk, class |-> "jwk_header"]
  ELSE Refused

Chosen(h, supplied, url, reply) ==
  IF ~h.es256 THEN Refused
  ELSE IF supplied # Absent THEN [jwk |-> supplied, class |-> "supplied"]
  ELSE IF url # Absent THEN Fetched(h.kid, reply)
  ELSE FromHeader(h)

\* Mutant: a header key that was not used is passed over.
ReconciledNever(h, key) == TRUE

\* A header key that is not the source names the key the artifact verifies under.
Reconciled(h, key) ==
  /\ h.jwk # Absent /\ key.class # "jwk_header" => h.jwk = key.jwk
  /\ h.x5c # Absent /\ key.class # "x5c_header" =>
       LeafKey(h) \in Keys /\ LeafKey(h) = key.jwk

\* What verify reconciles of a recorded class; the caller's classes are not
\* checkable offline.
ProvenanceHolds(h, key) ==
  /\ key.class = "jwk_header" => h.jwk \in Jwks /\ h.jwk = key.jwk
  /\ key.class = "x5c_header" => LeafKey(h) \in Keys /\ LeafKey(h) = key.jwk
=============================================================================
