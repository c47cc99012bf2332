------------------------------ MODULE AnchorLog -----------------------------
(***************************************************************************)
(* What `stamp` promises its users: a pack is a log of anchors.  A run     *)
(* appends its anchor once, at one instant between its start and its       *)
(* answer, after every anchor already there; a run that answers "failed"   *)
(* has not touched the log, and one that answers "ok" has.  A run may die  *)
(* unanswered, before or after its append.                                 *)
(***************************************************************************)
EXTENDS Sequences

CONSTANT Stampers

VARIABLES
  log,   \* the runs whose anchors the pack holds, in stamping order
  run    \* each run: "pending", "applied", "ok", "failed" or "dead"

vars == <<log, run>>

Init ==
  /\ log = <<>>
  /\ run = [p \in Stampers |-> "pending"]

Apply(p) ==
  /\ run[p] = "pending"
  /\ log' = Append(log, p)
  /\ run' = [run EXCEPT ![p] = "applied"]

Report(p) ==
  /\ run[p] = "applied"
  /\ run' = [run EXCEPT ![p] = "ok"]
  /\ UNCHANGED log

Fail(p) ==
  /\ run[p] = "pending"
  /\ run' = [run EXCEPT ![p] = "failed"]
  /\ UNCHANGED log

Die(p) ==
  /\ run[p] \in {"pending", "applied"}
  /\ run' = [run EXCEPT ![p] = "dead"]
  /\ UNCHANGED log

Next == \E p \in Stampers : Apply(p) \/ Report(p) \/ Fail(p) \/ Die(p)

Spec == Init /\ [][Next]_vars

\* Every run comes to an end.
EveryRunEnds == \A p \in Stampers : <>(run[p] \in {"ok", "failed", "dead"})
=============================================================================
