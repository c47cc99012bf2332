------------------------------- MODULE PackLog ------------------------------
(***************************************************************************)
(* The refinement from PackFile to AnchorLog, for a pack that only stamps  *)
(* write: the log is the anchors of the file at the path, and a run is     *)
(* "applied" from its rename until it answers.                             *)
(***************************************************************************)
EXTENDS PackFile

LogOf(f) ==
  IF IsPack(f) THEN [i \in DOMAIN f.anchors |-> f.anchors[i].by] ELSE <<>>

RunOf(p) ==
  CASE pc[p] = "dead" -> "dead"
    [] pc[p] = "done" -> IF out[p] = "ok" THEN "ok" ELSE "failed"
    [] OTHER          -> IF out[p] = "ok" THEN "applied" ELSE "pending"

Log == INSTANCE AnchorLog
         WITH log <- LogOf(pack), run <- [p \in Stampers |-> RunOf(p)]

\* Concurrent stamps of one pack behave as if each appended its anchor at
\* once (CHANGELOG: "concurrent stamps of one pack keep every anchor; a
\* failure leaves the pack as it was").
StampsAreAtomic == Log!Spec

\* Every one of them comes to an answer, or is killed: none waits for ever for
\* the directory lock, which its holder gives up however its run goes.
StampsEnd == Log!EveryRunEnds
=============================================================================
