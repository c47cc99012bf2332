------------------------------ MODULE PackFile ------------------------------
(***************************************************************************)
(* One evidence pack at one path, and the processes that rewrite it:       *)
(*                                                                         *)
(*   - Stampers run `ap2-evidence stamp` (add_anchor): a read-modify-write *)
(*     under an exclusive flock on the pack's directory;                   *)
(*   - Signers call sign_evidence: a read-modify-write that takes NO lock; *)
(*   - Builders run `ap2-evidence build` onto a path that may exist: they  *)
(*     read nothing and take no lock.                                      *)
(*                                                                         *)
(* All three write a temporary file in the directory, fsync it and rename  *)
(* it onto the path.  A step is one system call or one stretch of code     *)
(* between two of them; the processes interleave between steps.  A process *)
(* may be killed, the machine may lose power once, the pack may be removed *)
(* once, any I/O step may fail and a TSA may answer anything.              *)
(*                                                                         *)
(* Data kept: a sealed content is a name and its SHA-256 is the same name; *)
(* a token is its imprint and the run that obtained it; a size is counted  *)
(* in blocks.  A reader (verify, restriction) opens the path once and the  *)
(* open file never changes under it, so what readers see is `pack`.        *)
(***************************************************************************)
EXTENDS Naturals, Sequences

CONSTANTS
  Stampers, Signers, Builders,  \* one process per run of a command
  Original,     \* the sealed content (and its digest) the pack starts with
  Altered,      \* a digest that is not that of any content
  NoPack, Torn, \* no file at the path; a file that is not a whole pack
  NoSig,        \* a pack without producer_signatures
  Free,         \* the directory lock when nobody holds it
  Flock,        \* fcntl is importable (POSIX); FALSE is Windows
  SizeBound,    \* MAX_EVIDENCE_BYTES, in blocks
  Faults        \* which of "kill", "power", "remove", "nolock" may happen

Procs    == Stampers \union Signers \union Builders
Contents == {Original} \union Builders
Digests  == Contents \union {Altered}

ASSUME ProcsAssumption ==
  /\ Stampers \intersect Signers = {}
  /\ Stampers \intersect Builders = {}
  /\ Signers \intersect Builders = {}
  /\ Free \notin Procs
ASSUME ValuesAssumption ==
  /\ Altered \notin Contents /\ Original \notin Procs
  /\ Flock \in BOOLEAN
  /\ SizeBound \in Nat \ {0}
  /\ Faults \subseteq {"kill", "power", "remove", "nolock"}

Tokens     == [imprint : Digests, by : Procs]
Signatures == [over : Digests, by : Signers]
Packs      == [content : Contents, digest : Digests, anchors : Seq(Tokens),
               sig : Signatures \union {NoSig}]

ASSUME NullsAssumption ==
  /\ NoPack \notin Packs
  /\ Torn \notin Packs \union {NoPack}
  /\ NoSig \notin Signatures

VARIABLES
  pack,    \* the file the path names, as every process reads it
  disk,    \* the file the path names after a power loss
  safe,    \* the data of the file the path names has reached the disk
  lock,    \* holder of the flock on the directory
  pc,      \* the next step of each process
  ev,      \* the pack a process holds in memory, as it will write it
  tmp,     \* its temporary file: "none", "empty", "written" or "synced"
  out,     \* how its run ends: "ok" 0, "refused" 1, "ioerr" 74, "traceback"
  left,    \* the faults that may still happen (each happens once)
  seen,    \* history: the file at the path when the process read it
  excuse   \* history: what has happened since a process renamed its file
           \* onto the path that may have cost the pack its block

env == <<disk, left>>
vars == <<pack, safe, lock, pc, ev, tmp, out, seen, excuse, env>>

-----------------------------------------------------------------------------
IsPack(f) == f # NoPack /\ f # Torn

SignBlocks(f) == IF f.sig = NoSig THEN 0 ELSE 1

\* The size of a pack: its sealed content, its anchors, its producer block.
Size(f) == 1 + Len(f.anchors) + SignBlocks(f)

\* p's token is in f's anchors.
Holds(f, p) == IsPack(f) /\ \E i \in DOMAIN f.anchors : f.anchors[i].by = p

Goto(p, step) == pc' = [pc EXCEPT ![p] = step]

\* The run is decided: o is its outcome; it still has to close what it opened.
Decide(p, o) == Goto(p, "close") /\ out' = [out EXCEPT ![p] = o]

\* The event e may cost the pack the blocks already written into it.
Excuses(e) ==
  excuse' = [p \in Procs |->
               IF out[p] = "ok" THEN excuse[p] \union {e} ELSE excuse[p]]

\* What earlier builds and edits left at the path.
InitialPacks ==
  {[content |-> Original, digest |-> d, anchors |-> <<>>, sig |-> NoSig] :
     d \in {Original, Altered}}

Init ==
  /\ pack \in InitialPacks \union {NoPack}
  /\ disk = pack
  /\ safe = TRUE
  /\ lock = Free
  /\ pc = [p \in Procs |-> "idle"]
  /\ ev = [p \in Procs |-> NoPack]
  /\ tmp = [p \in Procs |-> "none"]
  /\ out = [p \in Procs |-> "none"]
  /\ seen = [p \in Procs |-> NoPack]
  /\ excuse = [p \in Procs |-> {}]
  /\ left = Faults

-----------------------------------------------------------------------------
(* stamp: open the directory, lock it, read, check the digest.             *)

OpenDirectory(p) ==
  /\ pc[p] = "idle"
  /\ \/ Goto(p, "lock") /\ UNCHANGED out
     \/ Decide(p, "refused")
  /\ UNCHANGED <<pack, safe, lock, ev, tmp, seen, excuse, env>>

LockDirectory(p) ==
  /\ pc[p] = "lock"
  /\ Flock => lock = Free
  /\ lock' = IF Flock THEN p ELSE lock
  /\ Goto(p, "read")
  /\ UNCHANGED <<pack, safe, ev, tmp, out, seen, excuse, env>>

\* flock itself fails (a file system without locks): no handler encloses it.
LockFails(p) ==
  /\ pc[p] = "lock"
  /\ Flock /\ "nolock" \in left
  /\ Decide(p, "traceback")
  /\ UNCHANGED <<pack, safe, lock, ev, tmp, seen, excuse, env>>

\* Mutant: the declared digest is trusted.
StampableUnchecked(f) == IsPack(f)

\* A pack is stamped only when its declared digest is that of its content.
Stampable(f) == IsPack(f) /\ f.digest = f.content

ReadToStamp(p) ==
  /\ pc[p] = "read"
  /\ \/ /\ Stampable(pack)
        /\ ev' = [ev EXCEPT ![p] = pack]
        /\ seen' = [seen EXCEPT ![p] = pack]
        /\ Goto(p, "tsa")
        /\ UNCHANGED out
     \/ /\ Decide(p, "refused")    \* not stampable, or the read failed
        /\ UNCHANGED <<ev, seen>>
  /\ UNCHANGED <<pack, safe, lock, tmp, excuse, env>>

-----------------------------------------------------------------------------
(* The TSA is asked about the digest of the content in memory.             *)

\* Mutants: the lock is released once the token is there; the token takes the
\* place of the anchors; the producer block is dropped.
TokenUnlocks(p) ==
  /\ pc[p] = "tsa"
  /\ ev' = [ev EXCEPT ![p].anchors =
               Append(@, [imprint |-> ev[p].content, by |-> p])]
  /\ lock' = Free
  /\ Goto(p, "size")
  /\ UNCHANGED <<pack, safe, tmp, out, seen, excuse, env>>
TokenReplaces(p) ==
  /\ pc[p] = "tsa"
  /\ ev' = [ev EXCEPT ![p].anchors = <<[imprint |-> ev[p].content, by |-> p]>>]
  /\ Goto(p, "size")
  /\ UNCHANGED <<pack, safe, lock, tmp, out, seen, excuse, env>>
TokenUnsigns(p) ==
  /\ pc[p] = "tsa"
  /\ ev' = [ev EXCEPT ![p].sig = NoSig, ![p].anchors =
               Append(@, [imprint |-> ev[p].content, by |-> p])]
  /\ Goto(p, "size")
  /\ UNCHANGED <<pack, safe, lock, tmp, out, seen, excuse, env>>

\* A granted token is kept only when its imprint is the digest asked about.
TokenArrives(p) ==
  /\ pc[p] = "tsa"
  /\ \E d \in Digests :
       /\ d = ev[p].content
       /\ ev' = [ev EXCEPT ![p].anchors =
                   Append(@, [imprint |-> d, by |-> p])]
  /\ Goto(p, "size")
  /\ UNCHANGED <<pack, safe, lock, tmp, out, seen, excuse, env>>

\* Any other reply, none within the timeout, or openssl not started here:
\* stamp refuses (1) or reports it (74), build goes on without the anchor.
NoToken(p) ==
  /\ pc[p] = "tsa"
  /\ IF p \in Builders
       THEN Goto(p, "size") /\ UNCHANGED out
       ELSE Decide(p, "refused") \/ Decide(p, "ioerr")
  /\ UNCHANGED <<pack, safe, lock, ev, tmp, seen, excuse, env>>

-----------------------------------------------------------------------------
(* sign_evidence: read and sign the DECLARED digest, without a lock.       *)

ReadToSign(p) ==
  /\ pc[p] = "idle"
  /\ \/ /\ IsPack(pack)
        /\ ev' = [ev EXCEPT ![p] = pack]
        /\ seen' = [seen EXCEPT ![p] = pack]
        /\ Goto(p, "sign")
        /\ UNCHANGED out
     \/ Decide(p, "refused") /\ UNCHANGED <<ev, seen>>
  /\ UNCHANGED <<pack, safe, lock, tmp, excuse, env>>

SignDigest(p) ==
  /\ pc[p] = "sign"
  /\ ev' = [ev EXCEPT ![p].sig = [over |-> ev[p].digest, by |-> p]]
  /\ Goto(p, "size")
  /\ UNCHANGED <<pack, safe, lock, tmp, out, seen, excuse, env>>

(* build: verify the artifacts, seal them, then ask the TSA.               *)
Seal(p) ==
  /\ pc[p] = "idle"
  /\ \/ /\ ev' = [ev EXCEPT ![p] = [content |-> p, digest |-> p,
                                    anchors |-> <<>>, sig |-> NoSig]]
        /\ Goto(p, "tsa") \/ Goto(p, "size")    \* with or without --tsa
        /\ UNCHANGED out
     \/ Decide(p, "refused") /\ UNCHANGED ev
  /\ UNCHANGED <<pack, safe, lock, tmp, seen, excuse, env>>

-----------------------------------------------------------------------------
(* The writers' common tail: size, stat, temporary file, rename.           *)

CheckSize(p) ==
  /\ pc[p] = "size"
  /\ IF Size(ev[p]) > SizeBound
       THEN Decide(p, "refused")
       ELSE Goto(p, "stat") /\ UNCHANGED out
  /\ UNCHANGED <<pack, safe, lock, ev, tmp, seen, excuse, env>>

\* stamp takes the mode of the pack it read by an os.stat that no handler
\* encloses; the others create the pack when there is none.
StatPack(p) ==
  /\ pc[p] = "stat"
  /\ IF pack = NoPack /\ p \in Stampers
       THEN Decide(p, "traceback")
       ELSE Goto(p, "create") /\ UNCHANGED out
  /\ UNCHANGED <<pack, safe, lock, ev, tmp, seen, excuse, env>>

CreateTemp(p) ==
  /\ pc[p] = "create"
  /\ tmp' = [tmp EXCEPT ![p] = "empty"]
  /\ Goto(p, "write")
  /\ UNCHANGED <<pack, safe, lock, ev, out, seen, excuse, env>>

\* Mutant: the pack is opened with "w" and written in place.
WriteInPlace(p) ==
  /\ pc[p] = "write"
  /\ pack' = ev[p]
  /\ tmp' = [tmp EXCEPT ![p] = "written"]
  /\ Goto(p, "sync")
  /\ UNCHANGED <<safe, lock, ev, out, seen, excuse, env>>

WriteTemp(p) ==
  /\ pc[p] = "write"
  /\ tmp' = [tmp EXCEPT ![p] = "written"]
  /\ Goto(p, "sync")
  /\ UNCHANGED <<pack, safe, lock, ev, out, seen, excuse, env>>

\* Mutant: no fsync.
SyncSkipped(p) ==
  /\ pc[p] = "sync"
  /\ Goto(p, "replace")
  /\ UNCHANGED <<pack, safe, lock, ev, tmp, out, seen, excuse, env>>

SyncTemp(p) ==
  /\ pc[p] = "sync"
  /\ tmp' = [tmp EXCEPT ![p] = "synced"]
  /\ Goto(p, "replace")
  /\ UNCHANGED <<pack, safe, lock, ev, out, seen, excuse, env>>

\* os.replace: the path names the file p wrote, whole or as far as it got.
ReplacePack(p) ==
  /\ pc[p] = "replace"
  /\ pack' = IF tmp[p] \in {"written", "synced"} THEN ev[p] ELSE Torn
  /\ safe' = (tmp[p] = "synced")
  /\ tmp' = [tmp EXCEPT ![p] = "none"]
  /\ IF pack = seen[p] THEN UNCHANGED excuse ELSE Excuses("overwrite")
  /\ Decide(p, "ok")
  /\ UNCHANGED <<lock, ev, seen, env>>

\* Any of these steps fails: the temporary file is removed, if that works.
WriteFails(p) ==
  /\ \/ pc[p] \in {"create", "write", "sync", "replace"}
     \/ pc[p] = "stat" /\ p \notin Stampers
  /\ \/ tmp' = [tmp EXCEPT ![p] = "none"]
     \/ UNCHANGED tmp
  /\ Decide(p, "ioerr")
  /\ UNCHANGED <<pack, safe, lock, ev, seen, excuse, env>>

\* Mutant: the directory stays open.
CloseLocked(p) ==
  /\ pc[p] = "close"
  /\ Goto(p, "done")
  /\ UNCHANGED <<pack, safe, lock, ev, tmp, out, seen, excuse, env>>

\* The end of a run: the directory is closed, which releases the lock, and
\* only then the outcome is reported.
Close(p) ==
  /\ pc[p] = "close"
  /\ lock' = IF lock = p THEN Free ELSE lock
  /\ Goto(p, "done")
  /\ UNCHANGED <<pack, safe, ev, tmp, out, seen, excuse, env>>

-----------------------------------------------------------------------------
(* The environment.                                                        *)

Running(p) == pc[p] \notin {"idle", "done", "dead"}

\* SIGKILL: the kernel closes the directory, the temporary file stays.
Kill(p) ==
  /\ "kill" \in left
  /\ Running(p)
  /\ Goto(p, "dead")
  /\ lock' = IF lock = p THEN Free ELSE lock
  /\ UNCHANGED <<pack, safe, ev, tmp, out, seen, excuse, env>>

\* The rename reaches the disk, some time after it was made.
FlushDirectory ==
  /\ "power" \in left
  /\ disk' = IF safe THEN pack ELSE Torn
  /\ disk' # disk
  /\ UNCHANGED <<pack, safe, lock, pc, ev, tmp, out, seen, excuse, left>>

PowerLoss ==
  /\ "power" \in left
  /\ left' = left \ {"power"}
  /\ pack' = disk
  /\ safe' = TRUE
  /\ lock' = Free
  /\ pc' = [p \in Procs |-> IF Running(p) THEN "dead" ELSE pc[p]]
  /\ Excuses("power")
  /\ UNCHANGED <<disk, ev, tmp, out, seen>>

RemovePack ==
  /\ "remove" \in left
  /\ pack # NoPack
  /\ left' = left \ {"remove"}
  /\ pack' = NoPack
  /\ safe' = TRUE
  /\ Excuses("remove")
  /\ UNCHANGED <<disk, lock, pc, ev, tmp, out, seen>>

-----------------------------------------------------------------------------
Stamp(p) ==
  OpenDirectory(p) \/ LockDirectory(p) \/ LockFails(p) \/ ReadToStamp(p)

Write(p) ==
  \/ CheckSize(p) \/ StatPack(p) \/ CreateTemp(p) \/ WriteTemp(p)
  \/ SyncTemp(p) \/ ReplacePack(p) \/ WriteFails(p) \/ Close(p)

Next ==
  \/ \E p \in Stampers : Stamp(p)
  \/ \E p \in Stampers \union Builders : TokenArrives(p) \/ NoToken(p)
  \/ \E p \in Signers : ReadToSign(p) \/ SignDigest(p)
  \/ \E p \in Builders : Seal(p)
  \/ \E p \in Procs : Write(p) \/ Kill(p)
  \/ FlushDirectory \/ PowerLoss \/ RemovePack

Step(p) ==
  \/ p \in Stampers /\ Stamp(p)
  \/ p \in Stampers \union Builders /\ (TokenArrives(p) \/ NoToken(p))
  \/ p \in Signers /\ (ReadToSign(p) \/ SignDigest(p))
  \/ p \in Builders /\ Seal(p)
  \/ Write(p)

Spec == Init /\ [][Next]_vars

\* Each process that can take a step is eventually scheduled: a TSA request,
\* an openssl call and a local write all end, by an answer or a timeout.
FairSpec == Spec /\ \A p \in Procs : WF_vars(Step(p))

-----------------------------------------------------------------------------
(* Properties.                                                             *)

Outcomes == {"none", "ok", "refused", "ioerr", "traceback"}
Locked   == {"read", "tsa", "size", "stat", "create", "write", "sync",
             "replace"}
Steps    == Locked \union {"idle", "lock", "sign", "close", "done", "dead"}

\* Every variable has the shape the code gives it.
TypeOK ==
  /\ pack \in Packs \union {NoPack, Torn}
  /\ disk \in Packs \union {NoPack, Torn}
  /\ safe \in BOOLEAN
  /\ lock \in Procs \union {Free}
  /\ pc \in [Procs -> Steps]
  /\ ev \in [Procs -> Packs \union {NoPack}]
  /\ tmp \in [Procs -> {"none", "empty", "written", "synced"}]
  /\ out \in [Procs -> Outcomes]
  /\ seen \in [Procs -> Packs \union {NoPack}]
  /\ excuse \in [Procs -> SUBSET {"overwrite", "power", "remove"}]
  /\ left \subseteq Faults

\* Where there is a flock, one stamp at a time is between its read and its
\* rename: the read-modify-write of add_anchor is a critical section.
OneStampAtATime ==
  Flock => \A p, q \in Stampers :
             pc[p] \in Locked /\ pc[q] \in Locked => p = q

\* An anchor whose stamp was written stays in the pack until a process
\* renames its file over one it has not read (a sign or a build, which take
\* no lock, or a stamp that one of them overtook), the power fails or the
\* pack is removed: no other interleaving loses it.
StampsKept ==
  \A p \in Stampers : out[p] = "ok" => Holds(pack, p) \/ excuse[p] # {}

\* Likewise a pack that was signed keeps a producer block.
SignatureKept ==
  \A p \in Signers :
    out[p] = "ok" => (IsPack(pack) /\ pack.sig # NoSig) \/ excuse[p] # {}

\* No block that a run reports as written is lost otherwise.
BlocksKept == StampsKept /\ SignatureKept

\* Where stamps under a flock are the only writers, none of them is lost.
EveryStampKept == \A p \in Stampers : out[p] = "ok" => Holds(pack, p)

\* p's write shows in f: its anchor, its signature or the content it built.
Trace(f, p) ==
  IsPack(f) /\ (Holds(f, p) \/ f.content = p \/ (f.sig # NoSig /\ f.sig.by = p))

\* A run that failed leaves the pack as it was: what shows in the pack, now
\* or after a power loss, comes from a run that renamed its file onto it; and
\* nothing beside the pack, unless the I/O failed.
FailureLeavesThePack ==
  \A p \in Procs :
    /\ Trace(pack, p) \/ Trace(disk, p) => out[p] = "ok"
    /\ pc[p] = "done" /\ tmp[p] # "none" => out[p] = "ioerr"

\* Whatever the interleaving and whichever step is the last before a kill
\* or a power loss, a reader finds a whole pack or none.
WholePack == pack # Torn

\* f's blocks speak of f: each token's imprint is the digest of the content
\* beside it, in a pack that declares that digest, and what is signed is the
\* declared digest.
Coherent(f) ==
  /\ \A i \in DOMAIN f.anchors :
       f.anchors[i].imprint = f.content /\ f.digest = f.content
  /\ f.sig # NoSig => f.sig.over = f.digest

\* No interleaving of the writers, each of which adds its block to what it
\* read, leaves a pack whose blocks speak of another content or digest.
CoherentPack == IsPack(pack) => Coherent(pack)

\* No writer takes the pack over the size every verifier refuses.
WithinBound == IsPack(pack) => Size(pack) <= SizeBound

\* At every moment a verifier can read what the path names.
ReadablePack == WholePack /\ WithinBound

\* A stamp whose pack cannot be written ends with the documented refusal or
\* exit 74, never with an unhandled exception (exit 1).
StampsAnswer == \A p \in Stampers : out[p] # "traceback"
=============================================================================
