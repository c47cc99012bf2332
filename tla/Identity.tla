------------------------------- MODULE Identity -------------------------------
(***************************************************************************)
(* One producer key file and the processes that use it: Savers create an    *)
(* identity and save it, Users load one and sign with it.  A step is one    *)
(* system call or one stretch of code between two; a process may be killed, *)
(* the machine may lose power once, the owner may make the file read-only   *)
(* or remove it, any I/O step may fail.                                     *)
(*                                                                          *)
(* A private key is the identity it belongs to and its algorithm; a load    *)
(* opens the file once and reads what the path named at that moment.        *)
(***************************************************************************)
EXTENDS Naturals, Sequences, FiniteSets

CONSTANTS
  Savers, Users,    \* one process per save, per load and sign
  Original,         \* the identity of the key file found at the start
  NoFile, Torn,     \* nothing at the path; a key file cut short
  Directory, Stream,\* a path that is not a regular file
  Nothing,          \* no temporary file, no identity, no block
  MLDSA_AVAILABLE,  \* this machine has ML-DSA-65
  Faults            \* which of "kill", "power", "chmod", "remove" may happen

Procs == Savers \union Users

ASSUME ProcessesAssumption ==
  Savers \intersect Users = {} /\ Original \notin Procs
ASSUME FaultsAssumption ==
  MLDSA_AVAILABLE \in BOOLEAN /\ Faults \subseteq {"kill", "power", "chmod", "remove"}

VARIABLES
  file,    \* what the path names, as every process sees it
  disk,    \* what it names after a power loss
  safe,    \* the data of the file has reached the disk
  pc,      \* the next step of each process
  id,      \* the identity a process holds
  tmp,     \* a Saver's temporary file
  block,   \* what a User signed
  out,     \* how a process ended
  left,    \* the faults that may still happen
  looked   \* history: what was at the path when a Saver last looked

vars == <<file, disk, safe, pc, id, tmp, block, out, left, looked>>

-----------------------------------------------------------------------------
(* Identities and what they sign.                                          *)

Identities == [by : Savers \union {Original}, pq : BOOLEAN]

Algs(i) == {"ed25519"} \union {a \in {"ml-dsa-65"} : i.pq}

\* public_keys: one for each algorithm, pinned by the relying party.
PublicKeys(i) == {<<i.by, a>> : a \in Algs(i)}

Entry(i, a) == [shape |-> TRUE, alg |-> a, sig |-> TRUE, key |-> <<i.by, a>>]

\* Mutant: the scheme is what this machine could sign with.
SignBlockAsAble(i) ==
  [scheme |-> IF MLDSA_AVAILABLE THEN "hybrid" ELSE "classical-only",
   entries |-> IF i.pq THEN <<Entry(i, "ed25519"), Entry(i, "ml-dsa-65")>>
               ELSE <<Entry(i, "ed25519")>>]

\* sign_block: an entry for each key, and the scheme they make.
SignBlock(i) ==
  [scheme |-> IF i.pq THEN "hybrid" ELSE "classical-only",
   entries |-> IF i.pq THEN <<Entry(i, "ed25519"), Entry(i, "ml-dsa-65")>>
               ELSE <<Entry(i, "ed25519")>>]

\* A key file: its identity, readable by others, not writable by the owner.
KeyFile(i, open, readonly) == [keys |-> i, open |-> open, readonly |-> readonly]

IsKeyFile(f) == f \notin {NoFile, Torn, Directory, Stream}

KeyFiles == [keys : Identities, open : BOOLEAN, readonly : BOOLEAN]
AnyFile  == KeyFiles \union {NoFile, Torn, Directory, Stream}

\* A temporary file: what is written, on the disk, readable by others.
Temps == [text : {"empty", "keys"}, synced : BOOLEAN, open : BOOLEAN]

ASSUME PathsAssumption ==
  /\ NoFile \notin {Torn, Directory, Stream} /\ Torn \notin {Directory, Stream}
  /\ Directory # Stream
  /\ \A f \in KeyFiles : IsKeyFile(f)
ASSUME NothingAssumption ==
  /\ \A t \in Temps : t # Nothing
  /\ \A i \in Identities : i # Nothing /\ PublicKeys(i) # Nothing

Goto(p, step) == pc' = [pc EXCEPT ![p] = step]

EndWith(p, o) == Goto(p, "done") /\ out' = [out EXCEPT ![p] = o]

Init ==
  /\ file \in {NoFile, Directory, Stream} \union
       {f \in KeyFiles : f.keys.by = Original /\ ~f.readonly}
  /\ disk = file /\ safe = TRUE
  /\ pc = [p \in Procs |-> "idle"]
  /\ id = [p \in Procs |-> Nothing]
  /\ tmp = [s \in Savers |-> Nothing]
  /\ block = [u \in Users |-> Nothing]
  /\ out = [p \in Procs |-> "none"]
  /\ left = Faults
  /\ looked = [s \in Savers |-> NoFile]

-----------------------------------------------------------------------------
(* save.                                                                   *)

\* create: with an ML-DSA-65 key where it is asked for and can be had.
Create(s) ==
  /\ pc[s] = "idle"
  /\ \E asked \in BOOLEAN :
       id' = [id EXCEPT ![s] = [by |-> s, pq |-> asked /\ MLDSA_AVAILABLE]]
  /\ Goto(s, "stat")
  /\ UNCHANGED <<file, disk, safe, tmp, block, out, left, looked>>

\* os.stat: a directory is refused, another path that is no regular file is
\* written directly, and keeps nothing.
Stat(s) ==
  /\ pc[s] = "stat"
  /\ looked' = [looked EXCEPT ![s] = file]
  /\ CASE file = Directory -> EndWith(s, "oserror")
       [] file = Stream -> EndWith(s, "ok") \/ EndWith(s, "oserror")
       [] file = NoFile -> Goto(s, "create") /\ UNCHANGED out
       [] OTHER -> Goto(s, "open") /\ UNCHANGED out
  /\ UNCHANGED <<file, disk, safe, id, tmp, block, left>>

\* Mutant: a read-only file is renamed over like any other.
OpenEarlierUnchecked(s) ==
  /\ pc[s] = "open" /\ looked' = [looked EXCEPT ![s] = file]
  /\ Goto(s, "create")
  /\ UNCHANGED <<file, disk, safe, id, tmp, block, out, left>>

\* The earlier file is opened for writing and closed: one that its owner made
\* read-only is refused, as is one that is gone by now.
OpenEarlier(s) ==
  /\ pc[s] = "open" /\ looked' = [looked EXCEPT ![s] = file]
  /\ IF file = Torn \/ (IsKeyFile(file) /\ ~file.readonly)
       THEN Goto(s, "create") /\ UNCHANGED out
       ELSE EndWith(s, "oserror")
  /\ UNCHANGED <<file, disk, safe, id, tmp, block, left>>

\* O_EXCL, mode 0600, a name nobody has.
CreateTemp(s) ==
  /\ pc[s] = "create" /\ Goto(s, "write")
  /\ tmp' = [tmp EXCEPT ![s] = [text |-> "empty", synced |-> FALSE, open |-> FALSE]]
  /\ UNCHANGED <<file, disk, safe, id, block, out, left, looked>>

\* json.dump and flush.
WriteTemp(s) ==
  /\ pc[s] = "write" /\ Goto(s, "sync")
  /\ tmp' = [tmp EXCEPT ![s].text = "keys"]
  /\ UNCHANGED <<file, disk, safe, id, block, out, left, looked>>

\* Mutant: renamed before it is known to be on the disk.
SyncTempNever(s) ==
  /\ pc[s] = "sync" /\ Goto(s, "replace")
  /\ UNCHANGED <<file, disk, safe, id, tmp, block, out, left, looked>>

SyncTemp(s) ==
  /\ pc[s] = "sync" /\ Goto(s, "replace")
  /\ tmp' = [tmp EXCEPT ![s].synced = TRUE]
  /\ UNCHANGED <<file, disk, safe, id, block, out, left, looked>>

Replace(s) ==
  /\ pc[s] = "replace"
  /\ file' = IF tmp[s].text = "keys" THEN KeyFile(id[s], tmp[s].open, FALSE) ELSE Torn
  /\ safe' = tmp[s].synced
  /\ tmp' = [tmp EXCEPT ![s] = Nothing]
  /\ EndWith(s, "ok")
  /\ UNCHANGED <<disk, id, block, left, looked>>

\* Any of these steps fails; so may the removal of the temporary file.
SaveFails(s) ==
  /\ pc[s] \in {"stat", "create", "write", "sync", "replace"}
  /\ \/ tmp' = [tmp EXCEPT ![s] = Nothing] /\ EndWith(s, "oserror")
     \/ tmp[s] # Nothing /\ UNCHANGED tmp /\ EndWith(s, "unlink_failed")
  /\ UNCHANGED <<file, disk, safe, id, block, left, looked>>

-----------------------------------------------------------------------------
(* load and sign_block.                                                    *)

\* A file that is cut, missing or not one, or with a key of an algorithm that
\* this machine has not, is an exception.
Load(u) ==
  /\ pc[u] = "idle"
  /\ IF IsKeyFile(file) /\ (file.keys.pq => MLDSA_AVAILABLE)
       THEN id' = [id EXCEPT ![u] = file.keys] /\ Goto(u, "sign") /\ UNCHANGED out
       ELSE EndWith(u, "exception") /\ UNCHANGED id
  /\ UNCHANGED <<file, disk, safe, tmp, block, left, looked>>

Sign(u) ==
  /\ pc[u] = "sign"
  /\ block' = [block EXCEPT ![u] = SignBlock(id[u])]
  /\ EndWith(u, "ok")
  /\ UNCHANGED <<file, disk, safe, id, tmp, left, looked>>

-----------------------------------------------------------------------------
(* The environment.                                                        *)

Running(p) == pc[p] \notin {"idle", "done", "dead"}

Kill(p) ==
  /\ "kill" \in left /\ Running(p) /\ Goto(p, "dead")
  /\ UNCHANGED <<file, disk, safe, id, tmp, block, out, left, looked>>

\* The rename reaches the disk some time after it was made.
FlushDirectory ==
  /\ "power" \in left
  /\ disk' = IF safe THEN file ELSE Torn
  /\ disk' # disk
  /\ UNCHANGED <<file, safe, pc, id, tmp, block, out, left, looked>>

PowerLoss ==
  /\ "power" \in left /\ left' = left \ {"power"}
  /\ file' = disk /\ safe' = TRUE
  /\ pc' = [p \in Procs |-> IF Running(p) THEN "dead" ELSE pc[p]]
  /\ UNCHANGED <<disk, id, tmp, block, out, looked>>

\* The owner: chmod 400, rm.
Chmod ==
  /\ "chmod" \in left /\ left' = left \ {"chmod"}
  /\ IsKeyFile(file) /\ file' = [file EXCEPT !.readonly = TRUE]
  /\ UNCHANGED <<disk, safe, pc, id, tmp, block, out, looked>>

Remove ==
  /\ "remove" \in left /\ left' = left \ {"remove"}
  /\ IsKeyFile(file) /\ file' = NoFile /\ safe' = TRUE
  /\ UNCHANGED <<disk, pc, id, tmp, block, out, looked>>

Next ==
  \/ \E s \in Savers :
       \/ Create(s) \/ Stat(s) \/ OpenEarlier(s) \/ CreateTemp(s) \/ WriteTemp(s)
       \/ SyncTemp(s) \/ Replace(s) \/ SaveFails(s)
  \/ \E u \in Users : Load(u) \/ Sign(u)
  \/ \E p \in Procs : Kill(p)
  \/ FlushDirectory \/ PowerLoss \/ Chmod \/ Remove

Spec == Init /\ [][Next]_vars

-----------------------------------------------------------------------------
(* Properties.                                                             *)

V == INSTANCE Verdict
       WITH Inputs <- {}, Openssl <- FALSE, Now <- 0, Absent <- Nothing,
            pack <- 0, policy <- 0, phase <- 0, tsa <- 0, chain <- 0,
            notrun <- FALSE, receipt <- 0, written <- FALSE, exit <- 0

\* Every variable keeps its shape, and a temporary file is there only from its
\* creation on.
TypeOK ==
  /\ file \in AnyFile /\ disk \in AnyFile /\ safe \in BOOLEAN
  /\ pc \in [Procs -> {"idle", "stat", "open", "create", "write", "sync", "replace",
                       "sign", "done", "dead"}]
  /\ id \in [Procs -> Identities \union {Nothing}]
  /\ tmp \in [Savers -> Temps \union {Nothing}] /\ DOMAIN block = Users
  /\ out \in [Procs -> {"none", "ok", "oserror", "unlink_failed", "exception"}]
  /\ left \subseteq Faults /\ looked \in [Savers -> AnyFile]
  /\ \A s \in Savers :
       /\ pc[s] \in {"write", "sync", "replace"} => tmp[s] # Nothing /\ id[s] # Nothing
       /\ pc[s] = "replace" => tmp[s].text = "keys"

\* The identity at the path, now and after a power loss, is the one that was
\* there or one whose save reported success, and its file is whole: a save that
\* fails or is cut at any step leaves the earlier keys.  The private keys of a
\* save are never in a file that others may read, while they are written or once
\* in place, whatever the earlier file was, and a save that ended leaves none
\* beside it unless it could not remove it.
KeyFileSound ==
  /\ \A f \in {file, disk} :
       /\ f # Torn
       /\ IsKeyFile(f) /\ f.keys.by # Original => out[f.keys.by] = "ok" /\ ~f.open
  /\ \A s \in Savers :
       tmp[s] # Nothing => ~tmp[s].open /\ (pc[s] # "done" \/ out[s] = "unlink_failed")

\* A key file its owner made read-only is not replaced behind the owner's back:
\* only if it became one after the save had looked.
ReadOnlyKeysStay ==
  [][\A s \in Savers :
       out[s] # "ok" /\ out'[s] = "ok" /\ IsKeyFile(file) /\ file.readonly =>
         looked[s] # file]_vars

\* A block is signed with all the keys of one identity that was there or whose
\* save reported success: pinned under its public keys it is ok and trusted
\* where its algorithms can be checked, and post-quantum if it says hybrid.
SignedBlocksVerify ==
  \A u \in Users :
    block[u] # Nothing =>
      \E i \in Identities :
        /\ i.by = Original \/ out[i.by] = "ok"
        /\ V!BlockOk(block[u])
        /\ V!Trusted(block[u], PublicKeys(i)) = "true"
        /\ {e.key : e \in V!BlockEntries(block[u])} = PublicKeys(i)
        /\ V!PqProtected(block[u], PublicKeys(i)) <=> block[u].scheme = "hybrid"
=============================================================================
