---------------------------- MODULE IdentityProofs ----------------------------
(***************************************************************************)
(* Proofs about module Identity, for any number of savers and users and any *)
(* set of faults.                                                           *)
(*                                                                          *)
(* What the path names is whole and belongs to an owner: the identity that  *)
(* was there or one whose save reported success (PathSound).  That is kept  *)
(* because a saver has its own identity, text and durable bytes in hand     *)
(* before it replaces (SaverSound), and what a user signs with came from    *)
(* the path (UserSound).                                                    *)
(***************************************************************************)
EXTENDS Identity, TLAPS

\* An identity that was there, or whose save reported success by outcomes o.
Owned(i, o) == i.by = Original \/ o[i.by] = "ok"

SoundFile(f, o) ==
  /\ f \in AnyFile /\ f # Torn
  /\ f \in KeyFiles => Owned(f.keys, o) /\ (f.keys.by # Original => ~f.open)

PathSound == SoundFile(file, out) /\ SoundFile(disk, out) /\ safe = TRUE

Steps == {"idle", "stat", "open", "create", "write", "sync", "replace", "sign", "done", "dead"}
Outs  == {"none", "ok", "oserror", "unlink_failed", "exception"}

\* Saver s at step c, with identity i, temporary file t, outcome o, having seen f.
SaverAt(s, c, i, t, o, f) ==
  /\ c \in Steps /\ i \in Identities \union {Nothing} /\ t \in Temps \union {Nothing}
  /\ o \in Outs /\ f \in AnyFile
  /\ c \in {"stat", "open", "create", "write", "sync", "replace"} =>
       i \in Identities /\ i.by = s
  /\ o # "none" <=> c = "done"
  /\ c \in {"write", "sync", "replace"} => t # Nothing
  /\ t # Nothing =>
       /\ ~t.open /\ c \in {"write", "sync", "replace", "done", "dead"}
       /\ c = "done" => o = "unlink_failed"
  /\ c = "sync" => t.text = "keys"
  /\ c = "replace" => t.text = "keys" /\ t.synced
  /\ c \in {"create", "write", "sync", "replace"} => (f \in KeyFiles => ~f.readonly)

SaverSound(s) == SaverAt(s, pc[s], id[s], tmp[s], out[s], looked[s])

UserSound(u, o) ==
  /\ pc[u] = "sign" =>
       id[u] \in Identities /\ Owned(id[u], o) /\ (id[u].pq => MLDSA_AVAILABLE)
  /\ block[u] # Nothing =>
       \E i \in Identities :
         Owned(i, o) /\ (i.pq => MLDSA_AVAILABLE) /\ block[u] = SignBlock(i)

Inv ==
  /\ TypeOK /\ PathSound
  /\ \A s \in Savers : SaverSound(s)
  /\ \A u \in Users : UserSound(u, out)

-----------------------------------------------------------------------------
(* Files and outcomes.                                                     *)

LEMMA FileShapes ==
  ASSUME NEW f \in AnyFile
  PROVE  /\ IsKeyFile(f) <=> f \in KeyFiles
         /\ IsKeyFile(f) => /\ f.keys \in Identities /\ f.open \in BOOLEAN
                            /\ f.readonly \in BOOLEAN
                            /\ [f EXCEPT !.readonly = TRUE] \in KeyFiles
<1>1. f \in KeyFiles => IsKeyFile(f)
  BY PathsAssumption
<1>2. IsKeyFile(f) => f \in KeyFiles
  BY DEF AnyFile, IsKeyFile
<1>3. ASSUME f \in KeyFiles
      PROVE  /\ f.keys \in Identities /\ f.open \in BOOLEAN /\ f.readonly \in BOOLEAN
             /\ [f EXCEPT !.readonly = TRUE] \in KeyFiles
  BY <1>3 DEF KeyFiles
<1>4. QED
  BY <1>1, <1>2, <1>3

\* A success once reported stays reported: owners stay owners.
LEMMA OwnersStay ==
  ASSUME NEW o, NEW n, \A s \in Savers : o[s] = "ok" => n[s] = "ok"
  PROVE  /\ \A i \in Identities : Owned(i, o) => Owned(i, n)
         /\ \A f : SoundFile(f, o) => SoundFile(f, n)
<1>1. \A i \in Identities : Owned(i, o) => Owned(i, n)
  BY DEF Owned, Identities
<1>2. \A f \in KeyFiles : f.keys \in Identities
  BY DEF KeyFiles
<1>3. QED
  BY <1>1, <1>2 DEF SoundFile

\* A step of process p alone leaves the others sound.
LEMMA OthersSound ==
  ASSUME Inv, NEW p \in Procs, out[p] = "ok" => out'[p] = "ok",
         \A q \in Procs \ {p} : pc'[q] = pc[q] /\ id'[q] = id[q] /\ out'[q] = out[q],
         \A s \in Savers \ {p} : tmp'[s] = tmp[s] /\ looked'[s] = looked[s],
         \A u \in Users \ {p} : block'[u] = block[u]
  PROVE  /\ \A s \in Savers : out[s] = "ok" => out'[s] = "ok"
         /\ \A s \in Savers \ {p} : SaverSound(s)'
         /\ \A u \in Users \ {p} : UserSound(u, out)'
<1>1. \A s \in Savers : out[s] = "ok" => out'[s] = "ok"
  BY DEF Procs
<1>2. \A i \in Identities : Owned(i, out) => Owned(i, out')
  BY <1>1, OwnersStay
<1>3. ASSUME NEW s \in Savers \ {p} PROVE SaverSound(s)'
  <2>1. /\ pc'[s] = pc[s] /\ id'[s] = id[s] /\ out'[s] = out[s]
        /\ tmp'[s] = tmp[s] /\ looked'[s] = looked[s] /\ SaverSound(s)
    BY DEF Procs, Inv
  <2>2. QED
    BY <2>1 DEF SaverSound
<1>4. ASSUME NEW u \in Users \ {p} PROVE UserSound(u, out)'
  <2>1. /\ pc'[u] = pc[u] /\ id'[u] = id[u] /\ block'[u] = block[u]
        /\ UserSound(u, out)
    BY DEF Procs, Inv
  <2>2. QED
    BY <1>2, <2>1 DEF UserSound
<1>5. QED
  BY <1>1, <1>3, <1>4

LEMMA InvInit == Init => Inv
<1> SUFFICES ASSUME Init PROVE Inv
  OBVIOUS
<1>1. SoundFile(file, out)
  <2>1. CASE file \in {NoFile, Directory, Stream}
    BY <2>1, PathsAssumption DEF SoundFile, AnyFile, IsKeyFile
  <2>2. CASE file \in KeyFiles /\ file.keys.by = Original
    <3>1. IsKeyFile(file)
      BY <2>2, PathsAssumption
    <3>2. QED
      BY <2>2, <3>1 DEF SoundFile, AnyFile, IsKeyFile, Owned
  <2>3. QED
    BY <2>1, <2>2 DEF Init
<1>2. PathSound
  BY <1>1 DEF Init, PathSound
<1>3. TypeOK
  BY <1>1 DEF Init, TypeOK, SoundFile, AnyFile, Procs
<1>4. \A s \in Savers : SaverSound(s)
  BY <1>1 DEF Init, SaverSound, SaverAt, SoundFile, AnyFile, Procs, Steps, Outs
<1>5. \A u \in Users : UserSound(u, out)
  BY DEF Init, UserSound, Procs
<1>6. QED
  BY <1>2, <1>3, <1>4, <1>5 DEF Inv

-----------------------------------------------------------------------------
(* Every step.                                                             *)


\* A function is itself with any of its values put where it is.
LEMMA Same ==
  ASSUME NEW S, NEW T, NEW g \in [S -> T], NEW x \in S
  PROVE  g = [g EXCEPT ![x] = g[x]]
OBVIOUS

LEMMA Types ==
  ASSUME Inv
  PROVE  /\ pc \in [Procs -> Steps] /\ id \in [Procs -> Identities \union {Nothing}]
         /\ tmp \in [Savers -> Temps \union {Nothing}]
         /\ out \in [Procs -> Outs] /\ looked \in [Savers -> AnyFile]
         /\ DOMAIN block = Users
BY DEF Inv, TypeOK, Steps, Outs

\* The step of saver s to step c, outcome o, with what it then has.
LEMMA SaverStep ==
  ASSUME Inv, NEW s \in Savers, NEW c, NEW i, NEW t, NEW o, NEW f,
         SaverAt(s, c, i, t, o, f), out[s] = "ok" => o = "ok",
         pc' = [pc EXCEPT ![s] = c], id' = [id EXCEPT ![s] = i],
         tmp' = [tmp EXCEPT ![s] = t], out' = [out EXCEPT ![s] = o],
         looked' = [looked EXCEPT ![s] = f], UNCHANGED <<block, left>>
  PROVE  /\ \A r \in Savers : out[r] = "ok" => out'[r] = "ok"
         /\ \A r \in Savers : SaverSound(r)'
         /\ \A u \in Users : UserSound(u, out)'
         /\ file' \in AnyFile /\ disk' \in AnyFile /\ safe' \in BOOLEAN => TypeOK'
         /\ out'[s] = o
<1>1. s \in Procs
  BY DEF Procs
<1>2. /\ \A q \in Procs \ {s} : pc'[q] = pc[q] /\ id'[q] = id[q] /\ out'[q] = out[q]
      /\ \A r \in Savers \ {s} : tmp'[r] = tmp[r] /\ looked'[r] = looked[r]
      /\ pc'[s] = c /\ id'[s] = i /\ tmp'[s] = t /\ out'[s] = o /\ looked'[s] = f
  BY <1>1, Types
<1>3. /\ \A r \in Savers : out[r] = "ok" => out'[r] = "ok"
      /\ \A r \in Savers \ {s} : SaverSound(r)'
      /\ \A u \in Users \ {s} : UserSound(u, out)'
  BY <1>1, <1>2, OthersSound
<1>4. SaverSound(s)'
  BY <1>2 DEF SaverSound
<1>5. \A r \in Savers : SaverSound(r)'
  BY <1>3, <1>4
<1>6. Users \ {s} = Users
  BY ProcessesAssumption
<1>7. /\ c \in Steps /\ i \in Identities \union {Nothing} /\ t \in Temps \union {Nothing}
      /\ o \in Outs /\ f \in AnyFile
  BY DEF SaverAt
<1>8. /\ pc' \in [Procs -> Steps] /\ id' \in [Procs -> Identities \union {Nothing}]
      /\ tmp' \in [Savers -> Temps \union {Nothing}]
      /\ out' \in [Procs -> Outs] /\ looked' \in [Savers -> AnyFile]
  BY <1>1, <1>7, Types
<1>9. \A r \in Savers :
        /\ pc'[r] \in {"write", "sync", "replace"} => tmp'[r] # Nothing /\ id'[r] # Nothing
        /\ pc'[r] = "replace" => tmp'[r].text = "keys"
  BY <1>5, NothingAssumption DEF SaverSound, SaverAt
<1>10. left' \subseteq Faults /\ DOMAIN block' = Users
  BY DEF Inv, TypeOK
<1>11. file' \in AnyFile /\ disk' \in AnyFile /\ safe' \in BOOLEAN => TypeOK'
  BY <1>8, <1>9, <1>10 DEF TypeOK, Steps, Outs
<1>12. QED
  BY <1>2, <1>3, <1>5, <1>6, <1>11

\* One that leaves the path alone.
LEMMA QuietStep ==
  ASSUME Inv, NEW s \in Savers, NEW c, NEW i, NEW t, NEW o, NEW f,
         SaverAt(s, c, i, t, o, f), out[s] = "ok" => o = "ok",
         pc' = [pc EXCEPT ![s] = c], id' = [id EXCEPT ![s] = i],
         tmp' = [tmp EXCEPT ![s] = t], out' = [out EXCEPT ![s] = o],
         looked' = [looked EXCEPT ![s] = f], UNCHANGED <<file, disk, safe, block, left>>
  PROVE  Inv'
<1>1. /\ \A r \in Savers : out[r] = "ok" => out'[r] = "ok"
      /\ \A r \in Savers : SaverSound(r)'
      /\ \A u \in Users : UserSound(u, out)'
      /\ file' \in AnyFile /\ disk' \in AnyFile /\ safe' \in BOOLEAN => TypeOK'
  BY SaverStep
<1>2. PathSound'
  BY <1>1, OwnersStay DEF Inv, PathSound
<1>3. QED
  BY <1>1, <1>2 DEF Inv, TypeOK

LEMMA SaversStep ==
  ASSUME Inv, NEW s \in Savers,
         \/ Create(s) \/ Stat(s) \/ OpenEarlier(s) \/ CreateTemp(s) \/ WriteTemp(s)
         \/ SyncTemp(s) \/ SaveFails(s)
  PROVE  Inv'
<1>1. s \in Procs /\ SaverAt(s, pc[s], id[s], tmp[s], out[s], looked[s])
  BY DEF Inv, Procs, SaverSound
<1>2. /\ pc = [pc EXCEPT ![s] = pc[s]] /\ id = [id EXCEPT ![s] = id[s]]
      /\ tmp = [tmp EXCEPT ![s] = tmp[s]] /\ out = [out EXCEPT ![s] = out[s]]
      /\ looked = [looked EXCEPT ![s] = looked[s]] /\ file \in AnyFile
  BY <1>1, Types, Same DEF Inv, TypeOK
<1>3. CASE Create(s)
  <2>1. PICK asked \in BOOLEAN :
          id' = [id EXCEPT ![s] = [by |-> s, pq |-> asked /\ MLDSA_AVAILABLE]]
    BY <1>3 DEF Create
  <2> DEFINE i == [by |-> s, pq |-> asked /\ MLDSA_AVAILABLE]
  <2>2. i \in Identities /\ i.by = s
    BY FaultsAssumption DEF Identities
  <2> HIDE DEF i
  <2>3. SaverAt(s, "stat", i, tmp[s], out[s], looked[s])
    BY <1>1, <1>3, <2>2 DEF SaverAt, Create, Steps
  <2>4. /\ pc' = [pc EXCEPT ![s] = "stat"] /\ id' = [id EXCEPT ![s] = i]
        /\ tmp' = [tmp EXCEPT ![s] = tmp[s]] /\ out' = [out EXCEPT ![s] = out[s]]
        /\ looked' = [looked EXCEPT ![s] = looked[s]] /\ UNCHANGED <<file, disk, safe, block, left>>
    BY <1>2, <1>3, <2>1 DEF Create, Goto, i
  <2>5. QED
    BY <2>3, <2>4, QuietStep
<1>4. CASE Stat(s)
  <2>1. SaverAt(s, "done", id[s], tmp[s], "oserror", file)
    BY <1>1, <1>2, <1>4 DEF SaverAt, Stat, Steps, Outs
  <2>2. SaverAt(s, "done", id[s], tmp[s], "ok", file)
    BY <1>1, <1>2, <1>4 DEF SaverAt, Stat, Steps, Outs
  <2>3. file = NoFile => SaverAt(s, "create", id[s], tmp[s], out[s], file)
    BY <1>1, <1>2, <1>4, FileShapes DEF SaverAt, Stat, Steps, IsKeyFile
  <2>4. SaverAt(s, "open", id[s], tmp[s], out[s], file)
    BY <1>1, <1>2, <1>4 DEF SaverAt, Stat, Steps
  <2>5. out[s] # "ok"
    BY <1>1, <1>4 DEF SaverAt, Stat
  <2>6. \/ EndWith(s, "oserror") \/ EndWith(s, "ok")
        \/ file = NoFile /\ Goto(s, "create") /\ UNCHANGED out
        \/ Goto(s, "open") /\ UNCHANGED out
    BY <1>4 DEF Stat
  <2>7. looked' = [looked EXCEPT ![s] = file] /\ UNCHANGED <<file, disk, safe, id, tmp, block, left>>
    BY <1>4 DEF Stat
  <2>8. CASE EndWith(s, "oserror")
    <3>1. /\ pc' = [pc EXCEPT ![s] = "done"] /\ id' = [id EXCEPT ![s] = id[s]]
        /\ tmp' = [tmp EXCEPT ![s] = tmp[s]] /\ out' = [out EXCEPT ![s] = "oserror"]
        /\ looked' = [looked EXCEPT ![s] = file] /\ UNCHANGED <<file, disk, safe, block, left>>
      BY <1>2, <2>7, <2>8 DEF Goto, EndWith
    <3>2. QED
      BY <2>1, <2>5, <3>1, QuietStep
  <2>9. CASE EndWith(s, "ok")
    <3>1. /\ pc' = [pc EXCEPT ![s] = "done"] /\ id' = [id EXCEPT ![s] = id[s]]
        /\ tmp' = [tmp EXCEPT ![s] = tmp[s]] /\ out' = [out EXCEPT ![s] = "ok"]
        /\ looked' = [looked EXCEPT ![s] = file] /\ UNCHANGED <<file, disk, safe, block, left>>
      BY <1>2, <2>7, <2>9 DEF Goto, EndWith
    <3>2. QED
      BY <2>2, <2>5, <3>1, QuietStep
  <2>10. CASE file = NoFile /\ Goto(s, "create") /\ UNCHANGED out
    <3>1. /\ pc' = [pc EXCEPT ![s] = "create"] /\ id' = [id EXCEPT ![s] = id[s]]
        /\ tmp' = [tmp EXCEPT ![s] = tmp[s]] /\ out' = [out EXCEPT ![s] = out[s]]
        /\ looked' = [looked EXCEPT ![s] = file] /\ UNCHANGED <<file, disk, safe, block, left>>
      BY <1>2, <2>7, <2>10 DEF Goto
    <3>2. QED
      BY <2>3, <2>10, <3>1, QuietStep
  <2>11. CASE Goto(s, "open") /\ UNCHANGED out
    <3>1. /\ pc' = [pc EXCEPT ![s] = "open"] /\ id' = [id EXCEPT ![s] = id[s]]
        /\ tmp' = [tmp EXCEPT ![s] = tmp[s]] /\ out' = [out EXCEPT ![s] = out[s]]
        /\ looked' = [looked EXCEPT ![s] = file] /\ UNCHANGED <<file, disk, safe, block, left>>
      BY <1>2, <2>7, <2>11 DEF Goto
    <3>2. QED
      BY <2>4, <3>1, QuietStep
  <2>12. QED
    BY <2>6, <2>8, <2>9, <2>10, <2>11
<1>5. CASE OpenEarlier(s)
  <2>1. SaverAt(s, "done", id[s], tmp[s], "oserror", file)
    BY <1>1, <1>2, <1>5 DEF SaverAt, OpenEarlier, Steps, Outs
  <2>2. ASSUME file = Torn \/ (IsKeyFile(file) /\ ~file.readonly)
        PROVE  SaverAt(s, "create", id[s], tmp[s], out[s], file)
    BY <1>1, <1>2, <1>5, <2>2, FileShapes DEF SaverAt, OpenEarlier, Steps, IsKeyFile
  <2>3. out[s] # "ok"
    BY <1>1, <1>5 DEF SaverAt, OpenEarlier
  <2>4. \/ EndWith(s, "oserror")
        \/ /\ file = Torn \/ (IsKeyFile(file) /\ ~file.readonly)
           /\ Goto(s, "create") /\ UNCHANGED out
    BY <1>5 DEF OpenEarlier
  <2>5. looked' = [looked EXCEPT ![s] = file] /\ UNCHANGED <<file, disk, safe, id, tmp, block, left>>
    BY <1>5 DEF OpenEarlier
  <2>6. CASE EndWith(s, "oserror")
    <3>1. /\ pc' = [pc EXCEPT ![s] = "done"] /\ id' = [id EXCEPT ![s] = id[s]]
        /\ tmp' = [tmp EXCEPT ![s] = tmp[s]] /\ out' = [out EXCEPT ![s] = "oserror"]
        /\ looked' = [looked EXCEPT ![s] = file] /\ UNCHANGED <<file, disk, safe, block, left>>
      BY <1>2, <2>5, <2>6 DEF Goto, EndWith
    <3>2. QED
      BY <2>1, <2>3, <3>1, QuietStep
  <2>7. ASSUME file = Torn \/ (IsKeyFile(file) /\ ~file.readonly),
               Goto(s, "create"), UNCHANGED out
        PROVE  Inv'
    <3>1. /\ pc' = [pc EXCEPT ![s] = "create"] /\ id' = [id EXCEPT ![s] = id[s]]
        /\ tmp' = [tmp EXCEPT ![s] = tmp[s]] /\ out' = [out EXCEPT ![s] = out[s]]
        /\ looked' = [looked EXCEPT ![s] = file] /\ UNCHANGED <<file, disk, safe, block, left>>
      BY <1>2, <2>5, <2>7 DEF Goto
    <3>2. QED
      BY <2>2, <2>7, <3>1, QuietStep
  <2>8. QED
    BY <2>4, <2>6, <2>7
<1>6. CASE CreateTemp(s)
  <2> DEFINE t == [text |-> "empty", synced |-> FALSE, open |-> FALSE]
  <2>1. t \in Temps /\ t # Nothing /\ ~t.open
    BY NothingAssumption DEF Temps
  <2> HIDE DEF t
  <2>2. SaverAt(s, "write", id[s], t, out[s], looked[s])
    BY <1>1, <1>6, <2>1 DEF SaverAt, CreateTemp, Steps
  <2>3. /\ pc' = [pc EXCEPT ![s] = "write"] /\ id' = [id EXCEPT ![s] = id[s]]
        /\ tmp' = [tmp EXCEPT ![s] = t] /\ out' = [out EXCEPT ![s] = out[s]]
        /\ looked' = [looked EXCEPT ![s] = looked[s]] /\ UNCHANGED <<file, disk, safe, block, left>>
    BY <1>2, <1>6 DEF CreateTemp, Goto, t
  <2>4. QED
    BY <2>2, <2>3, QuietStep
<1>7. CASE WriteTemp(s)
  <2>1. tmp[s] # Nothing /\ tmp[s] \in Temps /\ ~tmp[s].open /\ pc[s] = "write"
    BY <1>1, <1>7 DEF SaverAt, WriteTemp
  <2> DEFINE t == [tmp[s] EXCEPT !.text = "keys"]
  <2>2. t \in Temps /\ t.text = "keys" /\ t.open = tmp[s].open
    BY <2>1 DEF Temps
  <2>3. t # Nothing
    BY <2>2, NothingAssumption
  <2> HIDE DEF t
  <2>4. SaverAt(s, "sync", id[s], t, out[s], looked[s])
    BY <1>1, <2>1, <2>2, <2>3 DEF SaverAt, Steps
  <2>5. /\ pc' = [pc EXCEPT ![s] = "sync"] /\ id' = [id EXCEPT ![s] = id[s]]
        /\ tmp' = [tmp EXCEPT ![s] = t] /\ out' = [out EXCEPT ![s] = out[s]]
        /\ looked' = [looked EXCEPT ![s] = looked[s]] /\ UNCHANGED <<file, disk, safe, block, left>>
    BY <1>2, <1>7 DEF WriteTemp, Goto, t
  <2>6. QED
    BY <2>4, <2>5, QuietStep
<1>8. CASE SyncTemp(s)
  <2>1. /\ tmp[s] # Nothing /\ tmp[s] \in Temps /\ tmp[s].text = "keys"
        /\ ~tmp[s].open /\ pc[s] = "sync"
    BY <1>1, <1>8 DEF SaverAt, SyncTemp
  <2> DEFINE t == [tmp[s] EXCEPT !.synced = TRUE]
  <2>2. t \in Temps /\ t.text = "keys" /\ t.open = tmp[s].open /\ t.synced
    BY <2>1 DEF Temps
  <2>3. t # Nothing
    BY <2>2, NothingAssumption
  <2> HIDE DEF t
  <2>4. SaverAt(s, "replace", id[s], t, out[s], looked[s])
    BY <1>1, <2>1, <2>2, <2>3 DEF SaverAt, Steps
  <2>5. /\ pc' = [pc EXCEPT ![s] = "replace"] /\ id' = [id EXCEPT ![s] = id[s]]
        /\ tmp' = [tmp EXCEPT ![s] = t] /\ out' = [out EXCEPT ![s] = out[s]]
        /\ looked' = [looked EXCEPT ![s] = looked[s]] /\ UNCHANGED <<file, disk, safe, block, left>>
    BY <1>2, <1>8 DEF SyncTemp, Goto, t
  <2>6. QED
    BY <2>4, <2>5, QuietStep
<1>9. CASE SaveFails(s)
  <2>1. SaverAt(s, "done", id[s], Nothing, "oserror", looked[s])
    BY <1>1, <1>9 DEF SaverAt, SaveFails, Steps, Outs
  <2>2. SaverAt(s, "done", id[s], tmp[s], "unlink_failed", looked[s])
    BY <1>1, <1>9 DEF SaverAt, SaveFails, Steps, Outs
  <2>3. out[s] # "ok"
    BY <1>1, <1>9 DEF SaverAt, SaveFails
  <2>4. QED
    BY <1>2, <1>9, <2>1, <2>2, <2>3, QuietStep DEF SaveFails, Goto, EndWith
<1>10. QED
  BY <1>3, <1>4, <1>5, <1>6, <1>7, <1>8, <1>9

LEMMA ReplaceStep ==
  ASSUME Inv, NEW s \in Savers, Replace(s)
  PROVE  Inv'
<1>1. s \in Procs /\ SaverAt(s, pc[s], id[s], tmp[s], out[s], looked[s])
  BY DEF Inv, Procs, SaverSound
<1>2. /\ id = [id EXCEPT ![s] = id[s]] /\ looked = [looked EXCEPT ![s] = looked[s]]
  BY <1>1, Types, Same
<1>3. /\ pc' = [pc EXCEPT ![s] = "done"] /\ id' = [id EXCEPT ![s] = id[s]]
      /\ tmp' = [tmp EXCEPT ![s] = Nothing] /\ out' = [out EXCEPT ![s] = "ok"]
      /\ looked' = [looked EXCEPT ![s] = looked[s]]
      /\ UNCHANGED <<disk, block, left>>
  BY <1>2 DEF Replace, Goto, EndWith
<1>4. /\ pc[s] = "replace" /\ tmp[s] \in Temps /\ ~tmp[s].open
      /\ tmp[s].text = "keys" /\ tmp[s].synced
      /\ id[s] \in Identities /\ id[s].by = s
  BY <1>1 DEF Replace, SaverAt
<1>5. SaverAt(s, "done", id[s], Nothing, "ok", looked[s])
  BY <1>1, <1>4 DEF SaverAt, Steps, Outs
<1>6. /\ \A r \in Savers : out[r] = "ok" => out'[r] = "ok"
      /\ \A r \in Savers : SaverSound(r)'
      /\ \A u \in Users : UserSound(u, out)'
      /\ file' \in AnyFile /\ disk' \in AnyFile /\ safe' \in BOOLEAN => TypeOK'
      /\ out'[s] = "ok"
  BY <1>3, <1>5, SaverStep
<1>7. /\ file' = [keys |-> id[s], open |-> tmp[s].open, readonly |-> FALSE]
      /\ safe' = tmp[s].synced
  BY <1>4 DEF Replace, KeyFile
<1>8. tmp[s].open = FALSE /\ tmp[s].synced = TRUE
  BY <1>4 DEF Temps
<1>9. file' \in KeyFiles /\ file'.keys = id[s] /\ file'.open = FALSE
  BY <1>4, <1>7, <1>8 DEF KeyFiles
<1>10. file' # Torn
  BY <1>9, PathsAssumption DEF IsKeyFile
<1>11. SoundFile(file', out')
  BY <1>4, <1>6, <1>9, <1>10 DEF SoundFile, Owned, AnyFile
<1>12. SoundFile(disk', out')
  BY <1>3, <1>6, OwnersStay DEF Inv, PathSound
<1>13. PathSound'
  BY <1>7, <1>8, <1>11, <1>12 DEF PathSound
<1>14. QED
  BY <1>6, <1>13 DEF Inv, PathSound, SoundFile

\* A user: the path, the savers and the other users are as they were.
LEMMA UserStep ==
  ASSUME Inv, NEW u \in Users, Load(u) \/ Sign(u)
  PROVE  Inv'
<1>1. u \in Procs /\ u \notin Savers /\ UserSound(u, out)
  BY ProcessesAssumption DEF Inv, Procs
<1>2. /\ \A q \in Procs \ {u} : pc'[q] = pc[q] /\ id'[q] = id[q] /\ out'[q] = out[q]
      /\ UNCHANGED <<file, disk, safe, tmp, left, looked>>
      /\ \A r \in Users \ {u} : block'[r] = block[r]
  BY <1>1, Types DEF Load, Sign, Goto, EndWith
<1>3. /\ \A r \in Savers : out[r] = "ok" => out'[r] = "ok"
      /\ \A r \in Savers : SaverSound(r)'
      /\ \A r \in Users \ {u} : UserSound(r, out)'
  <2>1. \A r \in Savers : out'[r] = out[r]
    BY <1>1, <1>2 DEF Procs
  <2>2. ASSUME NEW r \in Savers PROVE SaverSound(r)'
    <3>1. /\ pc'[r] = pc[r] /\ id'[r] = id[r] /\ out'[r] = out[r]
          /\ tmp'[r] = tmp[r] /\ looked'[r] = looked[r] /\ SaverSound(r)
      BY <1>1, <1>2 DEF Procs, Inv
    <3>2. QED
      BY <3>1 DEF SaverSound
  <2>3. \A i \in Identities : Owned(i, out) => Owned(i, out')
    BY <2>1, OwnersStay
  <2>4. ASSUME NEW r \in Users \ {u} PROVE UserSound(r, out)'
    <3>1. /\ pc'[r] = pc[r] /\ id'[r] = id[r] /\ block'[r] = block[r]
          /\ UserSound(r, out)
      BY <1>1, <1>2 DEF Procs, Inv
    <3>2. QED
      BY <2>3, <3>1 DEF UserSound
  <2>5. QED
    BY <2>1, <2>2, <2>4
<1>4. \A i \in Identities : Owned(i, out) => Owned(i, out')
  BY <1>3, OwnersStay
<1>5. PathSound'
  BY <1>2, <1>3, OwnersStay DEF Inv, PathSound
<1>6. \A r \in Savers :
        /\ pc'[r] = pc[r] /\ id'[r] = id[r] /\ tmp'[r] = tmp[r]
  BY <1>1, <1>2 DEF Procs
<1>7. CASE Load(u)
  <2>1. CASE IsKeyFile(file) /\ (file.keys.pq => MLDSA_AVAILABLE)
    <3>1. file \in KeyFiles /\ file.keys \in Identities /\ Owned(file.keys, out)
      BY <2>1, FileShapes DEF Inv, PathSound, SoundFile
    <3>2. /\ id' = [id EXCEPT ![u] = file.keys] /\ pc' = [pc EXCEPT ![u] = "sign"]
          /\ out' = out /\ block' = block
      BY <1>7, <2>1 DEF Load, Goto
    <3>3. UserSound(u, out)'
      BY <1>1, <2>1, <3>1, <3>2, Types DEF UserSound
    <3>4. TypeOK'
      BY <1>1, <1>2, <1>6, <3>1, <3>2 DEF Inv, TypeOK
    <3>5. QED
      BY <1>3, <1>5, <3>3, <3>4 DEF Inv
  <2>2. CASE ~(IsKeyFile(file) /\ (file.keys.pq => MLDSA_AVAILABLE))
    <3>1. /\ id' = id /\ pc' = [pc EXCEPT ![u] = "done"]
          /\ out' = [out EXCEPT ![u] = "exception"] /\ block' = block
      BY <1>7, <2>2 DEF Load, Goto, EndWith
    <3>2. UserSound(u, out)'
      BY <1>1, <1>4, <3>1, Types DEF UserSound
    <3>3. TypeOK'
      BY <1>1, <1>2, <1>6, <3>1 DEF Inv, TypeOK
    <3>4. QED
      BY <1>3, <1>5, <3>2, <3>3 DEF Inv
  <2>3. QED
    BY <2>1, <2>2
<1>8. CASE Sign(u)
  <2>1. /\ pc[u] = "sign" /\ pc' = [pc EXCEPT ![u] = "done"] /\ id' = id
        /\ out' = [out EXCEPT ![u] = "ok"] /\ block' = [block EXCEPT ![u] = SignBlock(id[u])]
    BY <1>8 DEF Sign, Goto, EndWith
  <2>2. id[u] \in Identities /\ Owned(id[u], out) /\ (id[u].pq => MLDSA_AVAILABLE)
    BY <1>1, <2>1 DEF UserSound
  <2>3. pc'[u] = "done" /\ block'[u] = SignBlock(id[u])
    BY <1>1, <2>1, Types
  <2>4. UserSound(u, out)'
    BY <1>4, <2>2, <2>3 DEF UserSound
  <2>5. TypeOK'
    BY <1>1, <1>2, <1>6, <2>1 DEF Inv, TypeOK
  <2>6. QED
    BY <1>3, <1>5, <2>4, <2>5 DEF Inv
<1>9. QED
  BY <1>7, <1>8

\* The environment kills processes, and names at the path what was there.
LEMMA EnvironmentStep ==
  ASSUME Inv,
         (\E p \in Procs : Kill(p)) \/ FlushDirectory \/ PowerLoss \/ Chmod \/ Remove
  PROVE  Inv'
<1>1. ASSUME UNCHANGED <<id, tmp, block, out, looked>>, pc' \in [Procs -> Steps],
             \A p \in Procs : pc'[p] = pc[p] \/ (Running(p) /\ pc'[p] = "dead")
      PROVE  /\ \A s \in Savers : SaverSound(s)'
             /\ \A u \in Users : UserSound(u, out)'
             /\ \A s \in Savers :
                  /\ pc'[s] \in {"write", "sync", "replace"} =>
                       tmp'[s] # Nothing /\ id'[s] # Nothing
                  /\ pc'[s] = "replace" => tmp'[s].text = "keys"
  <2>1. ASSUME NEW s \in Savers PROVE SaverSound(s)'
    <3>1. SaverAt(s, pc[s], id[s], tmp[s], out[s], looked[s])
      BY DEF Inv, SaverSound
    <3>2. Running(s) => SaverAt(s, "dead", id[s], tmp[s], out[s], looked[s])
      BY <3>1 DEF SaverAt, Running, Steps
    <3>3. SaverAt(s, pc'[s], id[s], tmp[s], out[s], looked[s])
      BY <1>1, <3>1, <3>2 DEF Procs
    <3>4. QED
      BY <1>1, <3>3 DEF SaverSound
  <2>2. ASSUME NEW u \in Users PROVE UserSound(u, out)'
    <3>1. UserSound(u, out) /\ (pc'[u] = pc[u] \/ pc'[u] = "dead")
      BY <1>1 DEF Inv, Procs
    <3>2. QED
      BY <1>1, <3>1 DEF UserSound
  <2>3. QED
    BY <2>1, <2>2, NothingAssumption DEF SaverSound, SaverAt
<1>2. ASSUME NEW p \in Procs, Kill(p) PROVE Inv'
  <2>1. /\ Running(p) /\ pc' = [pc EXCEPT ![p] = "dead"]
        /\ UNCHANGED <<file, disk, safe, id, tmp, block, out, left, looked>>
    BY <1>2 DEF Kill, Goto
  <2>2. pc' \in [Procs -> Steps]
    BY <2>1, Types DEF Steps
  <2>3. \A q \in Procs : pc'[q] = pc[q] \/ (Running(q) /\ pc'[q] = "dead")
    BY <2>1, Types
  <2>4. TypeOK'
    BY <1>1, <2>1, <2>2, <2>3 DEF Inv, TypeOK, Steps
  <2>5. QED
    BY <1>1, <2>1, <2>2, <2>3, <2>4 DEF Inv, PathSound
<1>3. CASE PowerLoss
  <2>1. /\ pc' = [p \in Procs |-> IF Running(p) THEN "dead" ELSE pc[p]]
        /\ file' = disk /\ safe' = TRUE /\ left' \subseteq left
        /\ UNCHANGED <<disk, id, tmp, block, out, looked>>
    BY <1>3 DEF PowerLoss
  <2>2. pc' \in [Procs -> Steps]
    BY <2>1, Types DEF Steps
  <2>3. \A q \in Procs : pc'[q] = pc[q] \/ (Running(q) /\ pc'[q] = "dead")
    BY <2>1
  <2>4. TypeOK'
    BY <1>1, <2>1, <2>2, <2>3 DEF Inv, TypeOK, Steps
  <2>5. QED
    BY <1>1, <2>1, <2>2, <2>3, <2>4 DEF Inv, PathSound
<1>4. ASSUME UNCHANGED <<pc, id, tmp, block, out, looked>>, left' \subseteq left,
             SoundFile(file', out), SoundFile(disk', out), safe' = TRUE
      PROVE  Inv'
  <2>1. pc' \in [Procs -> Steps] /\ \A p \in Procs : pc'[p] = pc[p]
    BY <1>4, Types
  <2>2. TypeOK'
    BY <1>4 DEF Inv, TypeOK, SoundFile
  <2>3. QED
    BY <1>1, <1>4, <2>1, <2>2 DEF Inv, PathSound
<1>5. CASE FlushDirectory
  BY <1>4, <1>5 DEF FlushDirectory, Inv, PathSound
<1>6. CASE Chmod
  <2>1. file' = [file EXCEPT !.readonly = TRUE] /\ IsKeyFile(file)
    BY <1>6 DEF Chmod
  <2>2. file \in KeyFiles /\ SoundFile(file, out)
    BY <2>1, FileShapes DEF Inv, PathSound, SoundFile
  <2>3. file' \in KeyFiles /\ file'.keys = file.keys /\ file'.open = file.open
    BY <2>1, <2>2 DEF KeyFiles
  <2>4. SoundFile(file', out)
    BY <2>2, <2>3, PathsAssumption DEF SoundFile, AnyFile, IsKeyFile
  <2>5. QED
    BY <1>4, <1>6, <2>4 DEF Chmod, Inv, PathSound
<1>7. CASE Remove
  <2>1. SoundFile(NoFile, out)
    BY PathsAssumption DEF SoundFile, AnyFile, IsKeyFile
  <2>2. QED
    BY <1>4, <1>7, <2>1 DEF Remove, Inv, PathSound
<1>8. QED
  BY <1>2, <1>3, <1>5, <1>6, <1>7

LEMMA InvStep == Inv /\ [Next]_vars => Inv'
<1> SUFFICES ASSUME Inv, [Next]_vars PROVE Inv'
  OBVIOUS
<1>1. CASE UNCHANGED vars
  BY <1>1 DEF vars, Inv, TypeOK, PathSound, SaverSound, UserSound
<1>2. CASE Next
  BY <1>2, SaversStep, ReplaceStep, UserStep, EnvironmentStep DEF Next
<1>3. QED
  BY <1>1, <1>2

-----------------------------------------------------------------------------
(* Theorems.                                                               *)

THEOREM Invariance == Spec => []Inv
BY InvInit, InvStep, PTL DEF Spec

\* Every variable keeps its shape.
THEOREM TypeCorrect == Spec => []TypeOK
<1>1. Inv => TypeOK
  BY DEF Inv
<1>2. QED
  BY <1>1, Invariance, PTL

\* For any number of saves and any faults, what the path names is whole and of an
\* identity that was there or whose save reported success, and new private keys
\* are nowhere where others may read them.
THEOREM KeyFileStaysSound == Spec => []KeyFileSound
<1>1. Inv => KeyFileSound
  <2> SUFFICES ASSUME Inv PROVE KeyFileSound
    OBVIOUS
  <2>1. ASSUME NEW f \in {file, disk}
        PROVE  /\ f # Torn
               /\ IsKeyFile(f) /\ f.keys.by # Original => out[f.keys.by] = "ok" /\ ~f.open
    <3>1. SoundFile(f, out)
      BY DEF Inv, PathSound
    <3>2. QED
      BY <3>1, FileShapes DEF SoundFile, Owned
  <2>2. ASSUME NEW s \in Savers
        PROVE  tmp[s] # Nothing => ~tmp[s].open /\ (pc[s] # "done" \/ out[s] = "unlink_failed")
    BY DEF Inv, SaverSound, SaverAt
  <2>3. QED
    BY <2>1, <2>2 DEF KeyFileSound
<1>2. QED
  BY <1>1, Invariance, PTL

\* No save, in any interleaving with chmod and other saves, replaces a read-only
\* key file that it had seen to be one.
THEOREM ReadOnlyKeysAreKept == Spec => ReadOnlyKeysStay
<1> DEFINE Kept == \A s \in Savers :
                     out[s] # "ok" /\ out'[s] = "ok" /\ IsKeyFile(file) /\ file.readonly =>
                       looked[s] # file
<1>1. Inv /\ [Next]_vars => [Kept]_vars
  <2> SUFFICES ASSUME Inv, Next, NEW s \in Savers, out[s] # "ok", out'[s] = "ok",
                      IsKeyFile(file), file.readonly, looked[s] = file
               PROVE  FALSE
    OBVIOUS
  <2>1. s \in Procs /\ file \in AnyFile /\ out \in [Procs -> Outs]
    BY Types DEF Inv, TypeOK, Procs
  <2>2. Stat(s) \/ Replace(s)
    <3>1. ASSUME NEW r \in Savers,
                 \/ Create(r) \/ OpenEarlier(r) \/ CreateTemp(r) \/ WriteTemp(r)
                 \/ SyncTemp(r) \/ SaveFails(r)
          PROVE  FALSE
      BY <2>1, <3>1 DEF Create, OpenEarlier, CreateTemp, WriteTemp, SyncTemp, SaveFails,
         EndWith, Procs
    <3>2. ASSUME NEW r \in Savers \ {s}, Stat(r) \/ Replace(r) PROVE FALSE
      BY <2>1, <3>2 DEF Stat, Replace, EndWith, Procs
    <3>3. ASSUME NEW u \in Users, Load(u) \/ Sign(u) PROVE FALSE
      BY <2>1, <3>3, ProcessesAssumption DEF Load, Sign, EndWith, Procs
    <3>4. ASSUME \/ \E p \in Procs : Kill(p)
                 \/ FlushDirectory \/ PowerLoss \/ Chmod \/ Remove
          PROVE  FALSE
      BY <3>4 DEF Kill, FlushDirectory, PowerLoss, Chmod, Remove
    <3>5. QED
      BY <3>1, <3>2, <3>3, <3>4 DEF Next
  <2>3. CASE Stat(s)
    BY <2>1, <2>3 DEF Stat, EndWith, IsKeyFile
  <2>4. CASE Replace(s)
    <3>1. looked[s] \in KeyFiles => ~looked[s].readonly
      BY <2>4 DEF Replace, Inv, SaverSound, SaverAt
    <3>2. QED
      BY <2>1, <3>1, FileShapes
  <2>5. QED
    BY <2>2, <2>3, <2>4
<1>2. QED
  BY <1>1, Invariance, PTL DEF Spec, ReadOnlyKeysStay

LEMMA SignedEntries ==
  ASSUME NEW i \in Identities
  PROVE  V!BlockEntries(SignBlock(i)) = {Entry(i, a) : a \in Algs(i)}
<1> DEFINE e == Entry(i, "ed25519")
           m == Entry(i, "ml-dsa-65")
           entries == SignBlock(i).entries
<1>1. V!BlockEntries(SignBlock(i)) = {entries[k] : k \in DOMAIN entries}
  BY DEF V!BlockEntries
<1>2. CASE i.pq
  <2>1. entries = <<e, m>> /\ Algs(i) = {"ed25519", "ml-dsa-65"}
    BY <1>2 DEF SignBlock, Algs
  <2> HIDE DEF e, m, entries
  <2>2. {entries[k] : k \in DOMAIN entries} = {e, m}
    BY <2>1
  <2>3. {Entry(i, a) : a \in Algs(i)} = {e, m}
    BY <2>1 DEF e, m
  <2>4. QED
    BY <1>1, <2>2, <2>3
<1>3. CASE ~i.pq
  <2>1. entries = <<e>> /\ Algs(i) = {"ed25519"}
    BY <1>3 DEF SignBlock, Algs
  <2> HIDE DEF e, entries
  <2>2. {entries[k] : k \in DOMAIN entries} = {e}
    BY <2>1
  <2>3. {Entry(i, a) : a \in Algs(i)} = {e}
    BY <2>1 DEF e
  <2>4. QED
    BY <1>1, <2>2, <2>3
<1>4. QED
  BY <1>2, <1>3

\* What a whole identity signs is ok, trusted under its public keys and says
\* hybrid exactly where a post-quantum signature passes.
LEMMA SignedIsGood ==
  ASSUME NEW i \in Identities, i.pq => MLDSA_AVAILABLE
  PROVE  /\ V!BlockOk(SignBlock(i))
         /\ V!Trusted(SignBlock(i), PublicKeys(i)) = "true"
         /\ {e.key : e \in V!BlockEntries(SignBlock(i))} = PublicKeys(i)
         /\ V!PqProtected(SignBlock(i), PublicKeys(i)) <=> SignBlock(i).scheme = "hybrid"
<1> DEFINE b == SignBlock(i)
           E == {Entry(i, a) : a \in Algs(i)}
<1>1. V!BlockEntries(b) = E
  BY SignedEntries
<1>2. \A a : /\ Entry(i, a).shape = TRUE /\ Entry(i, a).alg = a /\ Entry(i, a).sig = TRUE
             /\ Entry(i, a).key = <<i.by, a>>
  BY DEF Entry
<1>3. /\ "ed25519" \in Algs(i) /\ Algs(i) \subseteq {"ed25519", "ml-dsa-65"}
      /\ "ml-dsa-65" \in Algs(i) <=> i.pq
  BY DEF Algs
<1>4. ASSUME NEW e \in E PROVE V!Status(e) = "PASS" /\ e.alg \in Algs(i)
  <2>1. PICK a \in Algs(i) : e = Entry(i, a)
    OBVIOUS
  <2>2. a \in {"ed25519", "ml-dsa-65"} /\ (a = "ml-dsa-65" => MLDSA_AVAILABLE)
    BY <1>3
  <2>3. QED
    BY <1>2, <2>1, <2>2 DEF V!Status, V!POST_QUANTUM
<1>5. {e.alg : e \in E} = Algs(i)
  BY <1>2
<1>6. {e.key : e \in E} = PublicKeys(i)
  <2>1. \A a \in Algs(i) : Entry(i, a) \in E /\ Entry(i, a).key = <<i.by, a>>
    BY <1>2
  <2>2. \A e \in E : \E a \in Algs(i) : e.key = <<i.by, a>>
    BY <1>2
  <2> HIDE DEF E
  <2>3. QED
    BY <2>1, <2>2 DEF PublicKeys
<1>7. Entry(i, "ed25519") \in E /\ PublicKeys(i) # Nothing
  BY <1>3, NothingAssumption
<1>8. b.scheme = IF i.pq THEN "hybrid" ELSE "classical-only"
  BY DEF SignBlock
<1> HIDE DEF E, b
<1>9. V!SchemeOk(b)
  BY <1>1, <1>3, <1>5, <1>8 DEF V!SchemeOk, V!POST_QUANTUM, V!CLASSICAL
<1>10. V!BlockOk(b)
  BY <1>1, <1>4, <1>7, <1>9 DEF V!BlockOk
<1>11. \A e \in E : V!KeyTrusted(e, PublicKeys(i))
  BY <1>6, <1>7 DEF V!KeyTrusted
<1>12. V!Trusted(b, PublicKeys(i)) = "true"
  BY <1>1, <1>7, <1>10, <1>11 DEF V!Trusted
<1>13. V!PqProtected(b, PublicKeys(i)) <=> \E e \in E : e.alg = "ml-dsa-65"
  BY <1>1, <1>4, <1>6, <1>10 DEF V!PqProtected, V!POST_QUANTUM
<1>14. (\E e \in E : e.alg = "ml-dsa-65") <=> i.pq
  BY <1>3, <1>5
<1>15. QED
  BY <1>1, <1>6, <1>8, <1>10, <1>12, <1>13, <1>14 DEF b

\* Whatever happens to the file while it is saved, loaded and used, what is
\* signed verifies under the keys of one identity that owned the file.
THEOREM BlocksVerify == Spec => []SignedBlocksVerify
<1>1. Inv => SignedBlocksVerify
  <2> SUFFICES ASSUME Inv, NEW u \in Users, block[u] # Nothing
               PROVE  \E i \in Identities :
                        /\ i.by = Original \/ out[i.by] = "ok"
                        /\ V!BlockOk(block[u])
                        /\ V!Trusted(block[u], PublicKeys(i)) = "true"
                        /\ {e.key : e \in V!BlockEntries(block[u])} = PublicKeys(i)
                        /\ V!PqProtected(block[u], PublicKeys(i)) <=> block[u].scheme = "hybrid"
    BY DEF SignedBlocksVerify
  <2>1. PICK i \in Identities :
          Owned(i, out) /\ (i.pq => MLDSA_AVAILABLE) /\ block[u] = SignBlock(i)
    BY DEF Inv, UserSound
  <2>2. QED
    BY <2>1, SignedIsGood DEF Owned
<1>2. QED
  BY <1>1, Invariance, PTL
=============================================================================
