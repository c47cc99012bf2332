--------------------------- MODULE PackFileProofs ---------------------------
(***************************************************************************)
(* Proofs about PackFile, for any number of stamps, signs and builds.      *)
(***************************************************************************)
EXTENDS PackLog, SequenceTheorems, TLAPS

\* A pack with one more token, or with a producer block, is a pack.
LEMMA BlocksType ==
  ASSUME NEW f \in Packs
  PROVE  /\ \A t \in Tokens : [f EXCEPT !.anchors = Append(@, t)] \in Packs
         /\ \A s \in Signatures : [f EXCEPT !.sig = s] \in Packs
  BY DEF Packs

\* A process that has read or sealed a pack holds one in memory.
Loaded ==
  \A p \in Procs :
    pc[p] \in (Locked \ {"read"}) \union {"sign"} => ev[p] \in Packs

LEMMA InitialPack ==
  ASSUME NEW f \in InitialPacks
  PROVE  f \in Packs /\ f.anchors = <<>> /\ f.sig = NoSig
<1>1. PICK d \in {Original, Altered} :
        f = [content |-> Original, digest |-> d, anchors |-> <<>>,
             sig |-> NoSig]
  BY DEF InitialPacks
<1>2. QED
  BY <1>1 DEF Packs, Contents, Digests

LEMMA TypeInit == Init => TypeOK /\ Loaded
<1> SUFFICES ASSUME Init PROVE TypeOK /\ Loaded
  OBVIOUS
<1> USE DEF Init
<1>1. pack \in Packs \union {NoPack}
  BY InitialPack
<1>2. TypeOK
  BY <1>1, ValuesAssumption DEF TypeOK, Steps, Outcomes
<1>3. Loaded
  BY DEF Loaded, Locked
<1>4. QED
  BY <1>2, <1>3

LEMMA TypeStep == TypeOK /\ Loaded /\ [Next]_vars => TypeOK' /\ Loaded'
<1> SUFFICES ASSUME TypeOK, Loaded, [Next]_vars PROVE TypeOK' /\ Loaded'
  OBVIOUS
<1> USE DEF TypeOK, Loaded, Goto, Decide, Excuses, env, Steps, Locked, Outcomes
<1>1. ASSUME NEW p \in Stampers, Stamp(p) PROVE TypeOK' /\ Loaded'
  <2>1. CASE OpenDirectory(p) \/ LockFails(p)
    BY <2>1 DEF OpenDirectory, LockFails, Procs
  <2>2. CASE LockDirectory(p)
    BY <2>2 DEF LockDirectory, Procs
  <2>3. CASE ReadToStamp(p)
    BY <2>3 DEF ReadToStamp, Stampable, IsPack, Procs
  <2>4. QED
    BY <1>1, <2>1, <2>2, <2>3 DEF Stamp
<1>2. ASSUME NEW p \in Stampers \union Builders, TokenArrives(p)
      PROVE  TypeOK' /\ Loaded'
  <2>1. p \in Procs /\ ev[p] \in Packs
    BY <1>2 DEF TokenArrives, Procs
  <2>2. PICK d \in Digests :
          ev' = [ev EXCEPT ![p].anchors = Append(@, [imprint |-> d, by |-> p])]
    BY <1>2 DEF TokenArrives
  <2>3. [imprint |-> d, by |-> p] \in Tokens
    BY <2>1 DEF Tokens
  <2>4. [ev[p] EXCEPT !.anchors = Append(@, [imprint |-> d, by |-> p])]
          \in Packs
    BY <2>1, <2>3, BlocksType
  <2>5. ev' \in [Procs -> Packs \union {NoPack}] /\ ev'[p] \in Packs
    BY <2>1, <2>2, <2>4
  <2>6. \A q \in Procs : q # p => ev'[q] = ev[q]
    BY <2>2
  <2>7. QED
    BY <1>2, <2>1, <2>5, <2>6 DEF TokenArrives
<1>3. ASSUME NEW p \in Stampers \union Builders, NoToken(p)
      PROVE  TypeOK' /\ Loaded'
  BY <1>3 DEF NoToken, Procs
<1>4. ASSUME NEW p \in Signers, ReadToSign(p) PROVE TypeOK' /\ Loaded'
  BY <1>4 DEF ReadToSign, IsPack, Procs
<1>5. ASSUME NEW p \in Signers, SignDigest(p) PROVE TypeOK' /\ Loaded'
  <2>1. p \in Procs /\ ev[p] \in Packs
    BY <1>5 DEF SignDigest, Procs
  <2>2. [over |-> ev[p].digest, by |-> p] \in Signatures
    BY <2>1 DEF Signatures, Packs
  <2>3. [ev[p] EXCEPT !.sig = [over |-> ev[p].digest, by |-> p]] \in Packs
    BY <2>1, <2>2, BlocksType
  <2>4. /\ ev' \in [Procs -> Packs \union {NoPack}]
        /\ ev'[p] \in Packs
        /\ \A q \in Procs : q # p => ev'[q] = ev[q]
    BY <1>5, <2>1, <2>3 DEF SignDigest
  <2>5. QED
    BY <1>5, <2>1, <2>4 DEF SignDigest
<1>6. ASSUME NEW p \in Builders, Seal(p) PROVE TypeOK' /\ Loaded'
  <2>1. [content |-> p, digest |-> p, anchors |-> <<>>, sig |-> NoSig]
          \in Packs
    BY DEF Packs, Contents, Digests
  <2>2. QED
    BY <1>6, <2>1 DEF Seal, Procs
<1>7. ASSUME NEW p \in Procs, Write(p) PROVE TypeOK' /\ Loaded'
  <2>1. CASE CheckSize(p)
    BY <2>1 DEF CheckSize
  <2>2. CASE StatPack(p)
    BY <2>2 DEF StatPack
  <2>3. CASE CreateTemp(p)
    BY <2>3 DEF CreateTemp
  <2>4. CASE WriteTemp(p)
    BY <2>4 DEF WriteTemp
  <2>5. CASE SyncTemp(p)
    BY <2>5 DEF SyncTemp
  <2>6. CASE ReplacePack(p)
    BY <2>6 DEF ReplacePack
  <2>7. CASE WriteFails(p)
    BY <2>7 DEF WriteFails
  <2>8. CASE Close(p)
    BY <2>8 DEF Close
  <2>9. QED
    BY <1>7, <2>1, <2>2, <2>3, <2>4, <2>5, <2>6, <2>7, <2>8 DEF Write
<1>8. ASSUME NEW p \in Procs, Kill(p) PROVE TypeOK' /\ Loaded'
  BY <1>8 DEF Kill
<1>9. CASE FlushDirectory
  BY <1>9 DEF FlushDirectory
<1>10. CASE PowerLoss
  BY <1>10 DEF PowerLoss
<1>11. CASE RemovePack
  BY <1>11 DEF RemovePack
<1>12. CASE UNCHANGED vars
  BY <1>12 DEF vars
<1>13. QED
  BY <1>1, <1>2, <1>3, <1>4, <1>5, <1>6, <1>7, <1>8, <1>9, <1>10, <1>11,
     <1>12 DEF Next

\* Every variable of PackFile keeps its type.
THEOREM TypeCorrect == Spec => []TypeOK
<1>1. TypeOK /\ Loaded /\ [Next]_vars => (TypeOK /\ Loaded)'
  BY TypeStep
<1>2. QED
  BY TypeInit, <1>1, PTL DEF Spec

-----------------------------------------------------------------------------
(* The critical section of add_anchor.                                     *)

\* A stamp between its read and its rename holds the lock.
LockInv ==
  Flock => \A p \in Stampers : pc[p] \in Locked => lock = p

LEMMA LockStep == TypeOK /\ LockInv /\ [Next]_vars => LockInv'
<1> SUFFICES ASSUME TypeOK, LockInv, [Next]_vars PROVE LockInv'
  OBVIOUS
<1> USE ProcsAssumption
    DEF TypeOK, LockInv, Goto, Decide, Excuses, env, Locked, Procs
<1>1. ASSUME NEW p \in Stampers, Stamp(p) PROVE LockInv'
  BY <1>1 DEF Stamp, OpenDirectory, LockDirectory, LockFails, ReadToStamp
<1>2. ASSUME NEW p \in Stampers \union Builders, TokenArrives(p) \/ NoToken(p)
      PROVE  LockInv'
  BY <1>2 DEF TokenArrives, NoToken
<1>3. ASSUME NEW p \in Signers, ReadToSign(p) \/ SignDigest(p) PROVE LockInv'
  BY <1>3 DEF ReadToSign, SignDigest
<1>4. ASSUME NEW p \in Builders, Seal(p) PROVE LockInv'
  BY <1>4 DEF Seal
<1>5. ASSUME NEW p \in Procs, Write(p) PROVE LockInv'
  BY <1>5 DEF Write, CheckSize, StatPack, CreateTemp, WriteTemp, SyncTemp,
     ReplacePack, WriteFails, Close
<1>6. ASSUME NEW p \in Procs, Kill(p) PROVE LockInv'
  BY <1>6 DEF Kill
<1>7. CASE FlushDirectory \/ RemovePack
  BY <1>7 DEF FlushDirectory, RemovePack
<1>8. CASE PowerLoss
  BY <1>8 DEF PowerLoss, Running
<1>9. CASE UNCHANGED vars
  BY <1>9 DEF vars
<1>10. QED
  BY <1>1, <1>2, <1>3, <1>4, <1>5, <1>6, <1>7, <1>8, <1>9 DEF Next

\* With a flock, at most one stamp is between its read and its rename.
THEOREM StampsExclude == Spec => []OneStampAtATime
<1>1. Init => LockInv
  BY DEF Init, LockInv, Locked, Procs
<1>2. TypeOK /\ LockInv /\ [Next]_vars => LockInv'
  BY LockStep
<1>3. LockInv => OneStampAtATime
  BY DEF LockInv, OneStampAtATime
<1>4. QED
  BY <1>1, <1>2, <1>3, TypeCorrect, PTL DEF Spec

-----------------------------------------------------------------------------
(* The file at the path is whole.                                          *)

\* What is renamed has been written and synced, so neither the page cache
\* nor the disk ever names an unfinished file.
WholeInv ==
  /\ pack # Torn /\ disk # Torn /\ safe
  /\ \A p \in Procs : pc[p] = "replace" => tmp[p] = "synced"

LEMMA WholeStep == TypeOK /\ Loaded /\ WholeInv /\ [Next]_vars => WholeInv'
<1> SUFFICES ASSUME TypeOK, Loaded, WholeInv, [Next]_vars PROVE WholeInv'
  OBVIOUS
<1> USE ProcsAssumption, NullsAssumption
    DEF TypeOK, WholeInv, Goto, Decide, Excuses, env, Procs
<1>1. ASSUME NEW p \in Stampers, Stamp(p) PROVE WholeInv'
  BY <1>1, ZenonT(40) DEF Stamp, OpenDirectory, LockDirectory, LockFails, ReadToStamp
<1>2. ASSUME NEW p \in Stampers \union Builders, TokenArrives(p) \/ NoToken(p)
      PROVE  WholeInv'
  BY <1>2, ZenonT(40) DEF TokenArrives, NoToken
<1>3. ASSUME NEW p \in Signers, ReadToSign(p) \/ SignDigest(p) PROVE WholeInv'
  BY <1>3, ZenonT(40) DEF ReadToSign, SignDigest
<1>4. ASSUME NEW p \in Builders, Seal(p) PROVE WholeInv'
  BY <1>4 DEF Seal
<1>5. ASSUME NEW p \in Procs, Write(p) PROVE WholeInv'
  <2>1. CASE ReplacePack(p)
    BY <1>5, <2>1 DEF ReplacePack, Loaded, Locked
  <2>2. CASE CheckSize(p) \/ StatPack(p)
    BY <2>2, ZenonT(40) DEF CheckSize, StatPack
  <2>3. CASE CreateTemp(p) \/ WriteTemp(p)
    BY <2>3 DEF CreateTemp, WriteTemp
  <2>4. CASE SyncTemp(p)
    BY <2>4 DEF SyncTemp
  <2>5. CASE WriteFails(p) \/ Close(p)
    <3>1. pack' = pack /\ disk' = disk /\ safe' = safe
      BY <2>5 DEF WriteFails, Close
    <3>2. pc'[p] # "replace"
      BY <2>5 DEF WriteFails, Close
    <3>3. \A q \in Procs : q # p => pc'[q] = pc[q] /\ tmp'[q] = tmp[q]
      BY <2>5 DEF WriteFails, Close
    <3>4. QED
      BY <3>1, <3>2, <3>3
  <2>6. QED
    BY <1>5, <2>1, <2>2, <2>3, <2>4, <2>5 DEF Write
<1>6. ASSUME NEW p \in Procs, Kill(p) PROVE WholeInv'
  BY <1>6 DEF Kill
<1>7. CASE FlushDirectory
  BY <1>7 DEF FlushDirectory
<1>8. CASE RemovePack
  <2>1. NoPack # Torn
    OBVIOUS
  <2>2. QED
    BY <1>8, <2>1 DEF RemovePack
<1>9. CASE PowerLoss
  BY <1>9 DEF PowerLoss, Running
<1>10. CASE UNCHANGED vars
  BY <1>10 DEF vars
<1>11. QED
  BY <1>1, <1>2, <1>3, <1>4, <1>5, <1>6, <1>7, <1>8, <1>9, <1>10 DEF Next

\* Kills, power losses and any interleaving leave a whole pack at the path.
THEOREM PackIsWhole == Spec => []WholePack
<1>1. Init => WholeInv
  BY InitialPack, NullsAssumption DEF Init, WholeInv
<1>2. TypeOK /\ Loaded /\ WholeInv /\ [Next]_vars => WholeInv'
  BY WholeStep
<1>3. WholeInv => WholePack
  BY DEF WholeInv, WholePack
<1>4. TypeOK /\ Loaded /\ [Next]_vars => (TypeOK /\ Loaded)'
  BY TypeStep
<1>5. QED
  BY TypeInit, <1>1, <1>2, <1>3, <1>4, PTL DEF Spec

-----------------------------------------------------------------------------
(* What a rename keeps.                                                    *)

LEMMA TokenAppended ==
  ASSUME NEW f \in Packs, NEW t \in Tokens,
         NEW g, g = [f EXCEPT !.anchors = Append(@, t)]
  PROVE  /\ g \in Packs
         /\ Holds(g, t.by)
         /\ \A q : Holds(f, q) => Holds(g, q)
         /\ g.sig = f.sig /\ g.content = f.content /\ g.digest = f.digest
         /\ f.digest = f.content /\ t.imprint = f.content /\ Coherent(f)
              => Coherent(g)
<1>1. /\ g \in Packs
      /\ g.sig = f.sig /\ g.content = f.content /\ g.digest = f.digest
      /\ g.anchors = Append(f.anchors, t)
  <2>1. g \in Packs
    BY BlocksType
  <2>2. QED
    BY <2>1 DEF Packs
<1>2. /\ f.anchors \in Seq(Tokens)
      /\ DOMAIN f.anchors = 1..Len(f.anchors)
      /\ DOMAIN g.anchors = 1..(Len(f.anchors) + 1)
      /\ g.anchors[Len(f.anchors) + 1] = t
      /\ \A i \in 1..Len(f.anchors) : g.anchors[i] = f.anchors[i]
  BY <1>1 DEF Packs
<1>3. IsPack(g)
  BY <1>1, NullsAssumption DEF IsPack
<1>4. Len(f.anchors) \in Nat
  BY <1>2
<1>5. Holds(g, t.by)
  BY <1>2, <1>3, <1>4 DEF Holds
<1>6. \A q : Holds(f, q) => Holds(g, q)
  BY <1>2, <1>3, <1>4 DEF Holds
<1>7. ASSUME f.digest = f.content, t.imprint = f.content, Coherent(f)
      PROVE  Coherent(g)
  <2>1. \A i \in DOMAIN g.anchors :
          g.anchors[i].imprint = g.content /\ g.digest = g.content
    BY <1>1, <1>2, <1>4, <1>7 DEF Coherent
  <2>2. QED
    BY <1>1, <1>7, <2>1 DEF Coherent
<1>8. QED
  BY <1>1, <1>5, <1>6, <1>7

LEMMA BlockSigned ==
  ASSUME NEW f \in Packs, NEW s \in Signatures,
         NEW g, g = [f EXCEPT !.sig = s]
  PROVE  /\ g \in Packs
         /\ g.sig = s /\ g.sig # NoSig
         /\ \A q : Holds(f, q) => Holds(g, q)
         /\ s.over = f.digest /\ Coherent(f) => Coherent(g)
<1>1. /\ g \in Packs /\ g.sig = s
      /\ g.anchors = f.anchors /\ g.content = f.content /\ g.digest = f.digest
  BY DEF Packs
<1>2. IsPack(g) /\ s # NoSig
  BY <1>1, NullsAssumption DEF IsPack
<1>3. QED
  BY <1>1, <1>2 DEF Holds, Coherent

\* Steps at which a process holds the pack it will write ...
Holding == (Locked \ {"read"}) \union {"sign"}
\* ... and, of those, the ones after its own block was added.
Blocked == Holding \ {"tsa", "sign"}

\* g has every block of f.
Keeps(f, g) ==
  /\ \A q \in Stampers : Holds(f, q) => Holds(g, q)
  /\ IsPack(f) /\ f.sig # NoSig => IsPack(g) /\ g.sig # NoSig

\* A process that will rename its file holds a pack that has its own block
\* and every block of the file it read.
EvInv ==
  \A p \in Procs :
    /\ p \in Builders => seen[p] = NoPack
    /\ pc[p] \in Holding /\ p \notin Builders => Keeps(seen[p], ev[p])
    /\ pc[p] \in Blocked /\ p \in Stampers => Holds(ev[p], p)
    /\ pc[p] \in Blocked /\ p \in Signers => ev[p].sig # NoSig

LEMMA EvStep == TypeOK /\ Loaded /\ EvInv /\ [Next]_vars => EvInv'
<1> SUFFICES ASSUME TypeOK, Loaded, EvInv, [Next]_vars PROVE EvInv'
  OBVIOUS
<1> USE ProcsAssumption
    DEF EvInv, Goto, Decide, Excuses, env, Locked, Holding, Blocked
<1>1. ASSUME NEW p \in Stampers, Stamp(p) PROVE EvInv'
  <2>1. CASE ReadToStamp(p)
    BY <2>1 DEF ReadToStamp, Keeps, TypeOK, Procs
  <2>2. CASE OpenDirectory(p) \/ LockDirectory(p) \/ LockFails(p)
    BY <2>2 DEF OpenDirectory, LockDirectory, LockFails, TypeOK, Procs
  <2>3. QED
    BY <1>1, <2>1, <2>2 DEF Stamp
<1>2. ASSUME NEW p \in Stampers \union Builders, TokenArrives(p) PROVE EvInv'
  <2>1. p \in Procs /\ ev[p] \in Packs
    BY <1>2 DEF TokenArrives, Procs, Loaded
  <2>2. PICK d \in Digests :
          ev' = [ev EXCEPT ![p].anchors = Append(@, [imprint |-> d, by |-> p])]
    BY <1>2 DEF TokenArrives
  <2>3. [imprint |-> d, by |-> p] \in Tokens
    BY <2>1 DEF Tokens
  <2>4. ev'[p] = [ev[p] EXCEPT !.anchors =
                    Append(@, [imprint |-> d, by |-> p])]
    BY <2>1, <2>2 DEF TypeOK
  <2>5. /\ Holds(ev'[p], p)
        /\ \A q : Holds(ev[p], q) => Holds(ev'[p], q)
        /\ ev'[p].sig = ev[p].sig /\ ev'[p] \in Packs
    BY <2>1, <2>3, <2>4, TokenAppended
  <2>6. IsPack(ev'[p]) /\ (Keeps(seen[p], ev[p]) => Keeps(seen[p], ev'[p]))
    BY <2>1, <2>5, NullsAssumption DEF Keeps, IsPack
  <2>7. /\ seen' = seen /\ pc[p] = "tsa" /\ pc' = [pc EXCEPT ![p] = "size"]
        /\ \A q \in Procs : q # p => ev'[q] = ev[q]
    BY <1>2, <2>1, <2>2 DEF TokenArrives, TypeOK
  <2>8. p \notin Signers
    BY <1>2
  <2>9. QED
    BY <2>1, <2>5, <2>6, <2>7, <2>8 DEF TypeOK
<1>3. ASSUME NEW p \in Stampers \union Builders, NoToken(p) PROVE EvInv'
  BY <1>3 DEF NoToken, TypeOK, Procs
<1>4. ASSUME NEW p \in Signers, ReadToSign(p) PROVE EvInv'
  BY <1>4 DEF ReadToSign, Keeps, TypeOK, Procs
<1>5. ASSUME NEW p \in Signers, SignDigest(p) PROVE EvInv'
  <2>1. p \in Procs /\ ev[p] \in Packs
    BY <1>5 DEF SignDigest, Procs, Loaded
  <2>2. [over |-> ev[p].digest, by |-> p] \in Signatures
    BY <2>1 DEF Signatures, Packs
  <2>3. /\ ev'[p] = [ev[p] EXCEPT !.sig = [over |-> ev[p].digest, by |-> p]]
        /\ \A q \in Procs : q # p => ev'[q] = ev[q]
        /\ seen' = seen /\ pc[p] = "sign" /\ pc' = [pc EXCEPT ![p] = "size"]
    BY <1>5, <2>1 DEF SignDigest, TypeOK
  <2>4. /\ ev'[p] \in Packs /\ ev'[p].sig # NoSig
        /\ \A q : Holds(ev[p], q) => Holds(ev'[p], q)
    BY <2>1, <2>2, <2>3, BlockSigned
  <2>5. IsPack(ev'[p]) /\ (Keeps(seen[p], ev[p]) => Keeps(seen[p], ev'[p]))
    BY <2>4, NullsAssumption DEF Keeps, IsPack
  <2>6. QED
    BY <1>5, <2>1, <2>3, <2>4, <2>5 DEF TypeOK
<1>6. ASSUME NEW p \in Builders, Seal(p) PROVE EvInv'
  BY <1>6 DEF Seal, TypeOK, Procs
<1>7. ASSUME NEW p \in Procs, Write(p) PROVE EvInv'
  BY <1>7 DEF Write, CheckSize, StatPack, CreateTemp, WriteTemp, SyncTemp,
     ReplacePack, WriteFails, Close, TypeOK
<1>8. ASSUME NEW p \in Procs, Kill(p) PROVE EvInv'
  BY <1>8 DEF Kill, TypeOK
<1>9. CASE FlushDirectory \/ RemovePack
  BY <1>9 DEF FlushDirectory, RemovePack
<1>10. CASE PowerLoss
  BY <1>10 DEF PowerLoss, Running, TypeOK
<1>11. CASE UNCHANGED vars
  BY <1>11 DEF vars
<1>12. QED
  BY <1>1, <1>2, <1>3, <1>4, <1>5, <1>6, <1>7, <1>8, <1>9, <1>10, <1>11
  DEF Next

\* What was written is in the pack as long as nothing excuses its absence.
KeptInv ==
  /\ StampsKept
  /\ SignatureKept

LEMMA KeptStep ==
  TypeOK /\ Loaded /\ WholeInv /\ EvInv /\ KeptInv /\ [Next]_vars => KeptInv'
<1> SUFFICES ASSUME TypeOK, Loaded, WholeInv, EvInv, KeptInv, [Next]_vars
             PROVE  KeptInv'
  OBVIOUS
<1> USE ProcsAssumption
    DEF KeptInv, StampsKept, SignatureKept, Goto, Decide, Excuses, env, TypeOK,
        Procs
<1>1. ASSUME NEW p \in Stampers, Stamp(p) PROVE KeptInv'
  BY <1>1 DEF Stamp, OpenDirectory, LockDirectory, LockFails, ReadToStamp
<1>2. ASSUME NEW p \in Stampers \union Builders, TokenArrives(p) \/ NoToken(p)
      PROVE  KeptInv'
  BY <1>2 DEF TokenArrives, NoToken
<1>3. ASSUME NEW p \in Signers, ReadToSign(p) \/ SignDigest(p) PROVE KeptInv'
  BY <1>3 DEF ReadToSign, SignDigest
<1>4. ASSUME NEW p \in Builders, Seal(p) PROVE KeptInv'
  BY <1>4 DEF Seal
<1>5. ASSUME NEW p \in Procs, Write(p) PROVE KeptInv'
  <2>1. CASE ReplacePack(p)
    <3>1. /\ pack' = ev[p] /\ pc[p] = "replace" /\ ev[p] \in Packs
          /\ out' = [out EXCEPT ![p] = "ok"]
      BY <1>5, <2>1 DEF ReplacePack, Loaded, Locked, WholeInv
    <3>2. IsPack(pack')
      BY <3>1, NullsAssumption DEF IsPack
    <3>3. /\ p \in Stampers => Holds(pack', p)
          /\ p \in Signers => pack'.sig # NoSig
      BY <3>1 DEF EvInv, Blocked, Holding, Locked
    <3>4. CASE pack = seen[p]
      <4>1. Keeps(pack, pack')
        BY <3>1, <3>4 DEF EvInv, Keeps, Holds, IsPack, Holding, Locked
      <4>2. excuse' = excuse
        BY <2>1, <3>4 DEF ReplacePack
      <4>3. QED
        BY <3>1, <3>2, <3>3, <4>1, <4>2 DEF Keeps
    <3>5. CASE pack # seen[p]
      <4>1. \A q \in Procs : out[q] = "ok" => excuse'[q] # {}
        BY <2>1, <3>5 DEF ReplacePack
      <4>2. QED
        BY <3>1, <3>2, <3>3, <4>1
    <3>6. QED
      BY <3>4, <3>5
  <2>2. CASE ~ReplacePack(p)
    BY <1>5, <2>2 DEF Write, CheckSize, StatPack, CreateTemp, WriteTemp,
       SyncTemp, WriteFails, Close
  <2>3. QED
    BY <2>1, <2>2
<1>6. ASSUME NEW p \in Procs, Kill(p) PROVE KeptInv'
  BY <1>6 DEF Kill
<1>7. CASE FlushDirectory
  BY <1>7 DEF FlushDirectory
<1>8. CASE RemovePack
  BY <1>8 DEF RemovePack
<1>9. CASE PowerLoss
  BY <1>9 DEF PowerLoss, Running
<1>10. CASE UNCHANGED vars
  BY <1>10 DEF vars
<1>11. QED
  BY <1>1, <1>2, <1>3, <1>4, <1>5, <1>6, <1>7, <1>8, <1>9, <1>10 DEF Next

\* Everything the two theorems about lost blocks rest on.
SafeInv == TypeOK /\ Loaded /\ WholeInv /\ EvInv /\ KeptInv

LEMMA SafeInit == Init => SafeInv
<1> SUFFICES ASSUME Init PROVE SafeInv
  OBVIOUS
<1>1. TypeOK /\ Loaded
  BY TypeInit
<1>2. WholeInv
  BY InitialPack, NullsAssumption DEF Init, WholeInv
<1>3. EvInv
  BY DEF Init, EvInv, Holding, Blocked, Locked, Procs
<1>4. KeptInv
  BY DEF Init, KeptInv, StampsKept, SignatureKept, Procs
<1>5. QED
  BY <1>1, <1>2, <1>3, <1>4 DEF SafeInv

LEMMA SafeStep == SafeInv /\ [Next]_vars => SafeInv'
  BY TypeStep, WholeStep, EvStep, KeptStep DEF SafeInv

\* An anchor stays in the pack until an event that excuses its loss.
THEOREM StampsAreKept == Spec => []StampsKept
<1>1. SafeInv => StampsKept
  BY DEF SafeInv, KeptInv
<1>2. QED
  BY SafeInit, SafeStep, <1>1, PTL DEF Spec

\* A producer block stays in the pack until an event that excuses its loss.
THEOREM SignatureIsKept == Spec => []SignatureKept
<1>1. SafeInv => SignatureKept
  BY DEF SafeInv, KeptInv
<1>2. QED
  BY SafeInit, SafeStep, <1>1, PTL DEF Spec

\* Likewise both blocks at once.
THEOREM BlocksAreKept == Spec => []BlocksKept
<1>1. StampsKept /\ SignatureKept => BlocksKept
  BY DEF BlocksKept
<1>2. QED
  BY StampsAreKept, SignatureIsKept, <1>1, PTL

-----------------------------------------------------------------------------
(* A pack's blocks speak of that pack.                                     *)

CoherentInv ==
  /\ IsPack(pack) => Coherent(pack)
  /\ IsPack(disk) => Coherent(disk)
  /\ \A p \in Procs : pc[p] \in Holding =>
       /\ Coherent(ev[p])
       /\ p \notin Signers => ev[p].digest = ev[p].content

LEMMA CoherentStep ==
  TypeOK /\ Loaded /\ WholeInv /\ CoherentInv /\ [Next]_vars => CoherentInv'
<1> SUFFICES ASSUME TypeOK, Loaded, WholeInv, CoherentInv, [Next]_vars
             PROVE  CoherentInv'
  OBVIOUS
<1> USE ProcsAssumption
    DEF CoherentInv, Goto, Decide, Excuses, env, Locked, Holding
<1>1. ASSUME NEW p \in Stampers, Stamp(p) PROVE CoherentInv'
  BY <1>1 DEF Stamp, OpenDirectory, LockDirectory, LockFails, ReadToStamp, Stampable,
     TypeOK, Procs
<1>2. ASSUME NEW p \in Stampers \union Builders, TokenArrives(p)
      PROVE  CoherentInv'
  <2>1. p \in Procs /\ p \notin Signers /\ pc[p] = "tsa" /\ ev[p] \in Packs
    BY <1>2 DEF TokenArrives, Procs, Loaded
  <2> DEFINE t == [imprint |-> ev[p].content, by |-> p]
  <2>2. t \in Tokens /\ t.imprint = ev[p].content
    BY <1>2, <2>1 DEF Tokens, TokenArrives
  <2>3. ev'[p] = [ev[p] EXCEPT !.anchors = Append(@, t)]
    BY <1>2, <2>1 DEF TokenArrives, TypeOK
  <2>4. /\ Coherent(ev'[p])
        /\ ev'[p].digest = ev'[p].content
    <3>1. ev[p].digest = ev[p].content /\ Coherent(ev[p])
      BY <2>1
    <3> HIDE DEF t
    <3>2. QED
      BY <2>1, <2>2, <2>3, <3>1, TokenAppended
  <2>5. /\ pc' = [pc EXCEPT ![p] = "size"] /\ pack' = pack /\ disk' = disk
        /\ \A q \in Procs : q # p => ev'[q] = ev[q]
    BY <1>2, <2>1 DEF TokenArrives, TypeOK
  <2>6. QED
    BY <2>1, <2>4, <2>5 DEF TypeOK
<1>3. ASSUME NEW p \in Stampers \union Builders, NoToken(p) PROVE CoherentInv'
  BY <1>3 DEF NoToken, TypeOK, Procs
<1>4. ASSUME NEW p \in Signers, ReadToSign(p) PROVE CoherentInv'
  BY <1>4 DEF ReadToSign, TypeOK, Procs
<1>5. ASSUME NEW p \in Signers, SignDigest(p) PROVE CoherentInv'
  <2>1. p \in Procs /\ pc[p] = "sign" /\ ev[p] \in Packs
    BY <1>5 DEF SignDigest, Procs, Loaded
  <2> DEFINE s == [over |-> ev[p].digest, by |-> p]
  <2>2. s \in Signatures /\ s.over = ev[p].digest
    BY <2>1 DEF Signatures, Packs
  <2>3. ev'[p] = [ev[p] EXCEPT !.sig = s]
    BY <1>5, <2>1 DEF SignDigest, TypeOK
  <2>4. Coherent(ev'[p])
    <3>1. Coherent(ev[p])
      BY <2>1
    <3> HIDE DEF s
    <3>2. QED
      BY <2>1, <2>2, <2>3, <3>1, BlockSigned
  <2>5. /\ pc' = [pc EXCEPT ![p] = "size"] /\ pack' = pack /\ disk' = disk
        /\ \A q \in Procs : q # p => ev'[q] = ev[q]
    BY <1>5, <2>1 DEF SignDigest, TypeOK
  <2>6. QED
    BY <2>1, <2>4, <2>5 DEF TypeOK
<1>6. ASSUME NEW p \in Builders, Seal(p) PROVE CoherentInv'
  <2> DEFINE f == [content |-> p, digest |-> p, anchors |-> <<>>,
                   sig |-> NoSig]
  <2>1. Coherent(f) /\ f.digest = f.content
    BY DEF Coherent
  <2>2. CASE ev' = [ev EXCEPT ![p] = f]
    <3> HIDE DEF f
    <3>1. QED
      BY <1>6, <2>1, <2>2 DEF Seal, TypeOK, Procs
  <2>3. CASE UNCHANGED ev /\ Decide(p, "refused")
    BY <1>6, <2>3 DEF Seal, TypeOK, Procs
  <2>4. QED
    BY <1>6, <2>2, <2>3 DEF Seal
<1>7. ASSUME NEW p \in Procs, Write(p) PROVE CoherentInv'
  <2>1. CASE ReplacePack(p)
    BY <1>7, <2>1 DEF ReplacePack, TypeOK, WholeInv
  <2>2. CASE ~ReplacePack(p)
    BY <1>7, <2>2 DEF Write, CheckSize, StatPack, CreateTemp, WriteTemp,
       SyncTemp, WriteFails, Close, TypeOK
  <2>3. QED
    BY <2>1, <2>2
<1>8. ASSUME NEW p \in Procs, Kill(p) PROVE CoherentInv'
  BY <1>8 DEF Kill, TypeOK
<1>9. CASE FlushDirectory
  BY <1>9 DEF FlushDirectory, WholeInv
<1>10. CASE RemovePack
  BY <1>10 DEF RemovePack, IsPack
<1>11. CASE PowerLoss
  BY <1>11 DEF PowerLoss, Running, TypeOK
<1>12. CASE UNCHANGED vars
  BY <1>12 DEF vars
<1>13. QED
  BY <1>1, <1>2, <1>3, <1>4, <1>5, <1>6, <1>7, <1>8, <1>9, <1>10, <1>11, <1>12
  DEF Next

\* Whoever rewrites it and in whatever order, the pack's tokens and its
\* producer block are about the content and the digest beside them.
THEOREM PackIsCoherent == Spec => []CoherentPack
<1>1. Init => CoherentInv
  <2> SUFFICES ASSUME Init PROVE CoherentInv
    OBVIOUS
  <2>1. IsPack(pack) => Coherent(pack)
    BY InitialPack DEF Init, IsPack, Coherent
  <2>2. QED
    BY <2>1 DEF Init, CoherentInv, Holding, Locked, Procs
<1>2. SafeInv /\ CoherentInv /\ [Next]_vars => CoherentInv'
  BY CoherentStep DEF SafeInv
<1>3. CoherentInv => CoherentPack
  BY DEF CoherentInv, CoherentPack
<1>4. QED
  BY SafeInit, SafeStep, <1>1, <1>2, <1>3, PTL DEF Spec

-----------------------------------------------------------------------------
(* A reader can read the pack: it is whole and within the bound.            *)

LEMMA SizeType == ASSUME NEW f \in Packs PROVE Size(f) \in Nat
<1>1. Len(f.anchors) \in Nat
  BY DEF Packs
<1>2. SignBlocks(f) \in {0, 1}
  BY DEF SignBlocks
<1>3. QED
  BY <1>1, <1>2 DEF Size

\* Steps after the size was looked at.
Measured == {"stat", "create", "write", "sync", "replace"}

\* Initial packs are within the bound; what is written has been measured, and
\* is not added to after.
BoundInv ==
  /\ IsPack(pack) => Size(pack) <= SizeBound
  /\ IsPack(disk) => Size(disk) <= SizeBound
  /\ \A p \in Procs : pc[p] \in Measured => Size(ev[p]) <= SizeBound

LEMMA BoundStep ==
  TypeOK /\ Loaded /\ WholeInv /\ BoundInv /\ [Next]_vars => BoundInv'
<1> SUFFICES ASSUME TypeOK, Loaded, WholeInv, BoundInv, [Next]_vars
             PROVE  BoundInv'
  OBVIOUS
<1> USE ProcsAssumption
    DEF TypeOK, BoundInv, Goto, Decide, Excuses, env, Measured, Procs
<1>1. ASSUME NEW p \in Stampers, Stamp(p) PROVE BoundInv'
  BY <1>1 DEF Stamp, OpenDirectory, LockDirectory, LockFails, ReadToStamp
<1>2. ASSUME NEW p \in Stampers \union Builders, TokenArrives(p) \/ NoToken(p)
      PROVE  BoundInv'
  <2>1. pack' = pack /\ disk' = disk /\ pc'[p] \notin Measured
    BY <1>2 DEF TokenArrives, NoToken
  <2>2. \A q \in Procs : q # p => pc'[q] = pc[q] /\ ev'[q] = ev[q]
    BY <1>2 DEF TokenArrives, NoToken
  <2>3. QED
    BY <2>1, <2>2
<1>3. ASSUME NEW p \in Signers, ReadToSign(p) \/ SignDigest(p) PROVE BoundInv'
  BY <1>3 DEF ReadToSign, SignDigest
<1>4. ASSUME NEW p \in Builders, Seal(p) PROVE BoundInv'
  BY <1>4 DEF Seal
<1>5. ASSUME NEW p \in Procs, Write(p) PROVE BoundInv'
  <2>1. CASE ReplacePack(p)
    <3>1. pack' = ev[p] /\ disk' = disk /\ ev' = ev
      BY <1>5, <2>1 DEF ReplacePack, WholeInv
    <3>2. pc[p] = "replace" /\ pc' = [pc EXCEPT ![p] = "close"]
      BY <2>1 DEF ReplacePack
    <3>3. QED
      BY <1>5, <3>1, <3>2
  <2>2. CASE CheckSize(p)
    <3>1. pc[p] = "size" /\ ev[p] \in Packs
      BY <2>2 DEF CheckSize, Loaded, Locked
    <3>2. Size(ev[p]) \in Nat
      BY <3>1, SizeType
    <3>3. pc'[p] \in Measured => Size(ev[p]) <= SizeBound
      BY <2>2, <3>2, ValuesAssumption DEF CheckSize
    <3>4. pack' = pack /\ disk' = disk /\ ev' = ev
          /\ \A q \in Procs : q # p => pc'[q] = pc[q]
      BY <2>2 DEF CheckSize
    <3>5. QED
      BY <3>3, <3>4
  <2>3. CASE ~ReplacePack(p) /\ ~CheckSize(p)
    BY <1>5, <2>3 DEF Write, StatPack, CreateTemp, WriteTemp, SyncTemp,
       WriteFails, Close
  <2>4. QED
    BY <2>1, <2>2, <2>3
<1>6. ASSUME NEW p \in Procs, Kill(p) PROVE BoundInv'
  BY <1>6 DEF Kill
<1>7. CASE FlushDirectory
  BY <1>7 DEF FlushDirectory, WholeInv
<1>8. CASE RemovePack
  BY <1>8 DEF RemovePack, IsPack
<1>9. CASE PowerLoss
  BY <1>9 DEF PowerLoss, Running
<1>10. CASE UNCHANGED vars
  BY <1>10 DEF vars
<1>11. QED
  BY <1>1, <1>2, <1>3, <1>4, <1>5, <1>6, <1>7, <1>8, <1>9, <1>10 DEF Next

\* Whoever writes it and whatever is cut, what the path names is absent or a
\* whole pack that is not too large for a verifier.
THEOREM PackIsReadable == Spec => []ReadablePack
<1>1. Init => BoundInv
  <2> SUFFICES ASSUME Init PROVE BoundInv
    OBVIOUS
  <2>1. IsPack(pack) => Size(pack) <= SizeBound
    <3>1. SUFFICES ASSUME IsPack(pack) PROVE Size(pack) <= SizeBound
      OBVIOUS
    <3>2. pack.anchors = <<>> /\ pack.sig = NoSig
      BY <3>1, InitialPack DEF Init, IsPack
    <3>3. Size(pack) = 1
      BY <3>2 DEF Size, SignBlocks
    <3>4. QED
      BY <3>3, ValuesAssumption
  <2>2. QED
    BY <2>1 DEF Init, BoundInv, Measured
<1>2. SafeInv /\ BoundInv /\ [Next]_vars => BoundInv'
  BY BoundStep DEF SafeInv
<1>3. SafeInv /\ BoundInv => ReadablePack
  BY DEF SafeInv, WholeInv, BoundInv, ReadablePack, WholePack, WithinBound
<1>4. QED
  BY SafeInit, SafeStep, <1>1, <1>2, <1>3, PTL DEF Spec

-----------------------------------------------------------------------------
(* A run that fails leaves no trace.                                       *)

\* A block shows its writer, and the others that showed before.
LEMMA TokenTraces ==
  ASSUME NEW f \in Packs, NEW t \in Tokens,
         NEW g, g = [f EXCEPT !.anchors = Append(@, t)]
  PROVE  \A q : Trace(g, q) => q = t.by \/ Trace(f, q)
<1>1. g.sig = f.sig /\ g.content = f.content
  BY TokenAppended
<1>2. /\ DOMAIN f.anchors = 1..Len(f.anchors) /\ Len(f.anchors) \in Nat
      /\ DOMAIN g.anchors = 1..(Len(f.anchors) + 1)
      /\ g.anchors[Len(f.anchors) + 1] = t
      /\ \A i \in 1..Len(f.anchors) : g.anchors[i] = f.anchors[i]
  BY DEF Packs
<1>3. IsPack(f)
  BY NullsAssumption DEF IsPack
<1>4. ASSUME NEW q, Holds(g, q) PROVE q = t.by \/ Holds(f, q)
  BY <1>2, <1>3, <1>4 DEF Holds
<1>5. QED
  BY <1>1, <1>3, <1>4 DEF Trace

LEMMA SignTraces ==
  ASSUME NEW f \in Packs, NEW s \in Signatures,
         NEW g, g = [f EXCEPT !.sig = s]
  PROVE  \A q : Trace(g, q) => q = s.by \/ Trace(f, q)
<1>1. g.sig = s /\ g.anchors = f.anchors /\ g.content = f.content
  BY DEF Packs
<1>2. IsPack(f)
  BY NullsAssumption DEF IsPack
<1>3. QED
  BY <1>1, <1>2 DEF Trace, Holds

\* What shows in a file, or in what a process other than its writer holds, was
\* renamed onto the path by a run that is over but for its closing; a temporary
\* file is there from its creation to its rename, and later where it could not
\* be removed or its process was killed.
FailInv ==
  /\ \A p \in Procs : Trace(pack, p) \/ Trace(disk, p) => out[p] = "ok"
  /\ \A p, q \in Procs :
       pc[q] \in Holding /\ p # q /\ Trace(ev[q], p) => out[p] = "ok"
  /\ \A p \in Procs : out[p] = "ok" => pc[p] \in {"close", "done", "dead"}
  /\ \A p \in Procs : tmp[p] # "none" =>
       \/ pc[p] \in {"write", "sync", "replace", "dead"}
       \/ pc[p] \in {"close", "done"} /\ out[p] = "ioerr"

LEMMA FailStep ==
  TypeOK /\ Loaded /\ WholeInv /\ FailInv /\ [Next]_vars => FailInv'
<1> SUFFICES ASSUME TypeOK, Loaded, WholeInv, FailInv, [Next]_vars
             PROVE  FailInv'
  OBVIOUS
<1> USE ProcsAssumption
    DEF TypeOK, FailInv, Goto, Decide, Excuses, env, Locked, Holding, Procs
<1>1. ASSUME NEW p \in Stampers, Stamp(p) PROVE FailInv'
  <2>1. CASE ReadToStamp(p)
    BY <2>1 DEF ReadToStamp
  <2>2. CASE OpenDirectory(p) \/ LockDirectory(p) \/ LockFails(p)
    BY <2>2 DEF OpenDirectory, LockDirectory, LockFails
  <2>3. QED
    BY <1>1, <2>1, <2>2 DEF Stamp
<1>2. ASSUME NEW p \in Stampers \union Builders, TokenArrives(p) PROVE FailInv'
  <2>1. p \in Procs /\ pc[p] = "tsa" /\ ev[p] \in Packs
    BY <1>2 DEF TokenArrives, Loaded
  <2> DEFINE t == [imprint |-> ev[p].content, by |-> p]
  <2>2. t \in Tokens /\ t.by = p
    BY <1>2, <2>1 DEF Tokens, TokenArrives
  <2>3. ev'[p] = [ev[p] EXCEPT !.anchors = Append(@, t)]
    <3>1. ev' = [ev EXCEPT ![p].anchors = Append(@, t)]
      BY <1>2 DEF TokenArrives
    <3> HIDE DEF t, FailInv
    <3>2. QED
      BY <2>1, <3>1
  <2>4. \A q : Trace(ev'[p], q) => q = p \/ Trace(ev[p], q)
    <3> HIDE DEF t
    <3>1. QED
      BY <2>1, <2>2, <2>3, TokenTraces
  <2>5. /\ pc' = [pc EXCEPT ![p] = "size"] /\ pack' = pack /\ disk' = disk
        /\ out' = out /\ tmp' = tmp
        /\ \A q \in Procs : q # p => ev'[q] = ev[q]
    BY <1>2, <2>1 DEF TokenArrives
  <2> HIDE DEF t
  <2>6. \A r, q \in Procs :
          pc'[q] \in Holding /\ r # q /\ Trace(ev'[q], r) => out'[r] = "ok"
    BY <2>1, <2>4, <2>5
  <2>7. \A q \in Procs : pc'[q] = pc[q] \/ (q = p /\ out[p] # "ok" /\ tmp[p] = "none")
    BY <2>1, <2>5
  <2>8. QED
    BY <2>5, <2>6, <2>7
<1>3. ASSUME NEW p \in Stampers \union Builders, NoToken(p) PROVE FailInv'
  BY <1>3 DEF NoToken
<1>4. ASSUME NEW p \in Signers, ReadToSign(p) PROVE FailInv'
  BY <1>4 DEF ReadToSign
<1>5. ASSUME NEW p \in Signers, SignDigest(p) PROVE FailInv'
  <2>1. p \in Procs /\ pc[p] = "sign" /\ ev[p] \in Packs
    BY <1>5 DEF SignDigest, Loaded
  <2> DEFINE s == [over |-> ev[p].digest, by |-> p]
  <2>2. s \in Signatures /\ s.by = p
    BY <2>1 DEF Signatures, Packs
  <2>3. ev'[p] = [ev[p] EXCEPT !.sig = s]
    BY <1>5, <2>1 DEF SignDigest
  <2>4. \A q : Trace(ev'[p], q) => q = p \/ Trace(ev[p], q)
    <3> HIDE DEF s
    <3>1. QED
      BY <2>1, <2>2, <2>3, SignTraces
  <2>5. /\ pc' = [pc EXCEPT ![p] = "size"] /\ pack' = pack /\ disk' = disk
        /\ out' = out /\ tmp' = tmp
        /\ \A q \in Procs : q # p => ev'[q] = ev[q]
    BY <1>5, <2>1 DEF SignDigest
  <2> HIDE DEF s
  <2>6. \A r, q \in Procs :
          pc'[q] \in Holding /\ r # q /\ Trace(ev'[q], r) => out'[r] = "ok"
    BY <2>1, <2>4, <2>5
  <2>7. \A q \in Procs : pc'[q] = pc[q] \/ (q = p /\ out[p] # "ok" /\ tmp[p] = "none")
    BY <2>1, <2>5
  <2>8. QED
    BY <2>5, <2>6, <2>7
<1>6. ASSUME NEW p \in Builders, Seal(p) PROVE FailInv'
  <2> DEFINE f == [content |-> p, digest |-> p, anchors |-> <<>>,
                   sig |-> NoSig]
  <2>1. \A q : Trace(f, q) => q = p
    BY DEF Trace, Holds
  <2>2. CASE ev' = [ev EXCEPT ![p] = f]
    <3> HIDE DEF f
    <3>1. QED
      BY <1>6, <2>1, <2>2 DEF Seal
  <2>3. CASE UNCHANGED ev /\ Decide(p, "refused")
    BY <1>6, <2>3 DEF Seal
  <2>4. QED
    BY <1>6, <2>2, <2>3 DEF Seal
<1>7. ASSUME NEW p \in Procs, Write(p) PROVE FailInv'
  <2>1. CASE ReplacePack(p)
    <3>1. /\ pc[p] = "replace" /\ pc' = [pc EXCEPT ![p] = "close"]
          /\ pack' = ev[p] /\ disk' = disk /\ ev' = ev
          /\ out' = [out EXCEPT ![p] = "ok"] /\ tmp' = [tmp EXCEPT ![p] = "none"]
      BY <1>7, <2>1 DEF ReplacePack, WholeInv
    <3>2. \A q \in Procs : Trace(pack', q) => out'[q] = "ok"
      BY <1>7, <3>1
    <3>3. QED
      BY <1>7, <3>1, <3>2
  <2>2. CASE ~ReplacePack(p)
    BY <1>7, <2>2 DEF Write, CheckSize, StatPack, CreateTemp, WriteTemp,
       SyncTemp, WriteFails, Close
  <2>3. QED
    BY <2>1, <2>2
<1>8. ASSUME NEW p \in Procs, Kill(p) PROVE FailInv'
  BY <1>8 DEF Kill
<1>9. CASE FlushDirectory
  BY <1>9 DEF FlushDirectory, WholeInv
<1>10. CASE RemovePack
  BY <1>10 DEF RemovePack, Trace, IsPack
<1>11. CASE PowerLoss
  BY <1>11 DEF PowerLoss, Running
<1>12. CASE UNCHANGED vars
  BY <1>12 DEF vars
<1>13. QED
  BY <1>1, <1>2, <1>3, <1>4, <1>5, <1>6, <1>7, <1>8, <1>9, <1>10, <1>11, <1>12
  DEF Next

\* A run that fails, at whichever step, leaves the pack as it was, also after
\* a power loss, and no temporary file unless the I/O failed.
THEOREM FailuresLeaveThePack == Spec => []FailureLeavesThePack
<1>1. Init => FailInv
  <2> SUFFICES ASSUME Init PROVE FailInv
    OBVIOUS
  <2>1. ASSUME NEW p \in Procs PROVE ~Trace(pack, p)
    <3>1. CASE pack = NoPack
      BY <3>1 DEF Trace, IsPack
    <3>2. CASE pack \in InitialPacks
      <4>1. pack.anchors = <<>> /\ pack.sig = NoSig /\ pack.content = Original
        BY <3>2 DEF InitialPacks
      <4>2. Original # p
        BY ValuesAssumption
      <4>3. QED
        BY <4>1, <4>2 DEF Trace, Holds
    <3>3. QED
      BY <3>1, <3>2 DEF Init
  <2>2. QED
    BY <2>1 DEF Init, FailInv, Holding, Locked
<1>2. SafeInv /\ FailInv /\ [Next]_vars => FailInv'
  BY FailStep DEF SafeInv
<1>3. FailInv => FailureLeavesThePack
  BY DEF FailInv, FailureLeavesThePack
<1>4. QED
  BY SafeInit, SafeStep, <1>1, <1>2, <1>3, PTL DEF Spec

-----------------------------------------------------------------------------
(* Stamps under a flock are the only writers.                              *)

OnlyStamps ==
  Flock /\ Signers = {} /\ Builders = {} /\ Faults \subseteq {"kill", "nolock"}

\* The stamp that holds the lock read the file that is still at the path.
FreshInv ==
  /\ left = Faults
  /\ \A p \in Procs : pc[p] # "sign"
  /\ \A p \in Procs : pc[p] \in Holding => seen[p] = pack
  /\ \A p \in Procs : excuse[p] = {}

LEMMA FreshStep ==
  ASSUME OnlyStamps
  PROVE  TypeOK /\ LockInv /\ FreshInv /\ [Next]_vars => FreshInv'
<1> SUFFICES ASSUME TypeOK, LockInv, FreshInv, [Next]_vars PROVE FreshInv'
  OBVIOUS
<1> USE ProcsAssumption
    DEF OnlyStamps, FreshInv, Goto, Decide, Excuses, env, Locked, Holding,
        TypeOK, Procs
<1>1. ASSUME NEW p \in Stampers, Stamp(p) PROVE FreshInv'
  BY <1>1 DEF Stamp, OpenDirectory, LockDirectory, LockFails, ReadToStamp
<1>2. ASSUME NEW p \in Stampers \union Builders, TokenArrives(p) \/ NoToken(p)
      PROVE  FreshInv'
  BY <1>2 DEF TokenArrives, NoToken
<1>3. ASSUME NEW p \in Procs, Write(p) PROVE FreshInv'
  <2>1. CASE ReplacePack(p)
    <3>1. pack = seen[p] /\ pc[p] \in Locked
      BY <1>3, <2>1 DEF ReplacePack
    <3>2. \A q \in Procs : q # p => pc[q] \notin Holding
      <4>1. SUFFICES ASSUME NEW q \in Procs, q # p, pc[q] \in Holding
                     PROVE  FALSE
        OBVIOUS
      <4>2. lock = p /\ lock = q
        BY <3>1, <4>1 DEF LockInv
      <4>3. QED
        BY <4>1, <4>2
    <3>3. QED
      BY <1>3, <2>1, <3>1, <3>2 DEF ReplacePack
  <2>2. CASE ~ReplacePack(p)
    BY <1>3, <2>2 DEF Write, CheckSize, StatPack, CreateTemp, WriteTemp,
       SyncTemp, WriteFails, Close
  <2>3. QED
    BY <2>1, <2>2
<1>4. ASSUME NEW p \in Procs, Kill(p) PROVE FreshInv'
  BY <1>4 DEF Kill
<1>5. CASE FlushDirectory \/ PowerLoss \/ RemovePack
  BY <1>5 DEF FlushDirectory, PowerLoss, RemovePack
<1>6. CASE UNCHANGED vars
  BY <1>6 DEF vars
<1>7. QED
  BY <1>1, <1>2, <1>3, <1>4, <1>5, <1>6 DEF Next

\* Where stamps under a flock are the only writers, every anchor whose stamp
\* was written is in the pack, at every later moment.
THEOREM NoStampIsLost ==
  ASSUME OnlyStamps
  PROVE  Spec => []EveryStampKept
<1>1. Init => LockInv /\ FreshInv
  BY DEF Init, LockInv, FreshInv, Holding, Locked, Procs
<1>2. SafeInv /\ LockInv /\ FreshInv /\ [Next]_vars => (LockInv /\ FreshInv)'
  BY LockStep, FreshStep DEF SafeInv
<1>3. SafeInv /\ FreshInv => EveryStampKept
  BY DEF SafeInv, KeptInv, StampsKept, FreshInv, EveryStampKept, Procs
<1>4. QED
  BY SafeInit, SafeStep, <1>1, <1>2, <1>3, PTL DEF Spec

-----------------------------------------------------------------------------
(* Stamps under a flock implement AnchorLog.                               *)

\* A stamp decides its outcome last, and what it holds once its token has
\* come is what it read and that token.
RunHolds(p) ==
  /\ pc[p] \notin {"close", "done", "dead"} => out[p] = "none"
  /\ pc[p] = "tsa" => ev[p] = seen[p]
  /\ pc[p] \in Blocked =>
       /\ seen[p] \in Packs
       /\ \E t \in Tokens :
            t.by = p /\ ev[p].anchors = Append(seen[p].anchors, t)
RunInv == \A p \in Stampers : RunHolds(p)

LEMMA RunStep == TypeOK /\ Loaded /\ RunInv /\ [Next]_vars => RunInv'
<1> SUFFICES ASSUME TypeOK, Loaded, RunInv, [Next]_vars PROVE RunInv'
  OBVIOUS
<1> USE ProcsAssumption
    DEF RunInv, RunHolds, Goto, Decide, Excuses, env, Locked, Holding, Blocked
<1>1. ASSUME NEW p \in Stampers, Stamp(p) PROVE RunInv'
  BY <1>1 DEF Stamp, OpenDirectory, LockDirectory, LockFails, ReadToStamp, TypeOK, Procs
<1>2. ASSUME NEW p \in Stampers \union Builders, TokenArrives(p) PROVE RunInv'
  <2>1. p \in Procs /\ pc[p] = "tsa" /\ ev[p] \in Packs
    BY <1>2 DEF TokenArrives, Procs, Loaded
  <2> DEFINE t == [imprint |-> ev[p].content, by |-> p]
  <2>2. t \in Tokens /\ t.by = p
    BY <1>2, <2>1 DEF Tokens, TokenArrives
  <2>3. ev'[p].anchors = Append(ev[p].anchors, t)
    BY <1>2, <2>1 DEF TokenArrives, TypeOK, Packs
  <2>4. /\ pc' = [pc EXCEPT ![p] = "size"] /\ out' = out /\ seen' = seen
        /\ \A q \in Procs : q # p => ev'[q] = ev[q]
    BY <1>2, <2>1 DEF TokenArrives, TypeOK
  <2> HIDE DEF t
  <2>5. ev[p] = seen[p] \/ p \notin Stampers
    BY <2>1
  <2>6. pc' \in [Procs -> Steps] /\ pc'[p] = "size"
        /\ \A q \in Procs : q # p => pc'[q] = pc[q]
    BY <2>1, <2>4 DEF TypeOK, Steps
  <2>7. ASSUME NEW q \in Stampers, q # p PROVE RunHolds(q)'
    <3>1. /\ pc'[q] = pc[q] /\ ev'[q] = ev[q]
          /\ out'[q] = out[q] /\ seen'[q] = seen[q]
      BY <2>4, <2>6, <2>7 DEF Procs
    <3>2. RunHolds(q)
      OBVIOUS
    <3>3. QED
      BY <3>1, <3>2
  <2>8. ASSUME p \in Stampers PROVE RunHolds(p)'
    <3>1. out[p] = "none" /\ ev[p] = seen[p]
      BY <2>1, <2>8
    <3>2. out'[p] = "none" /\ seen'[p] \in Packs
      BY <2>1, <2>4, <3>1
    <3>3. t.by = p /\ ev'[p].anchors = Append(seen'[p].anchors, t)
      BY <2>2, <2>3, <2>4, <3>1
    <3>4. QED
      BY <2>2, <2>6, <3>2, <3>3
  <2>9. QED
    BY <2>7, <2>8
<1>3. ASSUME NEW p \in Stampers \union Builders, NoToken(p) PROVE RunInv'
  BY <1>3 DEF NoToken, TypeOK, Procs
<1>4. ASSUME NEW p \in Signers, ReadToSign(p) \/ SignDigest(p) PROVE RunInv'
  BY <1>4 DEF ReadToSign, SignDigest, TypeOK, Procs
<1>5. ASSUME NEW p \in Builders, Seal(p) PROVE RunInv'
  BY <1>5 DEF Seal, TypeOK, Procs
<1>6. ASSUME NEW p \in Procs, Write(p) PROVE RunInv'
  BY <1>6, SMTT(30) DEF Write, CheckSize, StatPack, CreateTemp, WriteTemp, SyncTemp,
     ReplacePack, WriteFails, Close, TypeOK, Procs
<1>7. ASSUME NEW p \in Procs, Kill(p) PROVE RunInv'
  BY <1>7 DEF Kill, TypeOK, Procs
<1>8. CASE FlushDirectory \/ RemovePack
  BY <1>8 DEF FlushDirectory, RemovePack
<1>9. CASE PowerLoss
  BY <1>9 DEF PowerLoss, Running, TypeOK, Procs
<1>10. CASE UNCHANGED vars
  BY <1>10 DEF vars
<1>11. QED
  BY <1>1, <1>2, <1>3, <1>4, <1>5, <1>6, <1>7, <1>8, <1>9, <1>10 DEF Next

LEMMA LogAppended ==
  ASSUME NEW f \in Packs, NEW g \in Packs, NEW t \in Tokens,
         g.anchors = Append(f.anchors, t)
  PROVE  LogOf(g) = Append(LogOf(f), t.by)
<1>1. /\ f.anchors \in Seq(Tokens) /\ g.anchors \in Seq(Tokens)
      /\ IsPack(f) /\ IsPack(g)
  BY NullsAssumption DEF Packs, IsPack
<1>2. /\ Len(g.anchors) = Len(f.anchors) + 1
      /\ \A i \in 1..Len(f.anchors) : g.anchors[i] = f.anchors[i]
      /\ g.anchors[Len(f.anchors) + 1] = t
  BY <1>1, AppendProperties
<1>3. \A u \in Tokens : u.by \in Procs
  BY DEF Tokens
<1>4. /\ LogOf(f) = [i \in 1..Len(f.anchors) |-> f.anchors[i].by]
      /\ LogOf(g) = [i \in 1..Len(g.anchors) |-> g.anchors[i].by]
  BY <1>1 DEF LogOf
<1>5. LogOf(f) \in Seq(Procs) /\ Len(LogOf(f)) = Len(f.anchors)
  BY <1>1, <1>3, <1>4
<1>6. LogOf(g) \in Seq(Procs) /\ Len(LogOf(g)) = Len(f.anchors) + 1
  BY <1>1, <1>2, <1>3, <1>4
<1>7. /\ Append(LogOf(f), t.by) \in Seq(Procs)
      /\ Len(Append(LogOf(f), t.by)) = Len(f.anchors) + 1
      /\ \A i \in 1..Len(f.anchors) : Append(LogOf(f), t.by)[i] = LogOf(f)[i]
      /\ Append(LogOf(f), t.by)[Len(f.anchors) + 1] = t.by
  BY <1>3, <1>5, AppendProperties
<1>8. Len(f.anchors) \in Nat
  BY <1>1
<1>9. \A i \in 1..Len(LogOf(g)) : LogOf(g)[i] = Append(LogOf(f), t.by)[i]
  BY <1>2, <1>4, <1>6, <1>7, <1>8
<1>10. QED
  BY <1>6, <1>7, <1>9, SeqEqual

\* What the refinement rests on.
AtomicInv == SafeInv /\ LockInv /\ FreshInv /\ RunInv

LEMMA AtomicStep ==
  ASSUME OnlyStamps
  PROVE  AtomicInv /\ [Next]_vars => Log!Next \/ UNCHANGED Log!vars
<1> SUFFICES ASSUME AtomicInv, [Next]_vars
             PROVE  Log!Next \/ UNCHANGED Log!vars
  OBVIOUS
<1> DEFINE runs == [q \in Stampers |-> RunOf(q)]
<1> USE DEF AtomicInv, SafeInv, TypeOK, Goto, Decide, Procs, OnlyStamps
<1>1. ASSUME pack' = pack, pc' = pc, out' = out PROVE UNCHANGED Log!vars
  BY <1>1 DEF Log!vars, LogOf, IsPack, RunOf
\* A step of p that neither renames nor ends its run is invisible.
<1>2. ASSUME NEW p \in Stampers, pack' = pack,
             pc[p] \notin {"done", "dead"}, pc'[p] \notin {"done", "dead"},
             out'[p] = "ok" <=> out[p] = "ok",
             \A q \in Procs : q # p => pc'[q] = pc[q] /\ out'[q] = out[q]
      PROVE  UNCHANGED Log!vars
  <2>1. LogOf(pack)' = LogOf(pack)
    BY <1>2 DEF LogOf, IsPack
  <2>2. \A q \in Stampers : RunOf(q)' = RunOf(q)
    BY <1>2 DEF RunOf
  <2>3. QED
    BY <2>1, <2>2 DEF Log!vars
<1>3. ASSUME NEW p \in Stampers, Stamp(p) \/ TokenArrives(p) \/ NoToken(p)
      PROVE  UNCHANGED Log!vars
  BY <1>2, <1>3 DEF Stamp, OpenDirectory, LockDirectory, LockFails, ReadToStamp,
     TokenArrives, NoToken, RunInv, RunHolds
<1>4. ASSUME NEW p \in Stampers, Write(p)
      PROVE  Log!Next \/ UNCHANGED Log!vars
  <2>1. CASE ReplacePack(p)
    <3>1. /\ pc[p] = "replace" /\ pack' = ev[p] /\ ev[p] \in Packs
          /\ pc' = [pc EXCEPT ![p] = "close"]
          /\ out' = [out EXCEPT ![p] = "ok"]
      BY <1>4, <2>1 DEF ReplacePack, Loaded, Locked, WholeInv
    <3>2. pack = seen[p] /\ pack \in Packs
      BY <1>4, <3>1 DEF FreshInv, RunInv, RunHolds, Holding, Blocked, Locked
    <3>3. PICK t \in Tokens :
            t.by = p /\ ev[p].anchors = Append(seen[p].anchors, t)
      BY <1>4, <3>1 DEF RunInv, RunHolds, Holding, Blocked, Locked
    <3>4. LogOf(pack') = Append(LogOf(pack), p)
      BY <3>1, <3>2, <3>3, LogAppended
    <3>5. runs[p] = "pending" /\ runs' = [runs EXCEPT ![p] = "applied"]
      <4>1. out[p] = "none"
        BY <1>4, <3>1 DEF RunInv, RunHolds
      <4>2. RunOf(p) = "pending" /\ RunOf(p)' = "applied"
        BY <1>4, <3>1, <4>1 DEF RunOf
      <4>3. \A q \in Stampers : q # p => RunOf(q)' = RunOf(q)
        BY <1>4, <3>1 DEF RunOf
      <4>4. QED
        BY <1>4, <4>2, <4>3
    <3>6. Log!Apply(p)
      BY <3>4, <3>5 DEF Log!Apply
    <3>7. QED
      BY <1>4, <3>6 DEF Log!Next
  <2>2. CASE Close(p)
    <3>1. /\ pc[p] = "close" /\ pc' = [pc EXCEPT ![p] = "done"]
          /\ pack' = pack /\ out' = out
      BY <2>2 DEF Close
    <3>2. LogOf(pack)' = LogOf(pack)
      BY <3>1 DEF LogOf, IsPack
    <3>3. \A q \in Stampers : q # p => RunOf(q)' = RunOf(q)
      BY <1>4, <3>1 DEF RunOf
    <3>4. CASE out[p] = "ok"
      <4>1. RunOf(p) = "applied" /\ RunOf(p)' = "ok"
        BY <1>4, <3>1, <3>4 DEF RunOf
      <4>2. Log!Report(p)
        BY <1>4, <3>2, <3>3, <4>1 DEF Log!Report
      <4>3. QED
        BY <1>4, <4>2 DEF Log!Next
    <3>5. CASE out[p] # "ok"
      <4>1. RunOf(p) = "pending" /\ RunOf(p)' = "failed"
        BY <1>4, <3>1, <3>5 DEF RunOf
      <4>2. Log!Fail(p)
        BY <1>4, <3>2, <3>3, <4>1 DEF Log!Fail
      <4>3. QED
        BY <1>4, <4>2 DEF Log!Next
    <3>6. QED
      BY <3>4, <3>5
  <2>3. CASE ~ReplacePack(p) /\ ~Close(p)
    BY <1>2, <1>4, <2>3 DEF Write, CheckSize, StatPack, CreateTemp, WriteTemp,
       SyncTemp, WriteFails, RunInv, RunHolds
  <2>4. QED
    BY <2>1, <2>2, <2>3
<1>5. ASSUME NEW p \in Stampers, Kill(p) PROVE Log!Next
  <2>1. /\ pc[p] \notin {"done", "dead"} /\ pc' = [pc EXCEPT ![p] = "dead"]
        /\ pack' = pack /\ out' = out
    BY <1>5 DEF Kill, Running
  <2>2. LogOf(pack)' = LogOf(pack)
    BY <2>1 DEF LogOf, IsPack
  <2>3. \A q \in Stampers : q # p => RunOf(q)' = RunOf(q)
    BY <1>5, <2>1 DEF RunOf
  <2>4. RunOf(p) \in {"pending", "applied"} /\ RunOf(p)' = "dead"
    BY <1>5, <2>1 DEF RunOf
  <2>5. Log!Die(p)
    BY <1>5, <2>2, <2>3, <2>4 DEF Log!Die
  <2>6. QED
    BY <1>5, <2>5 DEF Log!Next
<1>6. ~(FlushDirectory \/ PowerLoss \/ RemovePack)
  BY DEF FlushDirectory, PowerLoss, RemovePack, FreshInv
<1>7. CASE UNCHANGED vars
  BY <1>1, <1>7 DEF vars
<1>8. QED
  BY <1>3, <1>4, <1>5, <1>6, <1>7 DEF Next

\* Concurrent stamps of one pack, under the flock, are atomic appends to its
\* log of anchors, for any number of stamps, kills and failures.
THEOREM StampsImplementLog ==
  ASSUME OnlyStamps
  PROVE  Spec => StampsAreAtomic
<1>1. Init => AtomicInv
  <2>1. Init => LockInv /\ FreshInv /\ RunInv
    BY DEF Init, LockInv, FreshInv, RunInv, RunHolds, Blocked, Holding, Locked, Procs
  <2>2. QED
    BY <2>1, SafeInit DEF AtomicInv
<1>2. AtomicInv /\ [Next]_vars => AtomicInv'
  BY SafeStep, LockStep, FreshStep, RunStep DEF AtomicInv, SafeInv
<1>3. Init => Log!Init
  <2> SUFFICES ASSUME Init PROVE Log!Init
    OBVIOUS
  <2>1. LogOf(pack) = <<>>
    <3>1. CASE pack = NoPack
      BY <3>1 DEF LogOf, IsPack
    <3>2. CASE pack \in InitialPacks
      BY <3>2, InitialPack DEF LogOf
    <3>3. QED
      BY <3>1, <3>2 DEF Init
  <2>2. \A p \in Stampers : RunOf(p) = "pending"
    BY DEF Init, RunOf, Procs
  <2>3. QED
    BY <2>1, <2>2 DEF Log!Init
<1>4. AtomicInv /\ [Next]_vars => [Log!Next]_(Log!vars)
  BY AtomicStep
<1>5. QED
  BY <1>1, <1>2, <1>3, <1>4, PTL DEF Spec, StampsAreAtomic, Log!Spec
=============================================================================
