# TLA+ models of ap2-evidence-pack

`ap2_evidence.py` builds, stamps, signs and verifies *evidence packs*: one JSON
file holding the SD-JWT mandates of an agentic payment, the keys that verified
them, RFC 3161 time anchors and hybrid producer signatures. A pack is judged
years later, by somebody else, off line. This directory holds TLA+ models of
the parts of the program whose correctness is not obvious from one function,
the TLC runs that check them and TLAPS proofs of what matters most.

`PROJECT.json` lists components, runs, the correspondence between definitions
and source lines (`map`), hazards, findings and theorems. Every module can be
parsed by SANY, every run checked by `tlc -config <run>.cfg <module>`, every
proof by `tlapm <module>.tla`.

## 1. Inventory of the system

| Component | Code | State it keeps | Operations | What is hard about it |
|---|---|---|---|---|
| Pack file writers | `add_anchor`, `sign_evidence`, `_write_pack_file`, end of `_build_evidence` | the file at the path, temporary files, the flock on the directory | stamp, sign, build | concurrent read-modify-writes, of which one kind locks and two do not; kills, power loss, failing I/O; a TSA asked while the lock is held |
| Build | `_build_evidence`, `_snapshot_key`, `verify_kb_jwt`, `find_bindings` | none between calls but the context variable of integral literals; the pack in memory | verify every artifact, snapshot its key, seal, anchor, write | an abort at every step must leave no file; the sealed pack must be one `verify` accepts; a context variable set around every call |
| Verdict | `_verify_evidence`, `derive_states`, `_subject` | none; a receipt in memory | admit, verify each part, derive a state per subject, apply the relying party's policy | two readings of one pack (the `valid` bit and the per-subject states) that must agree; a check that could not run must never read as a failed one |
| Producer signatures | `pqcrypto/sigsuite.py` | a private key file | create, save and load an identity, sign a block, verify a block entry by entry | a key file replaced under kills and power loss, never readable by others; hybrid schemes: a gap (missing backend) is neither a pass nor a failure |
| Restriction | `evaluate_restriction`, `_constraint_shape`, `_within`, `_verify_restrictions`, `_mandate_form`, `_record_locations` | none; findings per record | find the record and its reference in a token, compare a narrower mandate with the one it restricts, then chains of them | soundness: `verified` must imply that nothing was widened, whatever the set of constraints; a holder who picks what to show |
| Receipt writer and CLI | `_write_all`, `_emit`, `_say`, `_stderr_settled`, `main` | stdout and stderr streams, exit code | write a receipt whole, report, settle stderr, exit | short writes, full or closed pipes, non-blocking streams; the exit code must never claim a receipt that was not written |
| Strict JSON reader | `loads_strict`, `_integral_literal`, `_token_number`, `_nesting_depth`, `_has_lone_surrogate`, `read_evidence_file` | a context variable that records integral literals | decode, bound, parse | numeric edges; scanners that must agree with the parser |
| SD-JWT disclosures | `parse_sd_jwt`, `resolve_disclosures` | a work stack and the set of digests met | replace digests by disclosed values | a hand-written stack instead of recursion; every disclosure must be used exactly once |
| RFC 3161 anchors | `_rfc3161_stamp`, `parse_timestamp_resp`, `_verify_rfc3161` | a private directory per check | request, parse, verify a token | DER walking; a copied token counted twice; openssl that fails half way |
| Certificate chains | `_verify_x5c_chain`, `_run_openssl` | a private directory per check | ask openssl about a chain | a tool that cannot be started, is killed, or answers too late |
| JavaScript verifier | `verifiers/js/ap2-verify.mjs` | none | the verifier again, independently | agreement with the reference, by other means |
| Benches | `verifiers/*.py`, `spec/vectors/**` | none | generate mutants and vectors, compare verifiers | test tools |
| Elara reader | `interop/elara_reader.py` | none | recompute the roots of a foreign bundle | which side a sibling is on, at which depth |

Components interact by calls (the CLI calls build / stamp / verify and hands
their result to the receipt writer; build and verify call the JSON reader, the
disclosures, the keys and openssl for every artifact), by the pack file (written
by build, stamp and sign, read by verify and restriction, by other processes and
at other times), by the key file (saved by one process, loaded by another) and
through external programs (openssl, a TSA and a JWKS server over HTTP).

What makes each of them correct:

- writers: a reader always finds a whole pack; an anchor that was reported is
  there; a failed run changes nothing; blocks always speak of their own pack.
- build: what it reports as built is what `verify` calls valid; nothing
  unverified is written or shown to a TSA; one key per artifact.
- verdict: `valid` is true exactly when the per-subject states say so; a policy
  can only remove acceptance; an instrument that failed is never a verdict; the
  second verifier says the same.
- producer signatures: a block is `ok` only when every entry passed; trust and
  post-quantum protection are statements about an `ok` block only. A key file is
  whole, of an identity whose save reported success, and private.
- restriction: a record is `verified` only when every mandate its restriction
  closes lies inside the original; a holder cannot make a record an ordinary
  mandate by leaving a disclosure out.
- receipt writer: exit 0 or 1 only when the whole receipt reached stdout.
- disclosures: a token is resolved exactly when its digests and disclosures fit
  together, to the claims the issuer signed; who withholds can only withhold.
- readers: a text, a number, a DER structure, a Merkle proof is read as what it
  was written from, or refused.
- openssl: an answer is openssl's, about the whole input, at the right time, or
  there is none; no file and no process outlives a check.

## 2. Plan

In order of importance. No module that theorems are about declares a recursive
operator: those live in `Readers` and in `MC` modules.

| Step | Modules | State |
|---|---|---|
| 1 | `AnchorLog` (abstract), `PackFile`, `PackLog` (the refinement), `PackFileProofs` | done |
| 2 | `Verdict`, `MCVerdict`, `VerdictProofs` | done |
| 3 | `Restriction` (the comparison), `RestrictionChain` (records, sweeps, exit code), `MCRestriction`, `RestrictionProofs` | done |
| 4 | `Receipt`, `MCReceipt`, `ReceiptProofs` | done |
| 5 | `Disclosure`, `Expansion` (the recursion it computes), `MCDisclosure`, `DisclosureProofs` | done |
| 6 | `KeySource`, `Build`, `MCBuild`, `BuildProofs`: build, then verify and restriction on what it wrote, composed with `Verdict` | done |
| 7 | `Readers`, `Elara`, `Merkle`, `Reading`, `MCReaders`: literals, scanners, DER, Merkle folds against reference definitions; proofs of the folds in `DisclosureProofs` | done, the rest model-checked |
| 8 | `Identity`, `IdentityProofs`: the key file around kills and power loss, composed with `Verdict` | done |
| 9 | `Checks` (abstract), `Openssl` (implements it), `MCOpenssl`, `OpensslProofs` | done |
| 10 | `JsVerdict`, proofs in `VerdictProofs`: the second verifier agrees with the first | done |
| 11 | `Records`, `MCRecords`, proofs in `DisclosureProofs`: the record and its reference in a token | done |
| 12 | Proofs: that the sweeps end in a fixpoint (`ChainRuleIsExact`, `MetReachesTheRoot`), `ExitTellsTheReceipt`, the four properties of `Build`, that the walk computes the recursion, and what the holder of a token can make of it | done |
| 13 | A log with overwrites that sign and build implement | open |
| 14 | The JavaScript verifier's admission and its emit; the reading of an Elara bundle | open |

## 3. The modules and the code

A step of a module is one system call, one call of an external program, or a
stretch of code between two of them in which nothing else can interfere.
Line numbers are in `PROJECT.json`; names follow the source. An operator under
a comment that begins with "Mutant:" is a plausible bug in the definition after
it; no specification uses it.

### PackFile, AnchorLog, PackLog: who writes a pack

`PackFile` has one process per run of a command on one path. A stamp
(`add_anchor`) opens and locks the directory, reads, asks the TSA, appends the
token it got, checks the size, takes the mode of the pack, writes a temporary
file, syncs and renames it; `sign_evidence` and the end of `_build_evidence` do
the same without the lock, and build reads nothing. `pack` is the file at the
path, `disk` what a power loss would leave there, `safe` whether its bytes are
synced, `lock` the flock, and per process `pc`, `ev` (the pack in memory), `tmp`
and `out` (how it ended). `seen` and `excuse` are history: the pack a process
read, and what has happened since an anchor or a signature got in that may
remove it. A content is a name and its digest the same name; a token is its
imprint and who obtained it; sizes are counted in blocks. The constant `Faults`
says which of kills, one power loss, one removal and a failing flock a run
allows; failing I/O and a refusing or strange TSA are always possible.

`AnchorLog` is what stamps promise: an append happens once, atomically, and a
run reports success only for an append. `PackLog` maps `PackFile` to it: the
log is the owners of the pack's anchors, `StampsAreAtomic` is its
specification and `StampsEnd` its liveness.

### Build, KeySource: from artifacts to a pack that verifies

One process that is asked a session of calls: `build`, then `verify` or
`restriction` of what is at the path. `Begin` is the start of a call, with what
it refuses at once; `Parse`, `ChooseKey` and `CheckArtifact` are the loop of
`_build_evidence` over artifacts; `Seal` is bindings, digest, nesting and size;
`Stamp` one TSA; `Write` the file. `VerifyArtifact` is the same artifact checked
with nothing but the file, in verify's own order; `Verified` applies `Verdict`'s
`Valid` to what was found (`Judged`). `Nest`, `Reread` and `Compared` are
`restriction` around a verify of its own. `ctx` is the context variable that
records integral literals, `saved` the values running calls will put back.
`KeySource` is `_snapshot_key`: the caller's key, a JWKS (with the key chosen in
it by kid, type, use), an x5c leaf or a jwk of the header, and what the others
that are present must then say. A token is what was signed over and by whom.
What the network answers is a constant.

### Verdict: what verify says of a pack

A run of `_verify_evidence`: `Admit`, one `CheckToken` per anchor or time
block, one `CheckArtifact` per artifact, `Derive` (from the collected answers,
the whole receipt: `derive_states`, the policy and `valid`) and `Emit` (the
receipt written, or not, and the exit code). `tsa` and `chain` hold openssl's
answer to each question: yes, no, or none when it could not be run, killed or
timed out. `ReceiptOf` is a pure operator made of one operator per subject
(`SealedContent`, `HolderBinding`, `TimeAnchor`, `ProducerSignature`,
`IssuerIdentity`), so that the same derivation can be asked about an ideal
machine on which every check runs (`Ideal`). What signatures, digests and
tokens prove is part of the pack chosen in `Init`.

### JsVerdict: what the second verifier says of it

`ap2-verify.mjs` shares no code with the reference. It works out a subject's
state as the highest-ranked element of a list, uses null where the reference
has "skipped", and has no openssl. `JsReceipt` is its derivation in its own
terms, over the packs of `Verdict`. `VerifiersAgree` says that its receipt is the
one the reference gives on a machine without openssl and with the same backends,
and that it accepts nothing which the reference, with all that it can ask for,
refuses.

### Checks, Openssl: how openssl is asked

`Checks` is what `Verdict` takes openssl to be: every check is settled in its
turn, once, with the answer its input calls for or with none. `Openssl` is how
`_verify_rfc3161` and `_verify_x5c_chain` go about it: find openssl, make a
private directory, write the files one by one, run it under a time limit, read
its answer, remove the directory. `child` is openssl, a process of its own that
reads the files when it likes; it may answer, die of a signal, answer after the
limit or never, and may be uninstalled between two steps. Every write may fail
with half of a file there. An openssl that exits by itself is taken to have
answered.

### Identity: a producer's key file

Savers create an identity and save it, users load one and sign with it, all on
one path. A step is one system call of `ProducerIdentity.save`: stat, the open
that asks the kernel whether an earlier file may be written, the temporary file
created, written, synced, renamed. `file`, `disk` and `safe` are as in
`PackFile`. A key file is the identity in it, whether others may read it, and
whether its owner made it read-only. What is signed is a block of `Verdict`, so
`SignedBlocksVerify` is about what `verify_producer_block` will say of it.

### Restriction, RestrictionChain: is the later mandate narrower

`Restriction` holds the pure part: the constraint table, `Shape`, `Within`,
the claim rules and `Evaluate`, which gives the set of reasons (state and name)
that the code appends. `RestrictionChain` is `_verify_restrictions` and
`restriction`: verify, the records in pack order, the sweeps that lower a record
whose original is not verified, the answer and exit code. Meaning is given by
`Admits`: a closed mandate (time, amount, payee, basket, number of uses...)
lies inside an open one. Constraints and claims that the profile does not know
have an arbitrary meaning (`opaque`, `carries`).

### Disclosure, Records: the digests of a token resolved, and the record in it

`resolve_disclosures` with the stack of suspended generators it keeps itself:
each step is what one `send` does until the next `yield` or `return`, cut at
each digest. `stack` holds the suspended walks (node, depth, place, what was
collected), `value` what the last walk returned. A refusal of any kind is one
action. Digests are names: that a digest is a hash of its disclosure is why no
presentation holds a cycle. `Expansion` holds the recursion of SPEC section 6
step 2 that the walk is compared with (`Resolvable`, `Claimed`), written as
functions of the containers that may still nest, and what it is to be a part of
a value (`Prunes`); `MCDisclosure` holds the tokens. `Records` is how
`restriction` finds the Mandate Content and its references in what was resolved,
and when a reference counts as plain, and what an AP2 SDK would read in it
(`SdkContent`); `MCRecords` asks that of every presentation the holder could make
instead, by leaving out disclosures. The SDK is not in the
repository: its reading is taken from SPEC section 11.1.

### Readers, Elara: pure readers

`Readers` has `_integral_literal`, `_nesting_depth`, `_has_lone_surrogate` and
the DER walk of `parse_timestamp_resp`, on sequences of digits, characters and
bytes. `Elara` has the sparse-tree, zone and seal folds, where a hash is the term
it is the hash of, an account's path is the sequence of its bits, and a fold gives
the set of its root, which is empty when the code raises. `Merkle` builds the
trees and their proofs from the root down: the hash of every prefix of a path, the
siblings that are not empty, seals split at the largest power of two. `MCReaders`
writes texts and byte strings from what they mean and asks that the code reads
the meaning back. `Reading` is a run of the readers: it walks a token, or has
one of `Inputs` to read.

### Receipt: how a command ends

`_emit` and `_say` through `_write_all`, `_stderr_settled`, the end of `main`
and the interpreter's own flush at exit, over streams as Python opens them: raw
with `-u`, else behind a buffer. Text is a sequence of units and the system
takes one at a time, which covers every partial write. Behind the two streams
are pipes (blocking or not, with a reader that may leave), files with a certain
room, one shared descriptor (`2>&1`), or nothing at all. `held` is what a
stream keeps back, `got` what its sink took, `given` what it was told to write
(history), `left` what the current call has left. Readers are processes.

## 4. The runs

| Run | Question and instance | Why the bounds suffice |
|---|---|---|
| `pack_stamps` | three stamps under the flock, with kills: no stamp is lost, stamps are atomic appends, every stamp ends | a lost update takes two writers, and a third shows that the lock goes on being passed |
| `pack_writers` | a stamp, a sign and a build, size bound of 3 blocks, with every fault: blocks last unless overwritten, the pack is whole and coherent, a failure leaves it alone | every order of the three kinds of writer; one power loss and one removal between any two steps, after either the same argument starts again; the bound is reached after two blocks |
| `pack_gone` | the finding below | |
| `verdict` | three families of packs and policies: any artifact alone and beside others with every digest, bindings and producer block; a time block and up to two anchors of every kind with openssl failing at any call; up to two producer entries of any kind under every scheme, pinned set and policy. Both verifiers | states aggregate elements pairwise: a pair shows every precedence; `min_anchors = 2` is the least that a copied token can forge; scheme, trust and protection ask for one entry or for all |
| `restriction` | every pair of at most two constraints of a family of 7 to 10, on both sides; every claim at both places in every relation; chains of up to three records on a root, in any pack order, one or two flawed in any way | the comparison looks at pairs of one type, two on each side show neighbours and shadows; a sweep that lowers out of order needs a chain of three |
| `restriction_shadow` | the finding below | |
| `receipt_streams` | every outcome with every connection of the streams, and callers that left text in one; receipts of 4 units, lines of 2, buffers of 2, pipes of 1 | larger than the buffer and larger than the pipe are both reached, and all ways to be cut inside a receipt |
| `readers` | presentations of up to three disclosures nested in one another, depth bound 5, among them tokens that hold records and references in every place; literals of up to four digits before the point and three behind it, with the bound at 127; JSON trees, time-stamp replies cut and stretched at every level, account trees of depth 3 with up to three leaves, seals of up to 9 | a digest inside a disclosed value, its parent withheld, a sibling met before or after: each needs at most three; 127 has three digits, so the digit count, the bound and one beyond are all met; nine leaves have an odd node at several levels |
| `build` | a process that builds, verifies and compares: every header, caller's key and JWKS; literals at every place; tokens flawed in every way, alone and in pairs; up to three TSAs of every kind at the size bound of 3; files that no build wrote | a check that one of build and verify lacks shows on one artifact, state that leaks from an artifact or a call on the next |
| `identity` | two saves and one load that signs, on a path with every kind of file, with every fault | a save that overtakes another takes two; the user's one read may fall between any two steps |
| `openssl` | one check of every kind, every pair of tokens, every token before every chain, and lists of three | an error that leaks from one check to the next takes two |
| `openssl_nodate` | the finding below | |

`CHECK_DEADLOCK FALSE` in every run: the processes, commands and walks end.
Type invariants of the modules that have proofs are proved rather than run.

Fairness. `pack_stamps` assumes weak fairness of each process: TSA requests and
openssl calls carry timeouts, and local I/O returns. Nothing is assumed of who
gets a released flock: each run takes it once, so the last waiter is alone with
it. Kills are never fair. `restriction` and `readers` are one uninterrupted
computation each. `receipt_streams` assumes that the process runs on and that a
reader which stays goes on reading; without the latter a full blocking pipe is
waited for forever, as it should be, and readers may leave at any time.
`openssl` assumes that the verifier runs on, the clock of its own time limit
included; openssl itself need never take a step.

What the runs found:

- `pack_gone`: `add_anchor` asks for the pack's mode outside any handler, after
  the TSA's answer; a pack removed in between ends the stamp in a traceback and
  exit 1 instead of the documented 74.
- `restriction_shadow`: a constraint of the original can be dropped without a
  reason when another of its type, with a name outside the schema, is copied
  unchanged. SPEC 11 promises that a broader record is never `verified`.
  `VerifiedIsNarrower`, which holds, is the promise with this case spelled out.
- `openssl_nodate`: a token's genTime with the form of a time that is no date
  makes its check fail without openssl being asked; SPEC 3.2 says the current
  time is used where there is no usable genTime, as the chain's check does.

Also visible, and stated in the properties rather than as findings since the
documentation promises nothing else: sign and build take no lock, so each may
overwrite an anchor that a stamp reported (`BlocksKept` names the excuses;
`EveryStampKept` holds where stamps are the only writers). A pack of no artifacts
can be built through the library and is never valid (`BuiltPacksVerify`).

## 5. The proofs

All for every value of the constants, from the named assumptions of the module
(`ProcsAssumption`, `PoliciesAssumption`, `PathsAssumption`...), which TLC
evaluates on every run.

- `PackFileProofs`. `TypeOK` needs `Loaded` (a process past its read holds a
  pack). `LockInv` ties the lock to the steps between acquiring and closing:
  at most one stamp is there (`StampsExclude`). `WholeInv` follows the synced
  temporary file to the rename (`PackIsWhole`), `BoundInv` the size that was
  measured (with it, `PackIsReadable`). `EvInv` says that
  what a process will rename holds its own block and every block it read,
  `KeptInv` that what was written is at the path unless an excuse was recorded
  (`BlocksAreKept`, from `StampsAreKept` and `SignatureIsKept`); `CoherentInv`
  that every block in a pack in memory or on disk is about the content beside
  it (`PackIsCoherent`). `FailInv` says that only a process that renamed shows
  in the pack, and where a temporary file may be (`FailuresLeaveThePack`).
  `FreshInv` (under the flock, with stamps only, what a stamp read is still what
  is at the path) gives `NoStampIsLost` and, with `RunInv` (what a stamp writes is
  what it read and its token, and it decides last), the refinement
  `StampsImplementLog`: the rename is the atomic append, every other step
  stutters or decides.
- `VerdictProofs`. `Derivation`: a receipt is a refusal or `ReceiptOf` the
  answers that no longer change; `Answered`: an answer is the true one or none,
  and then `notrun` is recorded. From the two: `OneReading` (subject by subject,
  what the top-level fields say is what the states say),
  `InstrumentsDecideNothing`, `ExitIsVerdict`, `AnchorsDistinct`,
  `PqPinnedAndPassed`; `PoliciesOnlyRefuse` compares the receipts of one pack
  under two policies.
  Of the second verifier: the element of highest rank decides a state as the set
  of reasons does (`TopDecides`); so its five subjects, anchors, producer block
  and policy each equal their counterpart for any pack (`ReceiptsAgree`). What it
  accepts has no gap, and a gap that the reference finds with any of openssl's
  answers is one here (`GapsAgree`), so the reference accepts it too. Together
  `VerifiersAlwaysAgree`.
- `RestrictionProofs`. `NoReasonsNarrower`: a comparison that gives no reason is
  of a mandate that admits nothing more, one lemma per row of the constraint
  table, for the claims and for reuse. `Compared` carries it through the sweeps:
  an entry that is verified is untouched. Hence `VerifiedNarrower` and
  `OnlyWorsen`. `Sweeping` is what the sweeps leave behind: whoever was lowered
  has a record with a reason in its chain, and a sweep that has lowered nothing
  has found everything before it in order. A chain is the smallest set closed
  under "the mandate this record rests on", so no recursion is needed: the
  verified records, once the sweeps end, are such a set (`ChainRuleHolds`), and
  so are those with one key and nothing hidden (`MetSpeaksForTheRoot`).
- `ReceiptProofs`. `Accounted` (per stream: taken, held and left make up what was
  given, in order) gives `NothingIsLost`. `Telling` (`Spoilt`: a stream turned
  to the null device has set or is setting the exit code; `Coded`, `Answered`)
  gives `WhoReadsIsTold`: exit codes 0, 1 and 2 come only after every stream's
  sink took everything. `Reporting` follows one receipt: given whole or not at
  all unless a call for it failed, and an exit code of 74 or 120 only where it
  was cut or where stderr could not take what a caller had left. Hence
  `ExitSpeaksOfTheReceipt`.
- `BuildProofs`. `Shape` (types, which call is at which step, and `InForce`: what
  the running calls put back) carries three invariants. `Making`: an entry once
  sealed is `Sound` (the key all sources name, every signature good, its literals
  integral) and a pack once sealed is `Closed` (bindings and digest its own,
  tokens over it); it needs that the JWKS reply which chose the key named it
  alone (`FetchedIs`). Hence `EveryArtifactHasOneKey` and `NoRedLight`.
  `Listing`: the context variable holds, at each step, what the sealed entries
  have to read. `Judging`: what verify has found so far of a reported pack is what
  build had found, although the two read, check and give up in another order
  (`CheckingIs` and `InsideIs` say of each what it reads and when it ends well), and
  the verdict on a closed pack is the one on its artifacts (`VerdictIs`, through
  the definitions of `Verdict`). Hence `WhatBuildReportsVerifies` and
  `ListedLiteralsAreTheirOwn`. The assumptions give calls, tokens and replies
  their types, and say that `Absent` and `Unset` are no pack, URL or list.
- `DisclosureProofs`. `Deep` (a walk's place is its depth, and only the innermost
  may lie beyond the bound), `Asked` (whoever waits for a disclosed value has met
  its digest) and `Counted` (the census lists what was met, each once) are
  inductive together with the type invariant. What a node resolves to is stated
  without recursion: `Expands` asks for a derivation, a sequence of pairs of a
  node and a value in which each pair follows from earlier ones (`Follows`: a
  leaf is itself, a list the items it shows in their order, an object its claims,
  each under a name of its own, no digest where its form may not stand).
  `Traced` is the inductive invariant: a derivation holds what every suspended
  walk has gathered and what the last one returned, each walk is of the node its
  parent waits for, and a parent that waits can take it (`Waits`). Hence
  `ResolvedIsExpanded`. Of two derivations over tables of which one extends the
  other, what they say of the same nodes are a part and its whole
  (`FewerDisclosePart`, from `KeptPrunes` and `ClaimsPrune`), whence
  `OnlyWithholds`; and of two over one table they say the same (`OneExpansion`,
  by the first pair that would differ). `Counting` rides along with `Traced`: every
  digest at a place that was passed, or of a node that has its value, is in the
  census. So where the census hides nothing, a table that agrees with the one
  presented can show nothing more (`AgreeingLess`), and what any presentation of
  the holder's makes of the token lies beside what was resolved, node by node
  (`Beside`, `Both`). Hence `OriginalsHaveOneReading`: the member that holds the
  content is signed or disclosed (`DelegateIsSigned`), and step 6 has excluded
  the latter. And hence `PlainReferencesStay`: the content that `RefIsPlain` finds
  is the one that was compared (`TheSignedContent`), the list that it finds there
  the one that was resolved (`PropIsWithin`), and an element without a digest is
  the reference in whatever is made of that list (`SignedRefStays`).
  These say what is resolved; that exactly what fits is resolved takes one more
  invariant, `RetoldInv`, beside the others: each suspended walk has gathered
  what the recursion of `Expansion` gathers of the places before it (`Retold`),
  the census is what its walks had met when they began, with that, and a payload
  that fits has the rest of its census still to come. So a walk that is refused
  was of no payload that fits, and since a disclosure whose digest was met is
  used or waited for (`Answered`), what `Finish` refuses does not fit either
  (`Judged`): `ResolvesExactly`. The recursive functions are unfolded by
  lemmas that say there is a function of that kind (`GatheringExists`,
  `ExpansionsExist`, `LayersExist`, `PruningsExist`); what fits expands, to the
  value that the recursion gives (`ClaimedExpands`), and a part is one at every
  layer (`PartsPrune`). So what was proved of expansions holds of the
  presentations that the run makes: `PartOfTheSigned`,
  `OriginalsHaveOneSetOfTerms`, `PlainReferencesAreKept`, of which the latter two
  rest on statements for more than the run can make, since a holder may also
  show disclosures that were not presented.
  `NodesAssumption` gives presentations
  their shape: what is in a container is a node too, an object names a member
  once (the strict reader has refused any other), a digest is never None.
  `IssuedAssumption` says that what an issuer disclosed is JSON as well, and
  `MistypedAssumption` that a digest of the wrong type is not None.

  The Merkle folds are proved about here too. What goes up level by level
  is one kind of recursion, unfolded by one lemma (`RecursionExists`). For an
  account: the siblings can be listed the deepest first, and the place that
  `smt_fold` looks one up at is where it is listed (`DeepestHas`); so at every
  depth the fold is not EMPTY and has the hash of the path's prefix exactly if the
  tree holds the value (`FoldFollows`). For a seal:
  each level consists of the trees of successive blocks of as many leaves as a
  power of two (`LevelsHalve`), and the splitting at the largest power of two
  makes the same blocks (`LevelsSplit`); the way up from a leaf leads to the root
  and, since terms have one reading, from no other leaf (`WaysUpLead`). Hence
  `ProofsSpeak`, for trees of every depth and seals of any number of leaves:
  `InputsAssumption` only says that what stands in a tree stands at paths, and
  that a seal has a leaf.
- `OpensslProofs`. `Staged` says what has been made at each step of a check:
  nothing before it, whole files while openssl may read them, an openssl that
  was told of all of them and whose answer, once there, is the one about the
  whole input. So what is recorded is right or none (`Truthful`), and every step
  settles the current check once or changes nothing `Checks` can see:
  `ChecksAreImplemented`, with `FilesOutliveTheChild` beside it.
- `IdentityProofs`. `SaverSound` follows one save: its own identity, whole and
  synced text before the rename, an earlier file that it saw to be writable.
  `PathSound` (what the path names, now and on the disk, is whole and of an
  owner) is inductive with it because success once reported stays reported, and
  `UserSound` carries the owner's identity into what is signed. Hence
  `KeyFileStaysSound`, `ReadOnlyKeysAreKept` and, through the definitions of
  `Verdict`, `BlocksVerify`.

Model-checked only: everything temporal beyond action properties and steps of a
refinement (`StampsEnd`, `EveryCheckAnswers`, `Ends`), since the prover handles
neither fairness nor `ENABLED`; and what the readers make of every text and
time-stamp reply (`TextReadAsWritten`, `TokenReadAsEncoded`), where code and
reference are RECURSIVE operators.
Where a proof needs induction it is over numbers, by a least counterexample
(`LeastNumber`), and sums over a pack are recursive functions (`AllLiterals`).

## 6. Not modelled

- What cryptography, openssl and a TSA answer: inputs, chosen freely. An openssl
  that exits by itself for lack of memory looks to the verifier like an answer,
  and is taken for one; output of openssl that is not in the locale's encoding
  is left out, except where the name of the temporary directory is its cause.
- The json module's own parser, the hashing of canonical JSON, base64.
- The command-line grammar (an outcome of a command); splitting an SD-JWT at
  its tildes.
- A pack or key path that is no regular file (written in place, nothing to
  keep); the Windows paths, apart from the absence of a flock (`Flock = FALSE`
  is a value the theorems cover).
- Streams that have no bytes below them, raw writes of zero bytes, and the text
  layer's own pending characters, which `_write_all` writes around.
- An exponent longer than `ExpDigits` is refused or zero by its length alone;
  that this is exact rests on a literal having fewer than 10^9 digits.
- An empty `_sd` list inside a reference is not told apart from none in
  `Records`.
- Of the JavaScript verifier its parsers, its reading and admission of a file,
  and its emit.
- Of the Elara reader the reading of the bundle and its messages.
- The benches under `verifiers/`: they keep no state the system depends on, and
  what they compare is stated here as properties of what they compare.
