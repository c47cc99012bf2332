------------------------------- MODULE Openssl -------------------------------
(***************************************************************************)
(* The checks that verify hands to openssl: `openssl ts -verify` for a time *)
(* token, `openssl verify` for a certificate chain.  For each the verifier  *)
(* finds openssl, makes a private directory, writes the files openssl reads,*)
(* runs it with a limit of time and removes the directory.  openssl is a    *)
(* process of its own: it answers, dies of a signal, answers late or never, *)
(* and may be removed between two steps; the disk may be full at any write. *)
(*                                                                         *)
(* openssl that exits by itself is taken to have answered the question: an  *)
(* exit of its own for lack of memory looks the same to the verifier.       *)
(***************************************************************************)
EXTENDS Naturals, Sequences

CONSTANTS
  Checklists,  \* the checks one verification may ask for, in order
  Nothing      \* no directory, no child

Answers == {"yes", "no", "broken"}

\* `at` and `now` are openssl's answers about the input at its time and at the
\* current one; a chain of `parts` certificates may be no strict base64, and the
\* name of the directory no UTF-8.
ChecksOf(kind, times, answers) ==
  [kind : {kind}, time : times, base64 : BOOLEAN, parts : Nat \ {0},
   textpath : BOOLEAN, at : answers, now : answers]

ASSUME ChecksAssumption ==
  Checklists \subseteq
    Seq(ChecksOf("token", {"date", "none", "nodate"}, {"yes", "no"}) \union
        ChecksOf("chain", {"date", "none"}, Answers))

Files == {"t.tsr", "leaf.pem", "untrusted.pem"}

ASSUME NothingAssumption ==
  \A F \in SUBSET Files : \A d \in [F -> {"part", "whole"}] : d # Nothing

VARIABLES
  checks,   \* the checks of this verification
  at,       \* the one it is at
  pc,       \* where that one is
  present,  \* openssl is installed
  dir,      \* its files in the private directory, each "part" or "whole"
  child,    \* openssl running: the files and the time it was given, its answer
  answer    \* the answer of each check

vars == <<checks, at, pc, present, dir, child, answer>>

Check == checks[at]

\* The files that the check needs.
Needs(c) ==
  IF c.kind = "token" THEN {"t.tsr"}
  ELSE {"leaf.pem"} \union (IF c.parts > 1 THEN {"untrusted.pem"} ELSE {})

NoFiles == [f \in {} |-> "whole"]

Init ==
  /\ checks \in Checklists
  /\ at = 1
  /\ pc = "start"
  /\ present \in BOOLEAN
  /\ dir = Nothing
  /\ child = Nothing
  /\ answer = [i \in DOMAIN checks |-> "unasked"]

Record(a) == answer' = [answer EXCEPT ![at] = a]

\* The check is over; what it made is still to be removed.
Conclude(a) == Record(a) /\ pc' = "remove"

\* On to the next check.
AnswerNow(a) == Record(a) /\ at' = at + 1 /\ pc' = "start"

-----------------------------------------------------------------------------
(* One check.                                                              *)

\* which finds no openssl: not measurable here.
FindsNone ==
  /\ pc = "start" /\ at <= Len(checks) /\ ~present
  /\ AnswerNow("absent")
  /\ UNCHANGED <<checks, present, dir, child>>

\* which finds openssl and a private directory is made.
MakesDirectory ==
  /\ pc = "start" /\ at <= Len(checks) /\ present
  /\ dir' = NoFiles
  /\ pc' = "write"
  /\ UNCHANGED <<checks, at, present, child, answer>>

\* No usable temporary directory, or mkdtemp failed: not run.
MakesNone ==
  /\ pc = "start" /\ at <= Len(checks) /\ present
  /\ AnswerNow("notrun")
  /\ UNCHANGED <<checks, present, dir, child>>

\* An entry of x5c is no strict base64: a finding, without openssl.
RefusesEntry ==
  /\ pc = "write" /\ Check.kind = "chain" /\ ~Check.base64
  /\ Conclude("broken")
  /\ UNCHANGED <<checks, at, present, dir, child>>

Writable(f) ==
  /\ pc = "write" /\ (Check.kind = "chain" => Check.base64)
  /\ f \in Needs(Check) \ DOMAIN dir
  /\ f = "untrusted.pem" => "leaf.pem" \in DOMAIN dir

\* _tmp_write of the next file.
Writes(f) ==
  /\ Writable(f)
  /\ dir' = [g \in DOMAIN dir \union {f} |-> IF g = f THEN "whole" ELSE dir[g]]
  /\ UNCHANGED <<checks, at, pc, present, child, answer>>

\* _tmp_write fails, before or after some bytes of the file: not run.
WriteFails(f) ==
  /\ Writable(f)
  /\ dir' \in {dir, [g \in DOMAIN dir \union {f} |-> IF g = f THEN "part" ELSE dir[g]]}
  /\ Conclude("notrun")
  /\ UNCHANGED <<checks, at, present, child>>

AllWritten ==
  pc = "write" /\ (Check.kind = "chain" => Check.base64) /\ Needs(Check) = DOMAIN dir

\* A token's genTime of the right form that is no date: strptime raises, and
\* the check counts as failed.
TimeIsNoDate ==
  /\ AllWritten /\ Check.time = "nodate"
  /\ Conclude("no")
  /\ UNCHANGED <<checks, at, present, dir, child>>

\* _run_openssl.
Runs ==
  /\ AllWritten /\ Check.time # "nodate" /\ present
  /\ child' = [files |-> Needs(Check), attime |-> Check.time = "date", answer |-> Nothing]
  /\ pc' = "wait"
  /\ UNCHANGED <<checks, at, present, dir, answer>>

\* openssl cannot be started, or is gone since `which`: not run.
StartFails ==
  /\ AllWritten /\ Check.time # "nodate"
  /\ Conclude("notrun")
  /\ UNCHANGED <<checks, at, present, dir, child>>

\* openssl's output, or the signal it died of, is read within the limit.  A
\* name in the output that is no UTF-8 cannot be decoded: no answer but "no".
Hears ==
  /\ pc = "wait" /\ child.answer # Nothing
  /\ Conclude(IF child.answer = "signal" THEN "notrun"
              ELSE IF Check.kind = "chain" /\ ~Check.textpath THEN "no"
              ELSE child.answer)
  /\ child' = Nothing
  /\ UNCHANGED <<checks, at, present, dir>>

\* Mutant: a check that did not finish in time is a check that failed.
TimesOutAsNo ==
  /\ pc = "wait"
  /\ child' = Nothing
  /\ Conclude("no")
  /\ UNCHANGED <<checks, at, present, dir>>

\* Mutant: openssl goes on after the limit.
TimesOutWithoutKill ==
  /\ pc = "wait"
  /\ Conclude("notrun")
  /\ UNCHANGED <<checks, at, present, dir, child>>

\* Mutant: there is no limit.
TimesOutNever == FALSE /\ UNCHANGED vars

\* The limit is over, even if the answer is on its way: openssl is killed and
\* waited for, and what it may have answered is not read.
TimesOut ==
  /\ pc = "wait"
  /\ child' = Nothing
  /\ Conclude("notrun")
  /\ UNCHANGED <<checks, at, present, dir>>

\* finally: rmtree.
Removes ==
  /\ pc = "remove"
  /\ dir' = Nothing
  /\ at' = at + 1
  /\ pc' = "start"
  /\ UNCHANGED <<checks, present, child, answer>>

-----------------------------------------------------------------------------
(* What is outside the verifier.                                           *)

\* openssl's answer about the files it finds when it reads them.
Truth ==
  IF \E f \in child.files : dir = Nothing \/ f \notin DOMAIN dir \/ dir[f] # "whole" THEN "no"
  ELSE IF child.attime THEN Check.at ELSE Check.now

ChildAnswers ==
  /\ child # Nothing /\ child.answer = Nothing
  /\ child' \in {[child EXCEPT !.answer = a] : a \in {Truth, "signal"}}
  /\ UNCHANGED <<checks, at, pc, present, dir, answer>>

Uninstall ==
  /\ present /\ at <= Len(checks)
  /\ present' = FALSE
  /\ UNCHANGED <<checks, at, pc, dir, child, answer>>

-----------------------------------------------------------------------------
Verifier ==
  \/ FindsNone \/ MakesDirectory \/ MakesNone \/ RefusesEntry
  \/ \E f \in Files : Writes(f) \/ WriteFails(f)
  \/ TimeIsNoDate \/ Runs \/ StartFails \/ Hears \/ TimesOut \/ Removes

Next == Verifier \/ ChildAnswers \/ Uninstall

\* The verifier goes on, its own clock included; openssl need never answer.
Spec == Init /\ [][Next]_vars /\ WF_vars(Verifier)

-----------------------------------------------------------------------------
(* Properties.                                                             *)

\* Types; a check is answered before the next one starts.
TypeOK ==
  /\ at \in 1..(Len(checks) + 1) /\ present \in BOOLEAN
  /\ pc \in {"start", "write", "wait", "remove"}
  /\ dir = Nothing \/ DOMAIN dir \subseteq Files
  /\ \A i \in DOMAIN checks :
       /\ answer[i] \in Answers \union {"unasked", "absent", "notrun"}
       /\ i < at => answer[i] # "unasked"
       /\ i > at => answer[i] = "unasked"

\* While openssl runs, every file it was told to read is there and whole: it is
\* never started on what a failed write left, nor left running when its files go.
\* However a check ends, neither its files nor its openssl outlive it.
FilesAndChild ==
  /\ child # Nothing =>
       dir # Nothing /\ \A f \in child.files : f \in DOMAIN dir /\ dir[f] = "whole"
  /\ pc = "start" => dir = Nothing /\ child = Nothing

\* What the code answers where openssl gives an answer at all.
Right(c) ==
  IF c.kind = "chain" /\ ~c.base64 THEN "broken"
  ELSE IF c.time = "nodate" \/ (c.kind = "chain" /\ ~c.textpath) THEN "no"
  ELSE IF c.time = "date" THEN c.at ELSE c.now

CK == INSTANCE Checks
        WITH right <- [i \in DOMAIN checks |-> Right(checks[i])],
             answer <- [i \in DOMAIN checks |->
                          IF answer[i] \in {"absent", "notrun"} THEN "none" ELSE answer[i]]

\* The checks are those that module Verdict assumes: a failure of this machine
\* (disk, memory, a signal, a slow or late openssl) is never a finding about the
\* pack, and a finding is openssl's own about the whole input at the right time.
ImplementsChecks == CK!Spec

\* Every check is answered, whatever openssl does.
EveryCheckAnswers == CK!EverySettled

\* SPEC 3.2: "with no usable `genTime` the chain is validated at the current time
\* instead", so openssl's answer at the current time is the only finding.
UnusableTimeIsNow ==
  \A i \in DOMAIN checks :
    checks[i].time = "nodate" => answer[i] \in {"unasked", "absent", "notrun", checks[i].now}
=============================================================================
