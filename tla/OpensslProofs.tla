---------------------------- MODULE OpensslProofs ----------------------------
(***************************************************************************)
(* Proofs about module Openssl, for checks of any number and kind.          *)
(*                                                                          *)
(* Staged says what the verifier has made at each step of a check: nothing  *)
(* before it, whole files while they are written and read, and an openssl   *)
(* that was told of all of them.  So what openssl reads is the input, and   *)
(* what is recorded is the right answer or none (Truthful).                 *)
(***************************************************************************)
EXTENDS Openssl, TLAPS

\* The files there are, each cut short or whole.
DirOK == dir = Nothing \/ \E F \in SUBSET Files : dir \in [F -> {"part", "whole"}]

\* The answer openssl gives to a check that it is asked.
Asked(c) == IF c.time = "date" THEN c.at ELSE c.now

Staged ==
  /\ pc = "start" =>
       dir = Nothing /\ child = Nothing /\ (at \in DOMAIN checks => answer[at] = "unasked")
  /\ pc # "start" => at \in DOMAIN checks
  /\ pc \in {"write", "wait"} =>
       /\ answer[at] = "unasked"
       /\ dir # Nothing /\ \A f \in DOMAIN dir : dir[f] = "whole"
  /\ child # Nothing => pc = "wait"
  /\ pc = "wait" =>
       /\ child \in [files : SUBSET Files, attime : BOOLEAN,
                     answer : {Nothing, "signal", Asked(Check)}]
       /\ child.files = DOMAIN dir
       /\ Check.time # "nodate" /\ (Check.kind = "chain" => Check.base64)
       /\ child.attime <=> Check.time = "date"
  /\ pc = "remove" => answer[at] # "unasked"

\* An answer is right, or there is none.
Truthful ==
  \A i \in DOMAIN checks :
    answer[i] \in {"unasked", "absent", "notrun", Right(checks[i])}

Shaped ==
  /\ checks \in Checklists /\ DOMAIN answer = DOMAIN checks
  /\ TypeOK /\ DirOK

Inv == Shaped /\ Staged /\ Truthful

-----------------------------------------------------------------------------
LEMMA CheckTypes ==
  ASSUME NEW list \in Checklists
  PROVE  /\ Len(list) \in Nat /\ DOMAIN list = 1..Len(list)
         /\ \A i \in DOMAIN list :
              /\ list[i].kind \in {"token", "chain"}
              /\ list[i].time \in {"date", "none", "nodate"}
              /\ list[i].base64 \in BOOLEAN /\ list[i].textpath \in BOOLEAN
              /\ list[i].at \in Answers /\ list[i].now \in Answers
<1> DEFINE S == ChecksOf("token", {"date", "none", "nodate"}, {"yes", "no"}) \union
                ChecksOf("chain", {"date", "none"}, Answers)
<1>1. list \in Seq(S)
  BY ChecksAssumption
<1>2. \A c \in S :
        /\ c.kind \in {"token", "chain"} /\ c.time \in {"date", "none", "nodate"}
        /\ c.base64 \in BOOLEAN /\ c.textpath \in BOOLEAN
        /\ c.at \in Answers /\ c.now \in Answers
  BY DEF ChecksOf, Answers
<1> HIDE DEF S
<1>3. Len(list) \in Nat /\ DOMAIN list = 1..Len(list) /\ \A i \in DOMAIN list : list[i] \in S
  BY <1>1
<1>4. QED
  BY <1>2, <1>3

\* A directory with files in it is a directory.
LEMMA DirIsThere ==
  ASSUME NEW F \in SUBSET Files, NEW d \in [F -> {"part", "whole"}]
  PROVE  d # Nothing
BY NothingAssumption

LEMMA RightIsAnAnswer ==
  ASSUME Shaped, NEW i \in DOMAIN checks
  PROVE  Right(checks[i]) \in Answers
BY CheckTypes DEF Shaped, Right, Answers

\* Recording an answer to the current check leaves the others.
LEMMA Recorded ==
  ASSUME Shaped, Staged, Truthful, at \in DOMAIN checks, UNCHANGED checks,
         NEW a \in {"absent", "notrun", Right(Check)}, Record(a)
  PROVE  /\ DOMAIN answer' = DOMAIN checks' /\ Truthful'
         /\ answer[at] = "unasked" => answer'[at] # "unasked"
         /\ answer'[at] # "unasked"
         /\ \A i \in DOMAIN checks' :
              /\ answer'[i] \in Answers \union {"unasked", "absent", "notrun"}
              /\ i < at => answer'[i] # "unasked"
              /\ i > at => answer'[i] = "unasked"
<1>1. a \in Answers \union {"absent", "notrun"} /\ a # "unasked"
  BY RightIsAnAnswer DEF Check, Answers
<1>2. answer' = [answer EXCEPT ![at] = a] /\ DOMAIN answer = DOMAIN checks
  BY DEF Record, Shaped
<1>3. \A i \in DOMAIN checks : answer'[i] = IF i = at THEN a ELSE answer[i]
  BY <1>2
<1>4. Truthful'
  BY <1>3 DEF Truthful, Check, Right
<1>5. \A i \in DOMAIN checks :
        /\ answer[i] \in Answers \union {"unasked", "absent", "notrun"}
        /\ i < at => answer[i] # "unasked"
        /\ i > at => answer[i] = "unasked"
  BY DEF Shaped, TypeOK
<1>6. at \in Nat /\ \A i \in DOMAIN checks : i \in Nat
  BY CheckTypes DEF Shaped, TypeOK
<1>7. QED
  BY <1>1, <1>2, <1>3, <1>4, <1>5, <1>6

LEMMA InvInit == Init => Inv
<1> SUFFICES ASSUME Init PROVE Inv
  OBVIOUS
<1>1. checks \in Checklists /\ Len(checks) \in Nat /\ DOMAIN checks = 1..Len(checks)
  BY CheckTypes DEF Init
<1>2. TypeOK
  BY <1>1 DEF Init, TypeOK
<1>3. Staged
  BY DEF Init, Staged
<1>4. QED
  BY <1>1, <1>2, <1>3 DEF Init, Inv, Shaped, DirOK, Truthful

-----------------------------------------------------------------------------
(* Every step.                                                             *)

\* A step that settles the current check and goes on to the next.
LEMMA SettledAtOnce ==
  ASSUME Inv, pc = "start", at <= Len(checks), NEW a \in {"absent", "notrun"},
         AnswerNow(a), UNCHANGED <<checks, dir, child>>, present' \in BOOLEAN
  PROVE  Inv'
<1>1. at \in DOMAIN checks /\ Len(checks) \in Nat
  BY CheckTypes DEF Inv, Shaped, TypeOK
<1>2. Record(a) /\ at' = at + 1 /\ pc' = "start"
  BY DEF AnswerNow
<1>3. /\ DOMAIN answer' = DOMAIN checks' /\ Truthful'
      /\ \A i \in DOMAIN checks' :
           /\ answer'[i] \in Answers \union {"unasked", "absent", "notrun"}
           /\ i < at => answer'[i] # "unasked"
           /\ i > at => answer'[i] = "unasked"
      /\ answer'[at] # "unasked"
  BY <1>1, <1>2, Recorded DEF Inv
<1>4. \A i \in DOMAIN checks : i \in Nat
  BY CheckTypes DEF Inv, Shaped
<1>5. TypeOK'
  BY <1>1, <1>2, <1>3, <1>4 DEF Inv, Shaped, TypeOK
<1>6. Staged'
  BY <1>1, <1>2, <1>3 DEF Inv, Shaped, TypeOK, Staged
<1>7. QED
  BY <1>3, <1>5, <1>6 DEF Inv, Shaped, DirOK

\* A step that settles the current check and leaves its files to be removed.
LEMMA SettledToRemove ==
  ASSUME Inv, pc \in {"write", "wait"}, NEW a \in {"absent", "notrun", Right(Check)},
         Conclude(a), UNCHANGED <<checks, at, present>>, DirOK', child' = Nothing
  PROVE  Inv'
<1>1. at \in DOMAIN checks
  BY DEF Inv, Staged
<1>2. Record(a) /\ pc' = "remove"
  BY DEF Conclude
<1>3. /\ DOMAIN answer' = DOMAIN checks' /\ Truthful'
      /\ \A i \in DOMAIN checks' :
           /\ answer'[i] \in Answers \union {"unasked", "absent", "notrun"}
           /\ i < at => answer'[i] # "unasked"
           /\ i > at => answer'[i] = "unasked"
      /\ answer'[at] # "unasked"
  BY <1>1, <1>2, Recorded DEF Inv
<1>4. dir' = Nothing \/ DOMAIN dir' \subseteq Files
  BY DEF DirOK
<1>5. TypeOK'
  BY <1>2, <1>3, <1>4 DEF Inv, Shaped, TypeOK
<1>6. Staged'
  BY <1>1, <1>2, <1>3 DEF Staged
<1>7. QED
  BY <1>3, <1>5, <1>6 DEF Inv, Shaped

\* What the check needs are files.
LEMMA NeedsFiles == ASSUME NEW c PROVE Needs(c) \in SUBSET Files
BY DEF Needs, Files

\* A directory with one more file.
LEMMA OneMore ==
  ASSUME Inv, pc = "write", NEW f \in Files, NEW how \in {"part", "whole"},
         dir' = [g \in DOMAIN dir \union {f} |-> IF g = f THEN how ELSE dir[g]]
  PROVE  /\ DirOK' /\ dir' # Nothing /\ DOMAIN dir' = DOMAIN dir \union {f}
         /\ how = "whole" => \A g \in DOMAIN dir' : dir'[g] = "whole"
<1>1. PICK F \in SUBSET Files : dir \in [F -> {"part", "whole"}]
  BY DEF Inv, Shaped, Staged, DirOK
<1>2. dir' \in [F \union {f} -> {"part", "whole"}] /\ F \union {f} \in SUBSET Files
  BY <1>1
<1>3. dir' # Nothing
  BY <1>2, DirIsThere
<1>4. \A g \in DOMAIN dir : dir[g] = "whole"
  BY DEF Inv, Staged
<1>5. QED
  BY <1>2, <1>3, <1>4 DEF DirOK

LEMMA InvStep == Inv /\ [Next]_vars => Inv'
<1> SUFFICES ASSUME Inv, [Next]_vars PROVE Inv'
  OBVIOUS
<1>1. CASE FindsNone
  BY <1>1, SettledAtOnce DEF FindsNone, Inv, Shaped, TypeOK
<1>2. CASE MakesDirectory
  <2>1. NoFiles \in [{} -> {"part", "whole"}] /\ NoFiles # Nothing
    BY DirIsThere DEF NoFiles, Files
  <2>2. at \in DOMAIN checks /\ answer[at] = "unasked" /\ child = Nothing
    BY <1>2, CheckTypes DEF MakesDirectory, Inv, Shaped, TypeOK, Staged
  <2>3. /\ dir' = NoFiles /\ pc' = "write"
        /\ UNCHANGED <<checks, at, present, child, answer>>
    BY <1>2 DEF MakesDirectory
  <2>4. DOMAIN dir' = {} /\ dir' # Nothing /\ DirOK'
    BY <2>1, <2>3 DEF DirOK, NoFiles, Files
  <2>5. TypeOK'
    BY <2>3, <2>4 DEF Inv, Shaped, TypeOK
  <2>6. Staged'
    BY <2>2, <2>3, <2>4 DEF Staged
  <2>7. Truthful'
    BY <2>3 DEF Inv, Truthful, Right
  <2>8. QED
    BY <2>3, <2>4, <2>5, <2>6, <2>7 DEF Inv, Shaped
<1>3. CASE MakesNone
  BY <1>3, SettledAtOnce DEF MakesNone, Inv, Shaped, TypeOK
<1>4. CASE RefusesEntry
  <2>1. Right(Check) = "broken" /\ child = Nothing
    BY <1>4 DEF RefusesEntry, Right, Inv, Staged
  <2>2. Conclude(Right(Check)) /\ DirOK' /\ child' = Nothing
    BY <1>4, <2>1 DEF RefusesEntry, Inv, Shaped, DirOK
  <2>3. QED
    BY <1>4, <2>2, SettledToRemove DEF RefusesEntry
<1>5. ASSUME NEW f \in Files, Writes(f) PROVE Inv'
  <2>1. /\ pc = "write" /\ UNCHANGED <<checks, at, pc, present, child, answer>>
        /\ dir' = [g \in DOMAIN dir \union {f} |-> IF g = f THEN "whole" ELSE dir[g]]
    BY <1>5 DEF Writes, Writable
  <2>2. DirOK' /\ dir' # Nothing /\ \A g \in DOMAIN dir' : dir'[g] = "whole"
    BY <2>1, OneMore
  <2>3. TypeOK'
    BY <2>1, <2>2 DEF Inv, Shaped, TypeOK, DirOK
  <2>4. Staged'
    BY <2>1, <2>2 DEF Inv, Staged
  <2>5. Truthful'
    BY <2>1 DEF Inv, Truthful, Right
  <2>6. QED
    BY <2>1, <2>2, <2>3, <2>4, <2>5 DEF Inv, Shaped
<1>6. ASSUME NEW f \in Files, WriteFails(f) PROVE Inv'
  <2>1. pc = "write" /\ Conclude("notrun") /\ UNCHANGED <<checks, at, present, child>>
    BY <1>6 DEF WriteFails, Writable
  <2>2. DirOK'
    <3>1. CASE dir' = dir
      BY <3>1 DEF Inv, Shaped, DirOK
    <3>2. CASE dir' = [g \in DOMAIN dir \union {f} |-> IF g = f THEN "part" ELSE dir[g]]
      BY <2>1, <3>2, OneMore
    <3>3. QED
      BY <1>6, <3>1, <3>2 DEF WriteFails
  <2>3. child' = Nothing
    BY <2>1 DEF Inv, Staged
  <2>4. QED
    BY <2>1, <2>2, <2>3, SettledToRemove
<1>7. CASE TimeIsNoDate
  <2>1. Right(Check) = "no" /\ child = Nothing
    BY <1>7 DEF TimeIsNoDate, AllWritten, Right, Inv, Staged
  <2>2. Conclude(Right(Check)) /\ DirOK' /\ child' = Nothing
    BY <1>7, <2>1 DEF TimeIsNoDate, Inv, Shaped, DirOK
  <2>3. QED
    BY <1>7, <2>2, SettledToRemove DEF TimeIsNoDate, AllWritten
<1>8. CASE Runs
  <2>1. /\ pc = "write" /\ pc' = "wait" /\ UNCHANGED <<checks, at, present, dir, answer>>
        /\ child' = [files |-> Needs(Check), attime |-> Check.time = "date",
                     answer |-> Nothing]
        /\ Needs(Check) = DOMAIN dir /\ Check.time # "nodate"
        /\ Check.kind = "chain" => Check.base64
    BY <1>8 DEF Runs, AllWritten
  <2>2. TypeOK' /\ DirOK'
    BY <2>1 DEF Inv, Shaped, TypeOK, DirOK
  <2>3. Staged'
    <3>1. child' \in [files : SUBSET Files, attime : BOOLEAN, answer : {Nothing}]
      BY <2>1, NeedsFiles
    <3>2. QED
      BY <2>1, <3>1 DEF Inv, Staged, Check
  <2>4. Truthful'
    BY <2>1 DEF Inv, Truthful, Right
  <2>5. QED
    BY <2>1, <2>2, <2>3, <2>4 DEF Inv, Shaped
<1>9. CASE StartFails
  <2>1. DirOK' /\ child' = Nothing
    BY <1>9 DEF StartFails, AllWritten, Inv, Shaped, DirOK, Staged
  <2>2. QED
    BY <1>9, <2>1, SettledToRemove DEF StartFails, AllWritten
<1>10. CASE Hears
  <2> DEFINE a == IF child.answer = "signal" THEN "notrun"
                  ELSE IF Check.kind = "chain" /\ ~Check.textpath THEN "no"
                  ELSE child.answer
  <2>1. pc = "wait" /\ Conclude(a) /\ child' = Nothing /\ UNCHANGED <<checks, at, present, dir>>
    BY <1>10 DEF Hears
  <2>2. /\ child.answer \in {"signal", Asked(Check)}
        /\ Check.time # "nodate" /\ (Check.kind = "chain" => Check.base64)
    BY <1>10 DEF Hears, Inv, Staged
  <2>3. a \in {"notrun", Right(Check)}
    BY <2>2 DEF Right, Asked
  <2>4. DirOK'
    BY <2>1 DEF Inv, Shaped, DirOK
  <2> HIDE DEF a
  <2>5. QED
    BY <2>1, <2>3, <2>4, SettledToRemove
<1>11. CASE TimesOut
  <2>1. DirOK'
    BY <1>11 DEF TimesOut, Inv, Shaped, DirOK
  <2>2. QED
    BY <1>11, <2>1, SettledToRemove DEF TimesOut
<1>12. CASE Removes
  <2>1. /\ pc = "remove" /\ pc' = "start" /\ dir' = Nothing /\ at' = at + 1
        /\ UNCHANGED <<checks, present, child, answer>>
    BY <1>12 DEF Removes
  <2>2. /\ at \in DOMAIN checks /\ DOMAIN checks = 1..Len(checks) /\ Len(checks) \in Nat
        /\ answer[at] # "unasked" /\ child = Nothing
    BY <2>1, CheckTypes DEF Inv, Shaped, Staged
  <2>3. \A i \in DOMAIN checks :
          /\ answer[i] \in Answers \union {"unasked", "absent", "notrun"}
          /\ i < at => answer[i] # "unasked"
          /\ i > at => answer[i] = "unasked"
    BY DEF Inv, Shaped, TypeOK
  <2>4. TypeOK'
    BY <2>1, <2>2, <2>3 DEF Inv, Shaped, TypeOK
  <2>5. Staged'
    BY <2>1, <2>2, <2>3 DEF Staged
  <2>6. Truthful' /\ DirOK'
    BY <2>1 DEF Inv, Truthful, Right, DirOK
  <2>7. QED
    BY <2>1, <2>4, <2>5, <2>6 DEF Inv, Shaped
<1>13. CASE ChildAnswers
  <2>1. /\ child # Nothing /\ child.answer = Nothing
        /\ UNCHANGED <<checks, at, pc, present, dir, answer>>
    BY <1>13 DEF ChildAnswers
  <2>2. PICK a \in {Truth, "signal"} : child' = [child EXCEPT !.answer = a]
    BY <1>13 DEF ChildAnswers
  <2>3. /\ pc = "wait" /\ child.files = DOMAIN dir /\ dir # Nothing
        /\ \A f \in DOMAIN dir : dir[f] = "whole"
        /\ child.attime <=> Check.time = "date"
        /\ child \in [files : SUBSET Files, attime : BOOLEAN,
                      answer : {Nothing, "signal", Asked(Check)}]
    BY <2>1 DEF Inv, Staged
  <2>4. Truth = Asked(Check)
    BY <2>3 DEF Truth, Asked
  <2>5. TypeOK' /\ DirOK' /\ Truthful'
    BY <2>1 DEF Inv, Shaped, TypeOK, DirOK, Truthful, Right
  <2>6. /\ child'.files = child.files /\ child'.attime = child.attime
        /\ child' \in [files : SUBSET Files, attime : BOOLEAN,
                       answer : {Nothing, "signal", Asked(Check)}]
    BY <2>2, <2>3, <2>4
  <2>7. Staged'
    BY <2>1, <2>3, <2>4, <2>6 DEF Inv, Staged, Check
  <2>8. QED
    BY <2>1, <2>5, <2>7 DEF Inv, Shaped
<1>14. CASE Uninstall
  BY <1>14 DEF Uninstall, Inv, Shaped, TypeOK, DirOK, Staged, Truthful, Check, Right
<1>15. CASE UNCHANGED vars
  BY <1>15 DEF vars, Inv, Shaped, TypeOK, DirOK, Staged, Truthful, Check, Right
<1>16. QED
  BY <1>1, <1>2, <1>3, <1>4, <1>5, <1>6, <1>7, <1>8, <1>9, <1>10, <1>11, <1>12, <1>13,
     <1>14, <1>15 DEF Next, Verifier

-----------------------------------------------------------------------------
(* Theorems.                                                               *)

THEOREM Invariance == Spec => []Inv
BY InvInit, InvStep, PTL DEF Spec

\* Every variable keeps its shape and checks are answered one after the other.
THEOREM TypeCorrect == Spec => []TypeOK
<1>1. Inv => TypeOK
  BY DEF Inv, Shaped
<1>2. QED
  BY <1>1, Invariance, PTL

\* Whatever fails and whenever: openssl runs on whole files only, and a check
\* that is over has left no file and no process.
THEOREM FilesOutliveTheChild == Spec => []FilesAndChild
<1>1. Inv => FilesAndChild
  BY DEF Inv, Staged, FilesAndChild
<1>2. QED
  BY <1>1, Invariance, PTL

\* Every step of a check settles it once, with the right answer or none, or does
\* nothing that module Verdict could see.
LEMMA StepSettles == Inv /\ [Next]_vars => [CK!Next]_(CK!vars)
<1> DEFINE right(i) == Right(checks[i])
           seen(i) == IF answer[i] \in {"absent", "notrun"} THEN "none" ELSE answer[i]
<1> SUFFICES ASSUME Inv, [Next]_vars PROVE [CK!Next]_(CK!vars)
  OBVIOUS
<1>1. CASE UNCHANGED <<checks, answer>>
  BY <1>1 DEF CK!vars
<1>2. ASSUME at \in DOMAIN checks, UNCHANGED checks, answer[at] = "unasked",
             NEW a \in {"absent", "notrun", Right(Check)}, Record(a)
      PROVE  CK!Next
  <2>1. /\ DOMAIN answer = DOMAIN checks /\ answer' = [answer EXCEPT ![at] = a]
        /\ DOMAIN checks = 1..Len(checks) /\ Len(checks) \in Nat
    BY <1>2, CheckTypes DEF Inv, Shaped, Record
  <2>2. \A j \in 1..(at - 1) : seen(j) # "unasked"
    <3>1. \A j \in 1..(at - 1) : j \in DOMAIN checks /\ j < at
      BY <1>2, <2>1
    <3>2. QED
      BY <3>1 DEF Inv, Shaped, TypeOK
  <2>3. seen(at) = "unasked"
    BY <1>2
  <2> DEFINE b == IF a \in {"absent", "notrun"} THEN "none" ELSE a
  <2>4. b \in {right(at), "none"}
    BY <1>2 DEF Check
  <2>5. [i \in DOMAIN checks' |-> IF answer'[i] \in {"absent", "notrun"}
                                 THEN "none" ELSE answer'[i]] =
          [[i \in DOMAIN checks |-> seen(i)] EXCEPT ![at] = b]
    <3>1. \A i \in DOMAIN checks : answer'[i] = IF i = at THEN a ELSE answer[i]
      BY <2>1
    <3>2. checks' = checks
      BY <1>2
    <3>3. QED
      BY <3>1, <3>2
  <2>6. [i \in DOMAIN checks' |-> Right(checks'[i])] = [i \in DOMAIN checks |-> right(i)]
    <3>1. checks' = checks
      BY <1>2
    <3>2. QED
      BY <3>1
  <2> HIDE DEF b
  <2> DEFINE R == [i \in DOMAIN checks |-> right(i)]
             A == [i \in DOMAIN checks |-> seen(i)]
  <2>7. /\ A[at] = "unasked" /\ R[at] = right(at) /\ at \in DOMAIN R
        /\ \A j \in 1..(at - 1) : A[j] # "unasked"
    BY <1>2, <2>1, <2>2, <2>3
  <2>8. UNCHANGED R
    BY <2>6 DEF Right
  <2>9. b \in {R[at], "none"} /\ A' = [A EXCEPT ![at] = b]
    BY <2>4, <2>5, <2>7
  <2> HIDE DEF right, seen
  <2>10. \E i \in DOMAIN R :
           /\ A[i] = "unasked" /\ \A j \in 1..(i - 1) : A[j] # "unasked"
           /\ \E x \in {R[i], "none"} : A' = [A EXCEPT ![i] = x]
           /\ UNCHANGED R
    BY <2>7, <2>8, <2>9
  <2>11. QED
    BY <2>10 DEF CK!Next, CK!Settle, right, seen
<1>3. pc = "start" /\ at <= Len(checks) => at \in DOMAIN checks /\ answer[at] = "unasked"
  BY CheckTypes DEF Inv, Shaped, TypeOK, Staged
<1>4. pc \in {"write", "wait"} => at \in DOMAIN checks /\ answer[at] = "unasked"
  BY DEF Inv, Staged
<1>5. CASE FindsNone
  BY <1>2, <1>3, <1>5 DEF FindsNone, AnswerNow
<1>6. CASE MakesNone
  BY <1>2, <1>3, <1>6 DEF MakesNone, AnswerNow
<1>7. CASE RefusesEntry
  <2>1. Right(Check) = "broken"
    BY <1>7 DEF RefusesEntry, Right
  <2>2. QED
    BY <1>2, <1>4, <1>7, <2>1 DEF RefusesEntry, Conclude
<1>8. ASSUME NEW f \in Files, WriteFails(f) PROVE CK!Next
  BY <1>2, <1>4, <1>8 DEF WriteFails, Writable, Conclude
<1>9. CASE TimeIsNoDate
  <2>1. Right(Check) = "no"
    BY <1>9 DEF TimeIsNoDate, AllWritten, Right
  <2>2. QED
    BY <1>2, <1>4, <1>9, <2>1 DEF TimeIsNoDate, AllWritten, Conclude
<1>10. CASE StartFails
  BY <1>2, <1>4, <1>10 DEF StartFails, AllWritten, Conclude
<1>11. CASE Hears
  <2> DEFINE a == IF child.answer = "signal" THEN "notrun"
                  ELSE IF Check.kind = "chain" /\ ~Check.textpath THEN "no"
                  ELSE child.answer
  <2>1. pc = "wait" /\ Record(a) /\ UNCHANGED checks
    BY <1>11 DEF Hears, Conclude
  <2>2. /\ child.answer \in {"signal", Asked(Check)}
        /\ Check.time # "nodate" /\ (Check.kind = "chain" => Check.base64)
    BY <1>11 DEF Hears, Inv, Staged
  <2>3. a \in {"notrun", Right(Check)}
    BY <2>2 DEF Right, Asked
  <2> HIDE DEF a
  <2>4. QED
    BY <1>2, <1>4, <2>1, <2>3
<1>12. CASE TimesOut
  BY <1>2, <1>4, <1>12 DEF TimesOut, Conclude
<1>13. ASSUME \/ MakesDirectory \/ Runs \/ Removes \/ ChildAnswers \/ Uninstall
              \/ UNCHANGED vars \/ \E f \in Files : Writes(f)
       PROVE  UNCHANGED <<checks, answer>>
  BY <1>13 DEF MakesDirectory, Runs, Removes, ChildAnswers, Uninstall, Writes, vars
<1>14. QED
  BY <1>1, <1>5, <1>6, <1>7, <1>8, <1>9, <1>10, <1>11, <1>12, <1>13 DEF Next, Verifier

\* The checks, with every file, process, timeout and failure in them, implement
\* what module Verdict takes them for.
THEOREM ChecksAreImplemented == Spec => ImplementsChecks
<1>1. Init => CK!Init
  BY DEF Init, CK!Init
<1>2. QED
  BY <1>1, Invariance, StepSettles, PTL DEF Spec, ImplementsChecks, CK!Spec
=============================================================================
