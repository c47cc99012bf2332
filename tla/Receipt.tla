------------------------------- MODULE Receipt -------------------------------
(***************************************************************************)
(* How a command of the CLI ends: the receipt goes to stdout (_emit), what  *)
(* there is to say to stderr (_say), both through one writer (_write_all),  *)
(* stderr is settled and the exit code chosen (main).  Around it are the    *)
(* streams as Python opens them (raw with -u, else behind a buffer), what   *)
(* they are connected to, the readers there and the interpreter's own last  *)
(* flush.                                                                   *)
(*                                                                          *)
(* Text is a sequence of units <<text, i>>.  The operating system takes one *)
(* unit at a time, which covers every partial write.                        *)
(***************************************************************************)
EXTENDS Integers, Sequences

CONSTANTS
  Outcomes,   \* what the commands of the run may have computed
  Worlds,     \* how the two streams may be connected
  ReceiptSize, LineSize,   \* units of the receipt and of a line on stderr
  BufferSize, \* units a buffered stream keeps back
  PipeSize    \* units a pipe holds

Null == 0    \* the null device
Shut == -1   \* no stream at all: Python has None for it
Streams == {"out", "err"}
Verdicts == {"met", "unmet"}

ASSUME SizesAssumption ==
  /\ ReceiptSize \in Nat \ {0} /\ LineSize \in Nat \ {0}
  /\ BufferSize \in Nat \ {0} /\ PipeSize \in Nat \ {0}

ASSUME OutcomesAssumption ==
  Outcomes \subseteq Verdicts \union {"refused", "unwritten", "notrun", "usage"}

\* A world: the sinks behind the descriptors of the two streams (one for both
\* with 2>&1), whether the streams are raw, and a stream in which the caller of
\* main() in this process left text.
ASSUME WorldsAssumption ==
  \A w \in Worlds :
    /\ w.fd \in [Streams -> {Shut, 1, 2}] /\ w.raw \in BOOLEAN
    /\ w.caller \subseteq {s \in Streams : w.fd[s] # Shut}
    /\ w.sinks \in [{1, 2} -> [kind : {"pipe", "file"}, nonblock : BOOLEAN,
                               room : Nat, reader : BOOLEAN]]

VARIABLES
  outcome,  \* what the command computed
  raw,      \* the streams are raw
  sinks,    \* what the descriptors are connected to
  fd,       \* the sink of each stream
  held,     \* units in the buffer of each stream
  got,      \* units of each stream that its sink took
  given,    \* text each stream was given (history)
  on,       \* the stream of the call to _write_all
  left,     \* what that call has not passed on
  stage,    \* where the run is
  waiting,  \* in _wait_writable
  says,     \* the lines still to say
  lost,     \* _ClosedStderr.lost or _Parser.stderr_lost
  rc,       \* the exit code so far
  exit      \* the process's exit code; 256 while it runs

connections == <<raw, sinks, fd>>
vars == <<outcome, raw, sinks, fd, held, got, given, on, left, stage, waiting,
          says, lost, rc, exit>>

Size(t)  == CASE t = "receipt" -> ReceiptSize [] t = "caller" -> 1 [] OTHER -> LineSize
Text(t)  == [i \in 1..Size(t) |-> <<t, i>>]
Caller(c, s) == IF s \in c THEN Text("caller") ELSE <<>>

-----------------------------------------------------------------------------
(* The operating system, below a stream that is open.                       *)

Takes(s) ==
  \/ fd[s] = Null
  \/ fd[s] \in {1, 2} /\ sinks[fd[s]].room > 0 /\ sinks[fd[s]].reader

\* EPIPE, ENOSPC, EBADF, EFBIG.
Broken(s) ==
  /\ fd[s] \in {1, 2}
  /\ \/ ~sinks[fd[s]].reader
     \/ sinks[fd[s]].kind = "file" /\ sinks[fd[s]].room = 0

\* A full pipe; on a blocking one the write just does not return.
WouldBlock(s) ==
  fd[s] \in {1, 2} /\ ~Takes(s) /\ ~Broken(s) /\ sinks[fd[s]].nonblock

\* The sink of s takes the unit u.
Take(s, u) ==
  /\ Takes(s)
  /\ IF fd[s] = Null THEN UNCHANGED <<sinks, got>>
     ELSE /\ sinks' = [sinks EXCEPT ![fd[s]].room = @ - 1]
          /\ got' = [got EXCEPT ![s] = Append(@, u)]

\* What the stream keeps back goes first: one unit of it.
TakeHeld(s) ==
  /\ held[s] # <<>>
  /\ Take(s, Head(held[s]))
  /\ held' = [held EXCEPT ![s] = Tail(@)]

\* The reader of pipe n reads a unit, or goes away.
Read(n) ==
  /\ sinks[n].kind = "pipe" /\ sinks[n].reader /\ sinks[n].room < PipeSize
  /\ sinks' = [sinks EXCEPT ![n].room = @ + 1]
  /\ UNCHANGED <<outcome, raw, fd, held, got, given, on, left, stage, waiting,
                 says, lost, rc, exit>>

Leave(n) ==
  /\ sinks[n].kind = "pipe" /\ sinks[n].reader /\ exit = 256
  /\ sinks' = [sinks EXCEPT ![n].reader = FALSE]
  /\ UNCHANGED <<outcome, raw, fd, held, got, given, on, left, stage, waiting,
                 says, lost, rc, exit>>

-----------------------------------------------------------------------------
(* _write_all on the stream `on`: drain what it holds, write, flush.        *)

\* The call for text t on stream s begins.
Call(s, t) ==
  /\ on' = s /\ left' = Text(t)
  /\ given' = [given EXCEPT ![s] = @ \o Text(t)]
  /\ stage' = "drain"

FlushUnit ==
  /\ stage \in {"drain", "flush"} /\ ~waiting
  /\ TakeHeld(on)
  /\ UNCHANGED <<outcome, raw, fd, given, on, left, stage, waiting, says, lost, rc, exit>>

Drained ==
  /\ stage = "drain" /\ ~waiting /\ held[on] = <<>>
  /\ stage' = "write"
  /\ UNCHANGED <<outcome, connections, held, got, given, on, left, waiting,
                 says, lost, rc, exit>>

\* A flush, or a raw write, that finds a non-blocking pipe full.
Blocked ==
  /\ ~waiting /\ WouldBlock(on)
  /\ \/ stage \in {"drain", "flush"} /\ held[on] # <<>>
     \/ stage = "write" /\ left # <<>> /\ raw
  /\ waiting' = TRUE
  /\ UNCHANGED <<outcome, connections, held, got, given, on, left, stage,
                 says, lost, rc, exit>>

RawUnit ==
  /\ stage = "write" /\ ~waiting /\ left # <<>> /\ raw
  /\ Take(on, Head(left)) /\ left' = Tail(left)
  /\ UNCHANGED <<outcome, raw, fd, held, given, on, stage, waiting, says, lost, rc, exit>>

Fits == Len(held[on]) + Len(left) <= BufferSize

\* The buffered writer keeps what fits back.
BufferRest ==
  /\ stage = "write" /\ ~waiting /\ left # <<>> /\ ~raw /\ Fits
  /\ held' = [held EXCEPT ![on] = @ \o left] /\ left' = <<>>
  /\ UNCHANGED <<outcome, connections, got, given, on, stage, waiting, says, lost, rc, exit>>

\* It passes on what does not fit, its buffer first.
BufferUnit ==
  /\ stage = "write" /\ ~waiting /\ left # <<>> /\ ~raw /\ ~Fits
  /\ IF held[on] # <<>> THEN TakeHeld(on) /\ UNCHANGED left
     ELSE Take(on, Head(left)) /\ left' = Tail(left) /\ UNCHANGED held
  /\ UNCHANGED <<outcome, raw, fd, given, on, stage, waiting, says, lost, rc, exit>>

\* Mutant: the units that BlockingIOError reports as taken are written again.
BufferBlockedAgain ==
  /\ stage = "write" /\ ~waiting /\ left # <<>> /\ ~raw /\ ~Fits /\ WouldBlock(on)
  /\ held' = [held EXCEPT ![on] = @ \o SubSeq(left, 1, BufferSize - Len(@))]
  /\ waiting' = TRUE
  /\ UNCHANGED <<outcome, connections, got, given, on, left, stage, says, lost, rc, exit>>

\* Or fills its buffer and raises BlockingIOError with the units it took.
BufferBlocked ==
  /\ stage = "write" /\ ~waiting /\ left # <<>> /\ ~raw /\ ~Fits /\ WouldBlock(on)
  /\ LET n == BufferSize - Len(held[on])
     IN /\ held' = [held EXCEPT ![on] = @ \o SubSeq(left, 1, n)]
        /\ left' = SubSeq(left, n + 1, Len(left))
        /\ waiting' = TRUE
  /\ UNCHANGED <<outcome, connections, got, given, on, stage, says, lost, rc, exit>>

Written ==
  /\ stage = "write" /\ ~waiting /\ left = <<>>
  /\ stage' = "flush"
  /\ UNCHANGED <<outcome, connections, held, got, given, on, left, waiting,
                 says, lost, rc, exit>>

WaitWritable ==
  /\ waiting /\ (Takes(on) \/ Broken(on))
  /\ waiting' = FALSE
  /\ UNCHANGED <<outcome, connections, held, got, given, on, left, stage,
                 says, lost, rc, exit>>

Flushed ==
  /\ stage = "flush" /\ ~waiting /\ held[on] = <<>>
  /\ stage' = "written"
  /\ UNCHANGED <<outcome, connections, held, got, given, on, left, waiting,
                 says, lost, rc, exit>>

\* A flush or a write that fails ends the call.
Writing == \/ stage \in {"drain", "flush"} /\ held[on] # <<>>
           \/ stage = "write" /\ left # <<>> /\ (raw \/ ~Fits)

\* Mutant: every OSError is taken for a full stream.
FailedWaits ==
  /\ ~waiting /\ Writing /\ Broken(on)
  /\ waiting' = TRUE
  /\ UNCHANGED <<outcome, connections, held, got, given, on, left, stage,
                 says, lost, rc, exit>>

\* _to_devnull: what is still buffered must not fail again at exit.
Failed ==
  /\ ~waiting /\ Writing /\ Broken(on)
  /\ stage' = "failed" /\ left' = <<>>
  /\ fd' = [fd EXCEPT ![on] = Null]
  /\ UNCHANGED <<outcome, raw, sinks, held, got, given, on, waiting, says, lost, rc, exit>>

-----------------------------------------------------------------------------
(* The command.                                                             *)

HasReceipt == outcome \in Verdicts \union {"notrun"}

\* What a command has to say when nothing fails; argparse prints the usage and
\* then its error.
Lines == CASE outcome \in Verdicts -> <<>>
           [] outcome = "refused" -> <<"refusal">>
           [] outcome = "unwritten" -> <<"not_written">>
           [] outcome = "notrun" -> <<"note">>
           [] outcome = "usage" -> <<"usage", "error">>

Code == CASE outcome = "met" -> 0 [] outcome \in {"unmet", "refused"} -> 1
          [] outcome = "usage" -> 2 [] OTHER -> 74

Init ==
  /\ outcome \in Outcomes
  /\ \E w \in Worlds :
       /\ raw = w.raw /\ sinks = w.sinks /\ fd = w.fd
       /\ held = [s \in Streams |-> Caller(w.caller, s)]
       /\ given = held
  /\ got = [s \in Streams |-> <<>>]
  /\ on = "out" /\ left = <<>> /\ stage = "command" /\ waiting = FALSE
  /\ says = <<>> /\ lost = FALSE /\ rc = 0 /\ exit = 256

\* The outcome is there: its receipt first, if it has one.
Command ==
  /\ stage = "command"
  /\ rc' = Code /\ says' = Lines
  /\ IF ~HasReceipt THEN stage' = "say" /\ UNCHANGED <<given, on, left>>
     ELSE IF fd["out"] = Shut
       THEN stage' = "failed" /\ on' = "out" /\ UNCHANGED <<given, left>>
     ELSE Call("out", "receipt")
  /\ UNCHANGED <<outcome, connections, held, got, waiting, lost, exit>>

\* Mutant: _emit's answer is not looked at.
ReceiptFailedQuietly ==
  /\ stage = "failed" /\ on = "out"
  /\ says' = <<"not_written">> /\ stage' = "say"
  /\ UNCHANGED <<outcome, connections, held, got, given, on, left, waiting, lost, rc, exit>>

\* _not_written: never the verdict's code.
ReceiptFailed ==
  /\ stage = "failed" /\ on = "out"
  /\ rc' = 74 /\ says' = <<"not_written">> /\ stage' = "say"
  /\ UNCHANGED <<outcome, connections, held, got, given, on, left, waiting, lost, exit>>

\* The call wrote the receipt, or a line.
CallDone ==
  /\ stage = "written"
  /\ stage' = "say"
  /\ UNCHANGED <<outcome, connections, held, got, given, on, left, waiting,
                 says, lost, rc, exit>>

\* Mutant: a refusal is 1, whether or not anybody was told.
LineFailedQuietly ==
  /\ stage = "failed" /\ on = "err"
  /\ lost' = (lost \/ outcome = "usage")
  /\ stage' = "say"
  /\ UNCHANGED <<outcome, connections, held, got, given, on, left, waiting,
                 says, rc, exit>>

\* A line that was not written: argparse notes it, a refusal is EX_IOERR then.
LineFailed ==
  /\ stage = "failed" /\ on = "err"
  /\ lost' = (lost \/ outcome = "usage")
  /\ rc' = IF outcome = "refused" THEN 74 ELSE rc
  /\ stage' = "say"
  /\ UNCHANGED <<outcome, connections, held, got, given, on, left, waiting, says, exit>>

\* A closed stderr takes every line and counts it as lost.
Say ==
  /\ stage = "say" /\ says # <<>>
  /\ says' = Tail(says)
  /\ IF fd["err"] = Shut
       THEN /\ lost' = TRUE
            /\ given' = [given EXCEPT !["err"] = @ \o Text(Head(says))]
            /\ UNCHANGED <<on, left, stage>>
       ELSE /\ Call("err", Head(says))
            /\ UNCHANGED lost
  /\ UNCHANGED <<outcome, connections, held, got, waiting, rc, exit>>

\* _stderr_settled: nothing more to say.
Lost ==
  /\ stage = "say" /\ says = <<>> /\ lost
  /\ rc' = 74 /\ stage' = "end"
  /\ UNCHANGED <<outcome, connections, held, got, given, on, left, waiting,
                 says, lost, exit>>

SettleUnit ==
  /\ stage = "say" /\ says = <<>> /\ ~lost
  /\ TakeHeld("err")
  /\ UNCHANGED <<outcome, raw, fd, given, on, left, stage, waiting, says, lost, rc, exit>>

SettleFailed ==
  /\ stage = "say" /\ says = <<>> /\ ~lost
  /\ held["err"] # <<>> /\ (Broken("err") \/ WouldBlock("err"))
  /\ rc' = 74 /\ stage' = "end" /\ fd' = [fd EXCEPT !["err"] = Null]
  /\ UNCHANGED <<outcome, raw, sinks, held, got, given, on, left, waiting,
                 says, lost, exit>>

Settled ==
  /\ stage = "say" /\ says = <<>> /\ ~lost /\ held["err"] = <<>>
  /\ stage' = "end"
  /\ UNCHANGED <<outcome, connections, held, got, given, on, left, waiting,
                 says, lost, rc, exit>>

\* The interpreter's last flush, of both streams; 120 when it fails.
LastUnit(s) ==
  /\ stage = "end" /\ exit = 256
  /\ TakeHeld(s)
  /\ UNCHANGED <<outcome, raw, fd, given, on, left, stage, waiting, says, lost, rc, exit>>

LastFailed(s) ==
  /\ stage = "end" /\ exit = 256
  /\ held[s] # <<>> /\ (Broken(s) \/ WouldBlock(s))
  /\ exit' = 120
  /\ UNCHANGED <<outcome, connections, held, got, given, on, left, stage,
                 waiting, says, lost, rc>>

Exit ==
  /\ stage = "end" /\ exit = 256
  /\ \A s \in Streams : held[s] = <<>>
  /\ exit' = rc
  /\ UNCHANGED <<outcome, connections, held, got, given, on, left, stage,
                 waiting, says, lost, rc>>

WriteAll ==
  \/ FlushUnit \/ Drained \/ Blocked \/ RawUnit \/ BufferRest \/ BufferUnit
  \/ BufferBlocked \/ Written \/ WaitWritable \/ Flushed \/ Failed

Main ==
  \/ Command \/ ReceiptFailed \/ CallDone \/ LineFailed \/ Say
  \/ Lost \/ SettleUnit \/ SettleFailed \/ Settled
  \/ (\E s \in Streams : LastUnit(s)) \/ (\E s \in Streams : LastFailed(s)) \/ Exit

Readers == \E n \in {1, 2} : Read(n) \/ Leave(n)

Next == WriteAll \/ Main \/ Readers

Spec == Init /\ [][Next]_vars

\* The process runs on, and a reader that stays keeps reading.
FairSpec == Spec /\ WF_vars(WriteAll \/ Main) /\ \A n \in {1, 2} : WF_vars(Read(n))

-----------------------------------------------------------------------------
(* Properties.                                                              *)

\* Text that the caller of main() left in a stream is still there.
CallersText == \E s \in Streams : held[s] # <<>> /\ Head(held[s]) = <<"caller", 1>>

\* The variables keep their shape, and the interpreter's 120 is never the exit
\* code, except over text that the caller left and the run did not touch.
TypeOK ==
  /\ outcome \in Outcomes /\ raw \in BOOLEAN
  /\ fd \in [Streams -> {Null, Shut, 1, 2}]
  /\ \A s \in Streams : Len(held[s]) <= BufferSize
  /\ on \in Streams /\ waiting \in BOOLEAN /\ lost \in BOOLEAN
  /\ stage \in {"command", "drain", "write", "flush", "written", "failed", "say", "end"}
  /\ rc \in {0, 1, 2, 74} /\ exit \in {0, 1, 2, 74, 120, 256}
  /\ exit = 120 => CallersText

\* No unit is lost, doubled or moved on the way: what a stream's sink took, what
\* the stream holds and what the call still has are what it was given, in order.
InOrder ==
  \A s \in Streams :
    fd[s] \in {1, 2} =>
      got[s] \o held[s] \o (IF on = s THEN left ELSE <<>>) = given[s]

ReceiptWhole == Text("receipt") \in {SubSeq(got["out"], i, i + ReceiptSize - 1) :
                                       i \in 1..(Len(got["out"]) - ReceiptSize + 1)}

\* A verdict's exit code says that the whole receipt was handed to the system,
\* and it is the exit code whenever it was and stderr took what it was given.
ExitTellsTheReceipt ==
  exit # 256 /\ outcome \in Verdicts =>
    /\ exit \in {0, 1} => ReceiptWhole
    /\ ReceiptWhole /\ got["err"] = given["err"] => exit = Code

\* Whoever reads an exit code other than EX_IOERR or 120 was told everything:
\* each stream's sink took all that the run gave it.
OthersAreTold ==
  exit \in {0, 1, 2} => \A s \in Streams : fd[s] # Null /\ got[s] = given[s]

\* The command ends, however slow the readers and whoever goes away.
Ends == <>(exit # 256)
=============================================================================
