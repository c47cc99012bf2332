------------------------------ MODULE MCReceipt ------------------------------
(***************************************************************************)
(* Model checking module Receipt: pipes that block or do not, with a reader *)
(* or without, and files with room for everything, for a part or for        *)
(* nothing, behind separate descriptors or one (2>&1).                       *)
(***************************************************************************)
EXTENDS Receipt

AllOutcomes == Verdicts \union {"refused", "unwritten", "notrun", "usage"}

Sink(kind, nonblock, room, reader) ==
  [kind |-> kind, nonblock |-> nonblock, room |-> room, reader |-> reader]

Pipes == {Sink("pipe", nb, PipeSize, reader) : nb \in BOOLEAN, reader \in BOOLEAN}
Files == {Sink("file", FALSE, room, TRUE) :
            room \in {0, 1, LineSize, ReceiptSize - 1, ReceiptSize + 2 * LineSize + 2}}

World(a, b, fds, r, c) ==
  [sinks |-> <<a, b>>, fd |-> fds, raw |-> r, caller |-> c]
Fds(a, b) == [s \in Streams |-> IF s = "out" THEN a ELSE b]

Separate == {World(a, b, Fds(1, 2), r, {}) :
               a \in Pipes \union Files, b \in Pipes \union Files, r \in BOOLEAN}
Joined   == {World(a, a, Fds(1, 1), r, {}) : a \in Pipes \union Files, r \in BOOLEAN}
Closed   == {World(a, a, f, r, {}) : a \in Pipes \union Files, r \in BOOLEAN,
               f \in {Fds(Shut, 2), Fds(1, Shut), Fds(Shut, Shut)}}

\* Every way to connect the streams of a process of its own.
CommandWorlds == Separate \union Joined \union Closed

\* main() called by a program that left text in a stream; a raw stream keeps
\* no text back.
CallerWorlds ==
  {World(a, b, Fds(1, 2), FALSE, c) :
     a \in Pipes \union Files, b \in Pipes \union Files, c \in {{"out"}, {"err"}, Streams}}

AllWorlds == CommandWorlds \union CallerWorlds
=============================================================================
