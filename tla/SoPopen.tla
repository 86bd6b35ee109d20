------------------------------ MODULE SoPopen -------------------------------
(***************************************************************************)
(* so_popen and so_pclose of libso_stdio.c: a program that talks to        *)
(* several children over pipes.  A pipe is known by its stream; what       *)
(* matters is which processes hold its ends.                               *)
(***************************************************************************)
EXTENDS Integers

CONSTANTS
  Streams,   \* bound: how often the program calls so_popen
  PipeSize,  \* what a pipe holds before write blocks
  Output     \* how much a child writes

ASSUME SoPopenAssumption ==
  Streams \in Nat /\ PipeSize \in Nat \ {0} /\ Output \in Nat

\* Streams are numbered in the order of so_popen; a stream also names its child.
Stream == 1..Streams
Program == 0

VARIABLES
  type,      \* "r" or "w" for each stream
  readers, writers, \* the processes that hold the ends of each pipe
  pipe,      \* what is in each pipe
  child,     \* each child: "none", "forked", "sh", "copy", "exited", "reaped"
  left,      \* what each child has still to write
  at,        \* the program: "idle", or inside a call on cur
  cur,       \* the stream of that call, or Program outside a call
  open,      \* streams that are open
  lifo       \* history: no stream was lost, and so_pclose was always called for the
             \* last that is open

ends == <<readers, writers>>
vars == <<type, ends, pipe, child, left, at, cur, open, lifo>>

Init ==
  /\ type \in [Stream -> {"r", "w"}]
  /\ readers = [s \in Stream |-> {}] /\ writers = [s \in Stream |-> {}]
  /\ pipe = [s \in Stream |-> 0] /\ left = [s \in Stream |-> Output]
  /\ child = [s \in Stream |-> "none"]
  /\ at = "idle" /\ cur = Program /\ open = {} /\ lifo = TRUE

Add(holders, p) == [s \in Stream |-> IF Program \in holders[s] THEN holders[s] \cup {p} ELSE holders[s]]
Drop(holders, p) == [s \in Stream |-> holders[s] \ {p}]

-----------------------------------------------------------------------------
\* pipe and fork: the child has a copy of every end the program holds.  When one
\* of them fails so_popen returns NULL and leaves nothing behind.
So_popen(s) ==
  /\ at = "idle" /\ child[s] = "none" /\ \A before \in 1..s-1 : child[before] # "none"
  /\ readers' = [Add(readers, s) EXCEPT ![s] = {Program, s}]
  /\ writers' = [Add(writers, s) EXCEPT ![s] = {Program, s}]
  /\ child' = [child EXCEPT ![s] = "forked"]
  /\ at' = "forked" /\ cur' = s
  /\ UNCHANGED <<type, pipe, left, open, lifo>>

\* The program closes the end the child uses.
ParentEnds ==
  /\ at = "forked"
  /\ readers' = [readers EXCEPT ![cur] = IF type[cur] = "w" THEN @ \ {Program} ELSE @]
  /\ writers' = [writers EXCEPT ![cur] = IF type[cur] = "r" THEN @ \ {Program} ELSE @]
  /\ open' = open \cup {cur}
  /\ at' = "idle" /\ cur' = Program
  /\ UNCHANGED <<type, pipe, child, left, lifo>>

\* malloc fails: so_popen returns NULL, and nobody knows the child and the ends.
LostStream ==
  /\ at = "forked"
  /\ at' = "idle" /\ cur' = Program
  /\ lifo' = FALSE
  /\ UNCHANGED <<type, ends, pipe, child, left, open>>

\* Faulty variant: the child keeps the end that the program uses.
ChildKeeps(s) ==
  /\ child[s] = "forked"
  /\ child' = [child EXCEPT ![s] = "sh"]
  /\ UNCHANGED <<type, ends, pipe, left, at, cur, open, lifo>>

\* The child closes the end the program uses and runs the command; when execl
\* fails it returns from so_popen too, as a copy of the program.
ChildEnds(s) ==
  /\ child[s] = "forked"
  /\ readers' = [readers EXCEPT ![s] = IF type[s] = "r" THEN @ \ {s} ELSE @]
  /\ writers' = [writers EXCEPT ![s] = IF type[s] = "w" THEN @ \ {s} ELSE @]
  /\ \E c \in {"sh", "copy"} : child' = [child EXCEPT ![s] = c]
  /\ UNCHANGED <<type, pipe, left, at, cur, open, lifo>>

-----------------------------------------------------------------------------
(***************************************************************************)
(* The commands: one that writes Output, one that reads to the end         *)
(***************************************************************************)
Exit(s) ==
  /\ child' = [child EXCEPT ![s] = "exited"]
  /\ readers' = Drop(readers, s) /\ writers' = Drop(writers, s)
  /\ UNCHANGED <<type, pipe, left, at, cur, open, lifo>>

CommandWrites(s) ==
  /\ child[s] = "sh" /\ type[s] = "r" /\ left[s] > 0
  /\ readers[s] # {} /\ pipe[s] < PipeSize
  /\ pipe' = [pipe EXCEPT ![s] = @ + 1]
  /\ left' = [left EXCEPT ![s] = @ - 1]
  /\ UNCHANGED <<type, ends, child, at, cur, open, lifo>>

CommandReads(s) ==
  /\ child[s] = "sh" /\ type[s] = "w" /\ pipe[s] > 0
  /\ pipe' = [pipe EXCEPT ![s] = @ - 1]
  /\ UNCHANGED <<type, ends, child, left, at, cur, open, lifo>>

\* All is written, or nobody can read it; the end of the input; a copy of the
\* program finds that so_popen returned NULL and ends.
CommandEnds(s) ==
  /\ \/ child[s] = "sh" /\ type[s] = "r" /\ (left[s] = 0 \/ readers[s] = {})
     \/ child[s] = "sh" /\ type[s] = "w" /\ pipe[s] = 0 /\ writers[s] = {}
     \/ child[s] = "copy"
  /\ Exit(s)

\* A command may end before it has read or written everything.
CommandQuits(s) == child[s] = "sh" /\ Exit(s)

-----------------------------------------------------------------------------
Enter(s, to) ==
  /\ at = "idle" /\ s \in open
  /\ at' = to /\ cur' = s
  /\ UNCHANGED <<type, ends, pipe, child, left, open>>

\* A call that reads or writes the pipe; so_pclose, after a write of what is buffered.
Read(s) == type[s] = "r" /\ Enter(s, "read") /\ UNCHANGED lifo
So_pclose(s) ==
  /\ Enter(s, "close") \/ (type[s] = "w" /\ Enter(s, "flush"))
  /\ lifo' = (lifo /\ \A other \in open : other <= s)

ReadReturns ==
  /\ at = "read"
  /\ IF pipe[cur] > 0 THEN pipe' = [pipe EXCEPT ![cur] = @ - 1]
     ELSE writers[cur] = {} /\ UNCHANGED pipe
  /\ at' = "idle" /\ cur' = Program
  /\ UNCHANGED <<type, ends, child, left, open, lifo>>

\* write fills the pipe, or fails when nobody can read it.
Flushed ==
  /\ at = "flush"
  /\ IF readers[cur] = {} THEN UNCHANGED pipe
     ELSE pipe[cur] < PipeSize /\ pipe' = [pipe EXCEPT ![cur] = @ + 1]
  /\ at' = "close"
  /\ UNCHANGED <<type, ends, child, left, cur, open, lifo>>

\* Faulty variant: so_pclose waits before it closes its end.
CloseFdLate ==
  /\ at = "close"
  /\ at' = "wait"
  /\ UNCHANGED <<type, ends, pipe, child, left, cur, open, lifo>>

CloseFd ==
  /\ at = "close"
  /\ readers' = [readers EXCEPT ![cur] = @ \ {Program}]
  /\ writers' = [writers EXCEPT ![cur] = @ \ {Program}]
  /\ at' = "wait"
  /\ UNCHANGED <<type, pipe, child, left, cur, open, lifo>>

\* waitpid, then free.
WaitPid ==
  /\ at = "wait" /\ child[cur] = "exited"
  /\ child' = [child EXCEPT ![cur] = "reaped"]
  /\ open' = open \ {cur}
  /\ at' = "idle" /\ cur' = Program
  /\ UNCHANGED <<type, ends, pipe, left, lifo>>

Library == ParentEnds \/ LostStream \/ ReadReturns \/ Flushed \/ CloseFd \/ WaitPid

Command(s) == ChildEnds(s) \/ CommandWrites(s) \/ CommandReads(s) \/ CommandEnds(s)

Next ==
  \/ Library
  \/ \E s \in Stream : So_popen(s) \/ Read(s) \/ So_pclose(s) \/ Command(s) \/ CommandQuits(s)

\* The program goes on inside its calls, and the commands read and write.
Spec ==
  Init /\ [][Next]_vars /\ WF_vars(Library) /\ \A s \in Stream : WF_vars(Command(s))

-----------------------------------------------------------------------------
(***************************************************************************)
(* Properties                                                              *)
(***************************************************************************)
\* A child started later has a copy of an end of the pipe.
Inherited(s) == \E later \in s+1..Streams : later \in readers[s] \cup writers[s]

\* A call on a stream - a read, or so_pclose with its flush and waitpid - returns
\* unless a child started later holds an end of the pipe (that child may itself
\* wait for the program, which waits in waitpid: nobody goes on).
CallsReturn == \A s \in Stream : cur = s ~> (cur # s \/ Inherited(s))

\* A program that closes the stream it opened last first always gets back from
\* so_pclose: by then nobody else holds the ends of that pipe.
LifoCloses == (lifo /\ at \in {"flush", "close", "wait"}) ~> at = "idle"
=============================================================================
