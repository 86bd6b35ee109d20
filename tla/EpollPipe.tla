------------------------------ MODULE EpollPipe ------------------------------
(***************************************************************************)
(* labs/lab11/sol/lin/2-epollpipe/epoll.c: main forks CLIENT_COUNT clients *)
(* and becomes the server.  Each client writes one message to its pipe and *)
(* then its number to an eventfd; the server waits with epoll, reads the   *)
(* messages and closes the pipes the eventfd names.                        *)
(*                                                                         *)
(* External: the list epoll keeps of the descriptors that became ready.    *)
(* One joins at the tail when it is written; epoll_wait drops those at the *)
(* head that are no longer ready and puts the one it reports at the tail.  *)
(* A pipe the server closed stays in epoll as long as a client has it open.*)
(***************************************************************************)
EXTENDS Integers, FiniteSets, SequencesExt

CONSTANTS
  CLIENT_COUNT,
  MAGIC_MASK,    \* 0xFF (line 25)
  Wide           \* the values of a uint64_t

ASSUME EpollAssumption ==
  /\ CLIENT_COUNT \in Nat \ {0}
  /\ MAGIC_MASK \in Nat /\ CLIENT_COUNT <= MAGIC_MASK + 1
  /\ Wide \in Nat /\ Wide % 2 = 0 /\ MAGIC_MASK < Wide \div 2
  /\ (Wide \div 2) % (MAGIC_MASK + 1) = 0

Client == 0..CLIENT_COUNT-1
EventFd == CLIENT_COUNT
Nothing == -1

VARIABLES
  pc,         \* per client: "none" (not forked), then its next step or "gone", "reaped"
  inPipe,     \* the clients whose message is in their pipe
  counter,    \* of the eventfd
  ready,      \* epoll's list of ready descriptors
  server,     \* "fork", "add", "wait", "got", "reap", "exited", "died"
  added,      \* how many descriptors server() has added to epoll
  got,        \* the descriptor epoll_wait reported
  recv_msgs,
  closed,     \* the clients whose pipe the server closed
  late        \* history: clients that wrote while the eventfd was in the list

vars == <<pc, inPipe, counter, ready, server, added, got, recv_msgs, closed, late>>

-----------------------------------------------------------------------------
\* Faulty variant: an exit mark two of which fit the counter.
MAGIC_EXITQuarter == Wide \div 4

MAGIC_EXIT == Wide \div 2      \* 1ULL << 63

set_event(c) == MAGIC_EXIT + c
get_index(event) == event % (MAGIC_MASK + 1)

Running(c) == pc[c] \in {"write", "signal", "exit"}

\* Some process still has the read end of c's pipe open.
PipeLives(c) == c \notin closed \/ \E d \in Client \ {c} : Running(d)

IsReady(fd) ==
  IF fd = EventFd THEN counter > 0
  ELSE PipeLives(fd) /\ (fd \in inPipe \/ \A d \in Client : ~Running(d))

\* The list after the descriptor fd became ready.
Queued(list, fd) == IF Contains(list, fd) THEN list ELSE Append(list, fd)

\* The lists after the descriptors fds became ready at once.
QueuedAll(list, fds) == {list \o new : new \in SetToSeqs({fd \in fds : ~Contains(list, fd)})}

Init ==
  /\ pc = [c \in Client |-> "none"]
  /\ inPipe = {} /\ closed = {} /\ late = {}
  /\ counter = 0 /\ ready = <<>>
  /\ server = "fork" /\ added = 0 /\ got = Nothing /\ recv_msgs = 0

-----------------------------------------------------------------------------
(* client *)
WriteMessage(c) ==
  /\ pc[c] = "write"
  /\ pc' = [pc EXCEPT ![c] = "signal"]
  /\ inPipe' = inPipe \cup {c}
  /\ ready' = IF c < added THEN Queued(ready, c) ELSE ready
  /\ late' = IF Contains(ready, EventFd) THEN late \cup {c} ELSE late
  /\ UNCHANGED <<counter, server, added, got, recv_msgs, closed>>

\* A write to an eventfd waits while the sum would not fit below the largest uint64_t.
WriteEvent(c) ==
  /\ pc[c] = "signal" /\ counter + set_event(c) <= Wide - 2
  /\ pc' = [pc EXCEPT ![c] = "exit"]
  /\ counter' = counter + set_event(c)
  /\ ready' = IF added > CLIENT_COUNT THEN Queued(ready, EventFd) ELSE ready
  /\ UNCHANGED <<inPipe, server, added, got, recv_msgs, closed, late>>

\* The last client's end closes the last write ends, which makes every pipe the
\* server has open ready (EPOLLHUP).
ClientExits(c) ==
  /\ pc[c] = "exit"
  /\ pc' = [pc EXCEPT ![c] = "gone"]
  /\ IF server # "fork" /\ \A d \in Client \ {c} : ~Running(d)
     THEN ready' \in QueuedAll(ready, {d \in Client \ closed : d < added})
     ELSE ready' = ready
  /\ UNCHANGED <<inPipe, counter, server, added, got, recv_msgs, closed, late>>

ClientStep(c) == WriteMessage(c) \/ WriteEvent(c) \/ ClientExits(c)

-----------------------------------------------------------------------------
(* main and server *)
Fork ==
  /\ server = "fork"
  /\ \E c \in Client :
       /\ pc[c] = "none" /\ \A d \in 0..c-1 : pc[d] # "none"
       /\ pc' = [pc EXCEPT ![c] = "write"]
       /\ server' = IF c = CLIENT_COUNT - 1 THEN "add" ELSE server
  /\ UNCHANGED <<inPipe, counter, ready, added, got, recv_msgs, closed, late>>

\* A descriptor that is ready when it is added joins the list at once.
EpollAdd ==
  /\ server = "add"
  /\ LET fd == IF added < CLIENT_COUNT THEN added ELSE EventFd IN
     /\ ready' = IF IsReady(fd) THEN Queued(ready, fd) ELSE ready
     /\ server' = IF fd = EventFd THEN "wait" ELSE server
  /\ added' = added + 1
  /\ UNCHANGED <<pc, inPipe, counter, got, recv_msgs, closed, late>>

EpollWait ==
  /\ server = "wait"
  /\ \E k \in 1..Len(ready) :
       /\ IsReady(ready[k]) /\ \A j \in 1..k-1 : ~IsReady(ready[j])
       /\ got' = ready[k]
       /\ ready' = Append(SubSeq(ready, k + 1, Len(ready)), ready[k])
  /\ server' = "got"
  /\ UNCHANGED <<pc, inPipe, counter, added, recv_msgs, closed, late>>

ReadEvent ==
  /\ server = "got" /\ got = EventFd
  /\ closed' = closed \cup {get_index(counter)}
  /\ counter' = 0
  /\ server' = "wait" /\ got' = Nothing
  /\ UNCHANGED <<pc, inPipe, ready, added, recv_msgs, late>>

\* Faulty variant: the loop runs once too often (<= for <).
EnoughLate(n) == n = CLIENT_COUNT + 1

Enough(n) == n = CLIENT_COUNT

\* Without EPOLLIN (no writer is left) nothing is read.  A pipe that was closed
\* makes read fail: DIE ends the server.
ReadMessage ==
  /\ server = "got" /\ got \in Client
  /\ got' = Nothing
  /\ IF got \in inPipe
     THEN /\ recv_msgs' = recv_msgs + 1
          /\ inPipe' = IF got \in closed THEN inPipe ELSE inPipe \ {got}
          /\ server' = IF got \in closed THEN "died"
                       ELSE IF Enough(recv_msgs') THEN "reap" ELSE "wait"
     ELSE /\ server' = "wait"
          /\ UNCHANGED <<recv_msgs, inPipe>>
  /\ UNCHANGED <<pc, counter, ready, added, closed, late>>

WaitPid ==
  /\ server = "reap"
  /\ \E c \in Client :
       /\ pc[c] = "gone"
       /\ pc' = [pc EXCEPT ![c] = "reaped"]
       /\ server' = IF \A d \in Client \ {c} : pc[d] = "reaped" THEN "exited" ELSE server
  /\ UNCHANGED <<inPipe, counter, ready, added, got, recv_msgs, closed, late>>

ServerStep == Fork \/ EpollAdd \/ EpollWait \/ ReadEvent \/ ReadMessage \/ WaitPid

Next == ServerStep \/ \E c \in Client : ClientStep(c)

\* Processes are scheduled; a write to the eventfd that waits needs no more, as
\* each client makes one.
Spec ==
  /\ Init /\ [][Next]_vars
  /\ WF_vars(ServerStep)
  /\ \A c \in Client : WF_vars(ClientStep(c))

-----------------------------------------------------------------------------
(* Properties *)

\* The descriptors, the counter and the processes have their types, and the counter
\* never passes the largest value an eventfd holds.
TypeOK ==
  /\ pc \in [Client -> {"none", "write", "signal", "exit", "gone", "reaped"}]
  /\ {inPipe, closed, late} \subseteq SUBSET Client
  /\ counter \in 0..Wide-2
  /\ ready \in Seq(Client \cup {EventFd})
  /\ server \in {"fork", "add", "wait", "got", "reap", "exited", "died"}
  /\ added \in 0..CLIENT_COUNT+1 /\ recv_msgs \in 0..CLIENT_COUNT
  /\ got \in Client \cup {EventFd, Nothing}

\* The server closes a pipe before it has read its message (lines 96-97) only if
\* the message was written while the eventfd stood in epoll's list: everything
\* else is read first, since a client writes its message before its event and
\* the exit mark keeps the events of two clients from adding up.
ReadBeforeClosed == TypeOK /\ closed \cap inPipe \subseteq late

Lost == closed \cap inPipe # {}

\* The server has left its loop, no longer reads the eventfd, and more clients
\* have an event to leave than it holds.
EventsPileUp ==
  /\ server = "reap"
  /\ Cardinality({c \in Client : pc[c] = "signal"}) + (IF counter > 0 THEN 1 ELSE 0) > 1

\* The server reads every message and waits for every client (lines 85-117),
\* unless it closed a pipe too early or left the loop while clients wait for
\* their turn at the eventfd.
ServerEnds == <>(server = "exited" \/ Lost \/ EventsPileUp)
=============================================================================
