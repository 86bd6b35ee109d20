-------------------------- MODULE EpollPipeProofs --------------------------
(***************************************************************************)
(* The server reads every message before it closes the pipe, for any       *)
(* number of clients, unless the message was written while the eventfd     *)
(* stood in epoll's list.                                                  *)
(***************************************************************************)
EXTENDS EpollPipe, FiniteSetTheorems, TLAPS

Fd == Client \cup {EventFd}

\* The clients that have written their message, and those that have written their event.
Wrote == {c \in Client : pc[c] \notin {"none", "write"}}
Signalled == {c \in Client : pc[c] \notin {"none", "write", "signal"}}

\* A message is read once, and every message but those in the pipes was.
CountInv ==
  /\ inPipe \subseteq Wrote
  /\ server # "died" => recv_msgs = Cardinality(Wrote \ inPipe)

\* The eventfd holds the event of one client.
CounterInv == counter # 0 => \E c \in Signalled : counter = set_event(c)

\* The server adds the descriptors in their order, the eventfd last, before it waits,
\* and deals with the one that is reported before it waits again.
AddedInv ==
  /\ server # "got" => got = Nothing
  /\ server \in {"fork", "add"} => added <= CLIENT_COUNT /\ closed = {}
  /\ server \notin {"fork", "add"} => added = CLIENT_COUNT + 1
  /\ Contains(ready, EventFd) => added = CLIENT_COUNT + 1

\* epoll reports fd before the eventfd.
Ahead(list, fd) == \E i \in 1..Len(list) : list[i] = fd /\ \A j \in 1..i : list[j] # EventFd

\* A message that was not late and can still be read is reported before the eventfd.
AheadInv ==
  \A c \in inPipe \ (late \cup closed) : c < added /\ got # c => Ahead(ready, c)

\* When the eventfd is reported only late messages are in the pipes.
EventInv == got = EventFd => counter # 0 /\ Contains(ready, EventFd) /\ inPipe \subseteq late

ClosedInv == closed \subseteq Signalled /\ closed \cap inPipe \subseteq late

IInv == TypeOK /\ CountInv /\ CounterInv /\ AddedInv /\ AheadInv /\ EventInv /\ ClosedInv
-----------------------------------------------------------------------------
(* Numbers *)

\* A product of distinct factors differs by the other factor at least.
LEMMA Quotients ==
  ASSUME NEW a \in Int, NEW b \in Int, NEW n \in Nat, NEW j \in 0..n-1, NEW r \in 0..n-1, a * n + r = b * n + j
  PROVE  r = j
  <1>1. n > 0
    OBVIOUS
  <1>2. CASE a > b
    <2>1. a - b >= 1 /\ a - b \in Nat
      BY <1>2
    <2>2. (a - b) * n >= n
      BY <1>1, <2>1
    <2>3. (a - b) * n = j - r
      OBVIOUS
    <2> QED
      BY <2>2, <2>3
  <1>3. CASE b > a
    <2>1. b - a >= 1 /\ b - a \in Nat
      BY <1>3
    <2>2. (b - a) * n >= n
      BY <1>1, <2>1
    <2>3. (b - a) * n = r - j
      OBVIOUS
    <2> QED
      BY <2>2, <2>3
  <1>4. CASE a = b
    BY <1>4
  <1> QED
    BY <1>2, <1>3, <1>4

\* The index of a client is found in its event.
LEMMA IndexOfEvent ==
  ASSUME NEW c \in Client
  PROVE  /\ get_index(set_event(c)) = c /\ set_event(c) \in Nat /\ set_event(c) # 0
         /\ MAGIC_EXIT \in Nat /\ MAGIC_EXIT + MAGIC_EXIT = Wide /\ set_event(c) >= MAGIC_EXIT
  <1>1. PICK m, n : m = MAGIC_EXIT /\ n = MAGIC_MASK + 1
    OBVIOUS
  <1>2. m \in Nat /\ m + m = Wide /\ m > 0
    BY <1>1, EpollAssumption DEF MAGIC_EXIT
  <1>3. n \in Nat /\ n > 0 /\ c \in 0..n-1
    BY <1>1, EpollAssumption DEF Client
  <1>4. m % n = 0
    BY <1>1, EpollAssumption DEF MAGIC_EXIT
  <1>5. PICK a \in Int : a = m \div n
    BY <1>2, <1>3
  <1>6. m = a * n
    BY <1>2, <1>3, <1>4, <1>5
  <1>7. PICK x : x = m + c
    OBVIOUS
  <1>8. x \in Nat
    BY <1>2, <1>3, <1>7
  <1>9. PICK r, b : r = x % n /\ b = x \div n
    OBVIOUS
  <1>10. r \in 0..n-1 /\ b \in Int /\ b * n + r = x
    BY <1>3, <1>8, <1>9
  <1>11. r = c
    <2>1. b * n + r = a * n + c
      BY <1>6, <1>7, <1>10
    <2> QED
      BY <1>3, <1>5, <1>10, <2>1, Quotients
  <1>12. get_index(set_event(c)) = r /\ set_event(c) = x
    BY <1>1, <1>7, <1>9, Zenon DEF get_index, set_event
  <1> QED
    BY <1>1, <1>2, <1>3, <1>7, <1>8, <1>11, <1>12

\* There are finitely many clients, as many as CLIENT_COUNT.
LEMMA ClientsFinite ==
  ASSUME NEW S \in SUBSET Client
  PROVE  IsFiniteSet(S) /\ Cardinality(S) \in 0..CLIENT_COUNT
  <1>1. IsFiniteSet(Client) /\ Cardinality(Client) = CLIENT_COUNT
    BY EpollAssumption, FS_Interval DEF Client
  <1> QED
    BY <1>1, EpollAssumption, FS_Subset, FS_CardinalityType

-----------------------------------------------------------------------------
(* The list of epoll *)

\* What is at the head of a list stays there when others join it.
LEMMA HeadStays ==
  ASSUME NEW list \in Seq(Fd), NEW q \in Seq(Fd), Len(list) <= Len(q),
         \A i \in 1..Len(list) : q[i] = list[i], NEW fd
  PROVE  /\ Contains(list, fd) => Contains(q, fd)
         /\ Ahead(list, fd) => Ahead(q, fd)
  <1>1. Len(list) \in Nat /\ Len(q) \in Nat
    OBVIOUS
  <1>2. ASSUME Contains(list, fd) PROVE Contains(q, fd)
    BY <1>1, <1>2 DEF Contains
  <1>3. ASSUME Ahead(list, fd) PROVE Ahead(q, fd)
    BY <1>1, <1>3 DEF Ahead
  <1> QED
    BY <1>2, <1>3

\* One descriptor joins the list.
LEMMA QueuedIs ==
  ASSUME NEW list \in Seq(Fd), NEW fd \in Fd
  PROVE  /\ Queued(list, fd) \in Seq(Fd) /\ Contains(Queued(list, fd), fd)
         /\ \A e : Contains(Queued(list, fd), e) => Contains(list, e) \/ e = fd
         /\ \A e : Contains(list, e) => Contains(Queued(list, fd), e)
         /\ \A e : Ahead(list, e) => Ahead(Queued(list, fd), e)
         /\ ~Contains(list, EventFd) /\ fd # EventFd => Ahead(Queued(list, fd), fd)
  <1>1. PICK q : q = Queued(list, fd)
    OBVIOUS
  <1>2. /\ q \in Seq(Fd) /\ Len(list) \in Nat /\ Len(q) \in Nat /\ Len(list) <= Len(q)
        /\ \A i \in 1..Len(list) : q[i] = list[i]
        /\ \A i \in 1..Len(q) : i \in 1..Len(list) \/ q[i] = fd
    BY <1>1 DEF Queued
  <1>3. Contains(q, fd)
    BY <1>1 DEF Queued, Contains
  <1>4. ASSUME NEW e, Contains(q, e) PROVE Contains(list, e) \/ e = fd
    BY <1>2, <1>4 DEF Contains
  <1>5. ASSUME NEW e PROVE (Contains(list, e) => Contains(q, e)) /\ (Ahead(list, e) => Ahead(q, e))
    BY <1>2, HeadStays
  <1>6. ASSUME ~Contains(list, EventFd), fd # EventFd PROVE Ahead(q, fd)
    <2>1. \A j \in 1..Len(q) : q[j] # EventFd
      BY <1>4, <1>6 DEF Contains
    <2>2. PICK i \in 1..Len(q) : q[i] = fd
      BY <1>3 DEF Contains
    <2> QED
      BY <1>2, <2>1, <2>2 DEF Ahead
  <1> QED
    BY <1>1, <1>2, <1>3, <1>4, <1>5, <1>6, Zenon

\* Several pipes join the list.
LEMMA QueuedAllIs ==
  ASSUME NEW list \in Seq(Fd), NEW fds \in SUBSET Client, NEW q \in QueuedAll(list, fds)
  PROVE  /\ q \in Seq(Fd)
         /\ Contains(q, EventFd) => Contains(list, EventFd)
         /\ \A e : Contains(list, e) => Contains(q, e)
         /\ \A e : Ahead(list, e) => Ahead(q, e)
  <1>1. PICK S : S = {fd \in fds : ~Contains(list, fd)}
    OBVIOUS
  <1>2. PICK n : n = Cardinality(S)
    OBVIOUS
  <1>3. n \in Nat /\ S \in SUBSET Client
    BY <1>1, <1>2, ClientsFinite
  <1>4. PICK new : new \in [1..n -> S] /\ q = list \o new
    BY <1>1, <1>2, Zenon DEF QueuedAll, SetToSeqs
  <1>5. EventFd \notin Client /\ Client \subseteq Fd
    BY EpollAssumption DEF EventFd, Client, Fd
  <1>6. new \in Seq(Fd) /\ Len(new) = n /\ \A i \in 1..n : new[i] \in Client
    BY <1>3, <1>4, <1>5
  <1>7. /\ q \in Seq(Fd) /\ Len(list) \in Nat /\ Len(q) = Len(list) + n
        /\ \A i \in 1..Len(list) : q[i] = list[i]
        /\ \A i \in 1..Len(q) : i \in 1..Len(list) \/ (i - Len(list) \in 1..n /\ q[i] = new[i - Len(list)])
    <2>1. q = list \o new
      BY <1>4
    <2>2. Len(list) \in Nat /\ Len(list \o new) = Len(list) + Len(new) /\ list \o new \in Seq(Fd)
      BY <1>6
    <2>3. /\ \A i \in 1..Len(list) : (list \o new)[i] = list[i]
          /\ \A i \in Len(list)+1..Len(list)+Len(new) : (list \o new)[i] = new[i - Len(list)]
      BY <1>6
    <2> QED
      BY <1>3, <1>6, <2>1, <2>2, <2>3
  <1>8. ASSUME Contains(q, EventFd) PROVE Contains(list, EventFd)
    <2>1. PICK i \in 1..Len(q) : q[i] = EventFd
      BY <1>8 DEF Contains
    <2>2. i \in 1..Len(list)
      BY <1>5, <1>6, <1>7, <2>1
    <2> QED
      BY <1>7, <2>1, <2>2 DEF Contains
  <1>9. ASSUME NEW e PROVE (Contains(list, e) => Contains(q, e)) /\ (Ahead(list, e) => Ahead(q, e))
    <2>1. Len(list) <= Len(q)
      BY <1>3, <1>7
    <2> QED
      BY <1>7, <2>1, HeadStays
  <1> QED
    BY <1>7, <1>8, <1>9, Zenon

\* epoll_wait reports the k-th descriptor: those before it leave the list, and it goes to
\* the tail.
LEMMA ReportedIs ==
  ASSUME NEW list \in Seq(Fd), NEW k \in 1..Len(list), NEW q,
         q = Append(SubSeq(list, k + 1, Len(list)), list[k])
  PROVE  /\ q \in Seq(Fd) /\ Contains(q, list[k]) /\ list[k] \in Fd
         /\ \A e : Contains(q, e) => Contains(list, e)
         /\ \A e : Ahead(list, e) /\ list[k] # e /\ (\A j \in 1..k-1 : list[j] # e)
                     => Ahead(q, e) /\ list[k] # EventFd
  <1>1. PICK n : n = Len(list) /\ n \in Nat
    OBVIOUS
  <1>2. PICK t : t = SubSeq(list, k + 1, n)
    OBVIOUS
  <1>3. t \in Seq(Fd) /\ Len(t) = n - k /\ \A i \in 1..n-k : t[i] = list[k + i]
    BY <1>1, <1>2
  <1>4. PICK w : w = list[k]
    OBVIOUS
  <1>5. w \in Fd /\ q = Append(t, w)
    BY <1>1, <1>2, <1>4
  <1>6. /\ q \in Seq(Fd) /\ Len(q) = n - k + 1 /\ q[n - k + 1] = w
        /\ \A i \in 1..n-k : q[i] = list[k + i]
    BY <1>1, <1>3, <1>5
  <1>7. n - k + 1 \in 1..Len(q) /\ n - k \in Nat
    BY <1>1, <1>6
  <1>8. Contains(q, w)
    BY <1>6, <1>7 DEF Contains
  <1>9. ASSUME NEW e, Contains(q, e) PROVE Contains(list, e)
    <2>1. PICK i \in 1..Len(q) : q[i] = e
      BY <1>9 DEF Contains
    <2>2. CASE i \in 1..n-k
      <3>1. k + i \in 1..Len(list) /\ list[k + i] = e
        BY <1>1, <1>6, <2>1, <2>2
      <3> QED
        BY <3>1 DEF Contains
    <2>3. CASE i = n - k + 1
      <3>1. list[k] = e
        BY <1>4, <1>6, <2>1, <2>3
      <3> QED
        BY <3>1 DEF Contains
    <2> QED
      BY <1>1, <1>6, <2>1, <2>2, <2>3
  <1>10. ASSUME NEW e, Ahead(list, e), list[k] # e, \A j \in 1..k-1 : list[j] # e
         PROVE  Ahead(q, e) /\ w # EventFd
    <2>1. PICK i \in 1..n : list[i] = e /\ \A j \in 1..i : list[j] # EventFd
      BY <1>1, <1>10 DEF Ahead
    <2>2. i > k
      BY <1>1, <1>10, <2>1
    <2>3. w # EventFd
      BY <1>1, <1>4, <2>1, <2>2
    <2>4. i - k \in 1..n-k /\ k + (i - k) = i
      BY <1>1, <2>2
    <2>5. i - k \in 1..Len(q) /\ q[i - k] = e
      BY <1>6, <1>7, <2>1, <2>4
    <2>6. ASSUME NEW j \in 1..i-k PROVE q[j] # EventFd
      <3>1. j \in 1..n-k /\ k + j \in 1..i
        BY <1>1, <2>2, <2>4
      <3> QED
        BY <1>6, <2>1, <3>1
    <2> QED
      BY <2>3, <2>5, <2>6 DEF Ahead
  <1> QED
    BY <1>4, <1>5, <1>6, <1>8, <1>9, <1>10, Zenon
-----------------------------------------------------------------------------
(* The steps *)

\* Before main forks nothing was written.
LEMMA InitIInv ==
  ASSUME Init
  PROVE  IInv
  <1>1. Wrote \ inPipe = {} /\ Wrote = {}
    BY DEF Init, Wrote
  <1>2. ~Contains(ready, EventFd)
    BY DEF Init, Contains
  <1>3. TypeOK
    <2>1. Wide >= 2
      BY EpollAssumption
    <2> QED
      BY <2>1, EpollAssumption DEF Init, TypeOK
  <1>4. CountInv
    BY <1>1, FS_EmptySet DEF Init, CountInv
  <1>5. CounterInv /\ AddedInv
    BY <1>2, EpollAssumption DEF Init, CounterInv, AddedInv
  <1>6. AheadInv /\ ClosedInv
    BY DEF Init, AheadInv, ClosedInv
  <1>7. EventInv
    BY EpollAssumption DEF Init, EventInv, EventFd, Nothing
  <1> QED
    BY <1>3, <1>4, <1>5, <1>6, <1>7 DEF IInv

\* What the invariant says of the kinds of descriptors.
LEMMA Kinds ==
  /\ EventFd \notin Client /\ Nothing \notin Fd /\ EventFd # Nothing
  /\ Client \subseteq Fd /\ EventFd \in Fd
  /\ \A c \in Client : c \in Nat /\ c < CLIENT_COUNT
  BY EpollAssumption DEF EventFd, Nothing, Client, Fd

\* A client writes its message.
LEMMA WriteMessageKeeps ==
  ASSUME IInv, NEW c \in Client, WriteMessage(c)
  PROVE  IInv'
  <1>1. /\ pc[c] = "write" /\ pc' = [pc EXCEPT ![c] = "signal"] /\ inPipe' = inPipe \cup {c}
        /\ UNCHANGED <<counter, server, added, got, recv_msgs, closed>>
        /\ ready' = (IF c < added THEN Queued(ready, c) ELSE ready)
        /\ late' = (IF Contains(ready, EventFd) THEN late \cup {c} ELSE late)
    BY DEF WriteMessage
  <1>2. /\ pc \in [Client -> {"none", "write", "signal", "exit", "gone", "reaped"}]
        /\ ready \in Seq(Fd) /\ added \in Nat
        /\ inPipe \subseteq Client /\ closed \subseteq Client /\ late \subseteq Client
    BY DEF IInv, TypeOK, Fd
  <1>3. /\ ready' \in Seq(Fd)
        /\ \A e : Contains(ready', e) => Contains(ready, e) \/ e = c
        /\ \A e : Contains(ready, e) => Contains(ready', e)
        /\ \A e : Ahead(ready, e) => Ahead(ready', e)
        /\ ~Contains(ready, EventFd) /\ c < added => Ahead(ready', c)
    BY <1>1, <1>2, QueuedIs, Kinds
  <1>4. /\ Wrote' = Wrote \cup {c} /\ Signalled' = Signalled /\ c \notin Wrote /\ c \notin Signalled
        /\ c \notin inPipe
    BY <1>1, <1>2 DEF Wrote, Signalled, IInv, CountInv
  <1>5. TypeOK'
    BY <1>1, <1>2, <1>3 DEF IInv, TypeOK, Fd
  <1>6. CountInv'
    <2>1. Wrote' \ inPipe' = Wrote \ inPipe /\ inPipe' \subseteq Wrote'
      BY <1>1, <1>4 DEF IInv, CountInv
    <2> QED
      BY <1>1, <2>1, Zenon DEF IInv, CountInv
  <1>7. CounterInv'
    BY <1>1, <1>4 DEF IInv, CounterInv, set_event, MAGIC_EXIT
  <1>8. AddedInv'
    BY <1>1, <1>3, Kinds DEF IInv, AddedInv
  <1>9. AheadInv'
    BY <1>1, <1>3 DEF IInv, AheadInv
  <1>10. EventInv'
    BY <1>1, <1>3 DEF IInv, EventInv
  <1>11. ClosedInv'
    BY <1>1, <1>4 DEF IInv, ClosedInv
  <1> QED
    BY <1>5, <1>6, <1>7, <1>8, <1>9, <1>10, <1>11 DEF IInv

\* A client writes its event, when the eventfd is empty.
LEMMA WriteEventKeeps ==
  ASSUME IInv, NEW c \in Client, WriteEvent(c)
  PROVE  IInv'
  <1>1. /\ pc[c] = "signal" /\ pc' = [pc EXCEPT ![c] = "exit"]
        /\ counter + set_event(c) <= Wide - 2 /\ counter' = counter + set_event(c)
        /\ UNCHANGED <<inPipe, server, added, got, recv_msgs, closed, late>>
        /\ ready' = (IF added > CLIENT_COUNT THEN Queued(ready, EventFd) ELSE ready)
    BY DEF WriteEvent
  <1>2. /\ pc \in [Client -> {"none", "write", "signal", "exit", "gone", "reaped"}]
        /\ ready \in Seq(Fd) /\ added \in 0..CLIENT_COUNT+1 /\ counter \in Nat /\ Wide \in Nat
    BY EpollAssumption DEF IInv, TypeOK, Fd
  <1>3. /\ ready' \in Seq(Fd)
        /\ Contains(ready', EventFd) => Contains(ready, EventFd) \/ added = CLIENT_COUNT + 1
        /\ \A e : Contains(ready, e) => Contains(ready', e)
        /\ \A e : Ahead(ready, e) => Ahead(ready', e)
    <2>1. CASE added > CLIENT_COUNT
      <3>1. EventFd \in Fd
        BY Kinds
      <3>2. ready' = Queued(ready, EventFd)
        BY <1>1, <2>1, Zenon
      <3>3. /\ Queued(ready, EventFd) \in Seq(Fd)
            /\ \A e : Contains(ready, e) => Contains(Queued(ready, EventFd), e)
            /\ \A e : Ahead(ready, e) => Ahead(Queued(ready, EventFd), e)
        BY <1>2, <3>1, QueuedIs
      <3>4. added = CLIENT_COUNT + 1
        BY <1>2, <2>1, EpollAssumption
      <3> QED
        BY <3>2, <3>3, <3>4, Zenon
    <2>2. CASE ~(added > CLIENT_COUNT)
      BY <1>1, <1>2, <2>2
    <2> QED
      BY <2>1, <2>2
  <1>4. Wrote' = Wrote /\ Signalled' = Signalled \cup {c}
    BY <1>1, <1>2 DEF Wrote, Signalled
  <1>5. counter = 0 /\ counter' = set_event(c) /\ counter' # 0 /\ counter' \in 0..Wide-2
    <2>1. /\ set_event(c) \in Nat /\ set_event(c) # 0 /\ MAGIC_EXIT \in Nat
          /\ MAGIC_EXIT + MAGIC_EXIT = Wide /\ set_event(c) >= MAGIC_EXIT
      BY IndexOfEvent
    <2>2. ~(counter >= MAGIC_EXIT)
      BY <1>1, <1>2, <2>1
    <2>3. counter = 0
      <3>1. SUFFICES ASSUME counter # 0 PROVE FALSE
        OBVIOUS
      <3>2. PICK d \in Client : counter = set_event(d)
        BY <3>1 DEF IInv, CounterInv, Signalled
      <3>3. set_event(d) >= MAGIC_EXIT
        BY IndexOfEvent
      <3> QED
        BY <2>2, <3>2, <3>3, Zenon
    <2> QED
      BY <1>1, <1>2, <2>1, <2>3
  <1>6. TypeOK'
    BY <1>1, <1>2, <1>3, <1>5 DEF IInv, TypeOK, Fd
  <1>7. CountInv'
    BY <1>1, <1>4 DEF IInv, CountInv
  <1>8. CounterInv'
    <2>1. set_event(c)' = set_event(c) /\ c \in Signalled'
      BY <1>4 DEF set_event, MAGIC_EXIT
    <2> QED
      BY <1>5, <2>1 DEF CounterInv, set_event, MAGIC_EXIT
  <1>9. AddedInv'
    BY <1>1, <1>3 DEF IInv, AddedInv
  <1>10. AheadInv'
    BY <1>1, <1>3 DEF IInv, AheadInv
  <1>11. EventInv'
    BY <1>1, <1>3, <1>5 DEF IInv, EventInv
  <1>12. ClosedInv'
    BY <1>1, <1>4 DEF IInv, ClosedInv
  <1> QED
    BY <1>6, <1>7, <1>8, <1>9, <1>10, <1>11, <1>12 DEF IInv

\* A client ends.
LEMMA ClientExitsKeeps ==
  ASSUME IInv, NEW c \in Client, ClientExits(c)
  PROVE  IInv'
  <1>1. /\ pc[c] = "exit" /\ pc' = [pc EXCEPT ![c] = "gone"]
        /\ UNCHANGED <<inPipe, counter, server, added, got, recv_msgs, closed, late>>
        /\ \/ ready' \in QueuedAll(ready, {d \in Client \ closed : d < added})
           \/ ready' = ready
    BY DEF ClientExits
  <1>2. /\ pc \in [Client -> {"none", "write", "signal", "exit", "gone", "reaped"}]
        /\ ready \in Seq(Fd)
    BY DEF IInv, TypeOK, Fd
  <1>3. /\ ready' \in Seq(Fd)
        /\ Contains(ready', EventFd) => Contains(ready, EventFd)
        /\ \A e : Contains(ready, e) => Contains(ready', e)
        /\ \A e : Ahead(ready, e) => Ahead(ready', e)
    BY <1>1, <1>2, QueuedAllIs
  <1>4. Wrote' = Wrote /\ Signalled' = Signalled
    BY <1>1, <1>2 DEF Wrote, Signalled
  <1>5. TypeOK'
    BY <1>1, <1>2, <1>3 DEF IInv, TypeOK, Fd
  <1>6. CountInv' /\ CounterInv' /\ AddedInv'
    BY <1>1, <1>3, <1>4 DEF IInv, CountInv, CounterInv, AddedInv, set_event, MAGIC_EXIT
  <1>7. AheadInv' /\ EventInv' /\ ClosedInv'
    BY <1>1, <1>3, <1>4 DEF IInv, AheadInv, EventInv, ClosedInv
  <1> QED
    BY <1>5, <1>6, <1>7 DEF IInv

\* main forks a client or waits for one.
LEMMA MainKeeps ==
  ASSUME IInv, Fork \/ WaitPid
  PROVE  IInv'
  <1>1. /\ UNCHANGED <<inPipe, counter, ready, added, got, recv_msgs, closed, late>>
        /\ server \in {"fork", "reap"}
        /\ \/ server = "fork" /\ server' \in {"fork", "add"}
           \/ server = "reap" /\ server' \in {"reap", "exited"}
    BY DEF Fork, WaitPid
  <1>2. pc \in [Client -> {"none", "write", "signal", "exit", "gone", "reaped"}]
    BY DEF IInv, TypeOK
  <1>3. PICK c \in Client : \/ pc[c] = "none" /\ pc' = [pc EXCEPT ![c] = "write"]
                            \/ pc[c] = "gone" /\ pc' = [pc EXCEPT ![c] = "reaped"]
    BY DEF Fork, WaitPid
  <1>4. Wrote' = Wrote /\ Signalled' = Signalled
    BY <1>2, <1>3 DEF Wrote, Signalled
  <1>5. TypeOK'
    BY <1>1, <1>2, <1>3 DEF IInv, TypeOK
  <1>6. CountInv' /\ CounterInv' /\ AddedInv'
    BY <1>1, <1>4 DEF IInv, CountInv, CounterInv, AddedInv, set_event, MAGIC_EXIT
  <1>7. AheadInv' /\ EventInv' /\ ClosedInv'
    BY <1>1, <1>4 DEF IInv, AheadInv, EventInv, ClosedInv
  <1> QED
    BY <1>5, <1>6, <1>7 DEF IInv

\* The server adds a descriptor: that of a client which has written joins the list ahead
\* of the eventfd, which is added last.
LEMMA EpollAddKeeps ==
  ASSUME IInv, EpollAdd
  PROVE  IInv'
  <1>1. PICK fd : fd = (IF added < CLIENT_COUNT THEN added ELSE EventFd)
    OBVIOUS
  <1>2. /\ server = "add" /\ server' = (IF fd = EventFd THEN "wait" ELSE "add") /\ added' = added + 1
        /\ ready' = (IF IsReady(fd) THEN Queued(ready, fd) ELSE ready)
        /\ UNCHANGED <<pc, inPipe, counter, got, recv_msgs, closed, late>>
    BY <1>1, Zenon DEF EpollAdd
  <1>3. /\ ready \in Seq(Fd) /\ added \in Nat /\ added <= CLIENT_COUNT /\ got = Nothing /\ closed = {}
        /\ ~Contains(ready, EventFd) /\ CLIENT_COUNT \in Nat /\ inPipe \subseteq Client
    BY <1>2, EpollAssumption DEF IInv, TypeOK, Fd, AddedInv
  <1>4. fd \in Fd /\ (fd = EventFd <=> added = CLIENT_COUNT) /\ (fd # EventFd => fd = added /\ fd \in Client)
    BY <1>1, <1>3 DEF EventFd, Fd, Client
  <1>5. /\ ready' \in Seq(Fd)
        /\ Contains(ready', EventFd) => fd = EventFd
        /\ \A e : Ahead(ready, e) => Ahead(ready', e)
        /\ IsReady(fd) /\ fd # EventFd => Ahead(ready', fd)
    BY <1>2, <1>3, <1>4, QueuedIs
  <1>6. ASSUME fd \in inPipe PROVE IsReady(fd)
    BY <1>3, <1>6, Kinds DEF IsReady, PipeLives
  <1>7. Wrote' = Wrote /\ Signalled' = Signalled
    BY <1>2 DEF Wrote, Signalled
  <1>8. TypeOK'
    BY <1>2, <1>3, <1>5 DEF IInv, TypeOK, Fd
  <1>9. CountInv' /\ CounterInv'
    BY <1>2, <1>7 DEF IInv, CountInv, CounterInv, set_event, MAGIC_EXIT
  <1>10. AddedInv'
    BY <1>2, <1>3, <1>4, <1>5 DEF AddedInv
  <1>11. AheadInv'
    <2>1. SUFFICES ASSUME NEW c \in inPipe \ late, c < added + 1 PROVE Ahead(ready', c)
      BY <1>2, <1>3 DEF AheadInv
    <2>2. c \in Client /\ c \in Nat /\ c # Nothing
      BY <1>3, <2>1, Kinds
    <2>3. CASE c < added
      BY <1>3, <1>5, <2>1, <2>2, <2>3 DEF IInv, AheadInv
    <2>4. CASE c = added
      <3>1. fd = c
        BY <1>1, <2>2, <2>4, Kinds
      <3>2. fd # EventFd
        BY <2>2, <3>1, Kinds
      <3> QED
        BY <1>5, <1>6, <2>1, <3>1, <3>2
    <2> QED
      BY <1>3, <2>1, <2>2, <2>3, <2>4
  <1>12. EventInv' /\ ClosedInv'
    BY <1>2, <1>3, Kinds DEF EventInv, ClosedInv
  <1> QED
    BY <1>8, <1>9, <1>10, <1>11, <1>12 DEF IInv

\* epoll_wait reports the first descriptor that is ready: the eventfd only when no message
\* is ahead of it.
LEMMA EpollWaitKeeps ==
  ASSUME IInv, EpollWait
  PROVE  IInv'
  <1>1. PICK k \in 1..Len(ready) :
          /\ IsReady(ready[k]) /\ \A j \in 1..k-1 : ~IsReady(ready[j])
          /\ got' = ready[k]
          /\ ready' = Append(SubSeq(ready, k + 1, Len(ready)), ready[k])
    BY DEF EpollWait
  <1>2. /\ server = "wait" /\ server' = "got"
        /\ UNCHANGED <<pc, inPipe, counter, added, recv_msgs, closed, late>>
    BY DEF EpollWait
  <1>3. ready \in Seq(Fd) /\ inPipe \subseteq Client /\ added = CLIENT_COUNT + 1 /\ counter \in Nat
    BY <1>2 DEF IInv, TypeOK, Fd, AddedInv
  <1>4. /\ ready' \in Seq(Fd) /\ Contains(ready', got') /\ got' \in Fd
        /\ \A e : Ahead(ready, e) /\ got' # e /\ (\A j \in 1..k-1 : ready[j] # e)
                    => Ahead(ready', e) /\ got' # EventFd
    <2>1. PICK list, q : list = ready /\ q = ready'
      OBVIOUS
    <2>2. list \in Seq(Fd) /\ k \in 1..Len(list) /\ q = Append(SubSeq(list, k + 1, Len(list)), list[k])
      BY <1>1, <1>3, <2>1
    <2>3. /\ q \in Seq(Fd) /\ Contains(q, list[k]) /\ list[k] \in Fd
          /\ \A e : Ahead(list, e) /\ list[k] # e /\ (\A j \in 1..k-1 : list[j] # e)
                     => Ahead(q, e) /\ list[k] # EventFd
      BY <2>2, ReportedIs
    <2> QED
      BY <1>1, <2>1, <2>3, Zenon
  <1>5. ASSUME NEW c \in inPipe \ (late \cup closed), got' # c
        PROVE  Ahead(ready', c) /\ got' # EventFd
    <2>1. c \in Client /\ c < added /\ c # EventFd
      BY <1>3, EpollAssumption, Kinds
    <2>2. got # c
      BY <1>2, <2>1, Kinds DEF IInv, AddedInv
    <2>3. Ahead(ready, c)
      BY <2>1, <2>2 DEF IInv, AheadInv
    <2>4. IsReady(c)
      BY <2>1 DEF IsReady, PipeLives
    <2> QED
      BY <1>1, <1>4, <1>5, <2>3, <2>4, Zenon
  <1>6. Wrote' = Wrote /\ Signalled' = Signalled
    BY <1>2 DEF Wrote, Signalled
  <1>7. TypeOK'
    BY <1>2, <1>4 DEF IInv, TypeOK, Fd
  <1>8. CountInv' /\ CounterInv' /\ AddedInv' /\ ClosedInv'
    BY <1>2, <1>3, <1>6 DEF IInv, CountInv, CounterInv, AddedInv, ClosedInv, set_event, MAGIC_EXIT
  <1>9. AheadInv'
    BY <1>2, <1>5 DEF AheadInv
  <1>10. EventInv'
    <2>1. SUFFICES ASSUME got' = EventFd PROVE counter # 0 /\ Contains(ready', EventFd) /\ inPipe \subseteq late
      BY <1>2 DEF EventInv
    <2>2. counter # 0
      BY <1>1, <1>3, <2>1 DEF IsReady
    <2>3. inPipe \subseteq late
      <3>1. ASSUME NEW c \in inPipe, c \notin late PROVE FALSE
        <4>1. c \notin closed /\ got' # c
          BY <1>3, <2>1, <3>1, Kinds DEF IInv, ClosedInv
        <4> QED
          BY <1>5, <2>1, <3>1, <4>1
      <3> QED
        BY <3>1
    <2> QED
      BY <1>4, <2>1, <2>2, <2>3
  <1> QED
    BY <1>7, <1>8, <1>9, <1>10 DEF IInv

\* The server reads the event of one client and closes its pipe, when no message is there
\* but late ones.
LEMMA ReadEventKeeps ==
  ASSUME IInv, ReadEvent
  PROVE  IInv'
  <1>1. /\ server = "got" /\ got = EventFd /\ closed' = closed \cup {get_index(counter)}
        /\ counter' = 0 /\ server' = "wait" /\ got' = Nothing
        /\ UNCHANGED <<pc, inPipe, ready, added, recv_msgs, late>>
    BY DEF ReadEvent
  <1>2. PICK c \in Signalled : counter = set_event(c)
    BY <1>1 DEF IInv, EventInv, CounterInv
  <1>3. c \in Client
    BY DEF Signalled
  <1>4. closed' = closed \cup {c}
    BY <1>1, <1>2, <1>3, IndexOfEvent, Zenon
  <1>5. Wrote' = Wrote /\ Signalled' = Signalled
    BY <1>1 DEF Wrote, Signalled
  <1>6. inPipe \subseteq late
    BY <1>1 DEF IInv, EventInv
  <1>7. TypeOK'
    <2>1. Wide >= 2
      BY EpollAssumption
    <2>2. counter' \in 0..Wide-2
      BY <1>1, <2>1, EpollAssumption
    <2> QED
      BY <1>1, <1>3, <1>4, <2>2 DEF IInv, TypeOK
  <1>8. CountInv' /\ CounterInv' /\ AddedInv'
    BY <1>1, <1>5 DEF IInv, CountInv, CounterInv, AddedInv
  <1>9. AheadInv' /\ EventInv'
    BY <1>1, <1>6, Kinds DEF AheadInv, EventInv
  <1>10. ClosedInv'
    BY <1>1, <1>4, <1>5, <1>6 DEF IInv, ClosedInv
  <1> QED
    BY <1>7, <1>8, <1>9, <1>10 DEF IInv

\* The server reads a message that is in the pipe it was told of.
LEMMA ReadMessageKeeps ==
  ASSUME IInv, ReadMessage
  PROVE  IInv'
  <1>1. /\ server = "got" /\ got \in Client /\ got' = Nothing
        /\ UNCHANGED <<pc, counter, ready, added, closed, late>>
    BY DEF ReadMessage
  <1>2. /\ server' \in {"wait", "reap", "died"} /\ inPipe' \subseteq inPipe
        /\ \A c \in inPipe \ closed : c \in inPipe' => c # got
    BY DEF ReadMessage
  <1>3. /\ IsFiniteSet(Wrote \ inPipe) /\ Cardinality(Wrote \ inPipe) = recv_msgs /\ recv_msgs \in Nat
        /\ inPipe \subseteq Wrote /\ Wrote \subseteq Client /\ CLIENT_COUNT \in Nat
    <2>1. Wrote \ inPipe \in SUBSET Client
      BY DEF Wrote
    <2> QED
      BY <1>1, <2>1, ClientsFinite, EpollAssumption DEF IInv, CountInv, Wrote, TypeOK
  <1>4. Wrote' = Wrote /\ Signalled' = Signalled
    BY <1>1 DEF Wrote, Signalled
  <1>5. recv_msgs' \in 0..CLIENT_COUNT /\ (server' # "died" => recv_msgs' = Cardinality(Wrote \ inPipe'))
    <2>1. CASE got \in inPipe
      <3>1. recv_msgs' = recv_msgs + 1 /\ inPipe' = (IF got \in closed THEN inPipe ELSE inPipe \ {got})
            /\ (got \in closed => server' = "died")
        BY <2>1 DEF ReadMessage
      <3>2. PICK S : S = (Wrote \ inPipe) \cup {got}
        OBVIOUS
      <3>3. Cardinality(S) = Cardinality(Wrote \ inPipe) + 1
        BY <1>3, <2>1, <3>2, FS_AddElement
      <3>4. S \in SUBSET Client
        BY <1>1, <1>3, <3>2
      <3>5. Cardinality(S) \in 0..CLIENT_COUNT
        BY <3>4, ClientsFinite
      <3>6. recv_msgs' = Cardinality(S)
        BY <1>3, <3>1, <3>3
      <3>7. got \notin closed => Wrote \ inPipe' = S
        BY <1>3, <2>1, <3>1, <3>2
      <3> QED
        BY <3>1, <3>5, <3>6, <3>7, Zenon
    <2>2. CASE got \notin inPipe
      <3>1. recv_msgs' = recv_msgs /\ inPipe' = inPipe
        BY <2>2 DEF ReadMessage
      <3> QED
        BY <1>3, <3>1 DEF IInv, TypeOK
    <2> QED
      BY <2>1, <2>2
  <1>6. TypeOK'
    BY <1>1, <1>2, <1>5 DEF IInv, TypeOK
  <1>7. CountInv'
    BY <1>2, <1>3, <1>4, <1>5 DEF CountInv
  <1>8. CounterInv' /\ AddedInv'
    BY <1>1, <1>2, <1>4 DEF IInv, CounterInv, AddedInv, set_event, MAGIC_EXIT
  <1>9. AheadInv'
    BY <1>1, <1>2 DEF IInv, AheadInv
  <1>10. EventInv' /\ ClosedInv'
    BY <1>1, <1>2, <1>4, Kinds DEF IInv, EventInv, ClosedInv
  <1> QED
    BY <1>6, <1>7, <1>8, <1>9, <1>10 DEF IInv

-----------------------------------------------------------------------------
\* Every step of every process keeps the invariant.
THEOREM StepKeepsIInv == IInv /\ [Next]_vars => IInv'
  <1>1. ASSUME IInv, Next PROVE IInv'
    <2>1. CASE ServerStep
      BY <1>1, <2>1, MainKeeps, EpollAddKeeps, EpollWaitKeeps, ReadEventKeeps, ReadMessageKeeps
         DEF ServerStep
    <2>2. ASSUME NEW c \in Client, ClientStep(c) PROVE IInv'
      BY <1>1, <2>2, WriteMessageKeeps, WriteEventKeeps, ClientExitsKeeps DEF ClientStep
    <2> QED
      BY <1>1, <2>1, <2>2 DEF Next
  <1>2. ASSUME IInv, UNCHANGED vars PROVE IInv'
    BY <1>2 DEF IInv, vars, TypeOK, CountInv, Wrote, CounterInv, Signalled, set_event, MAGIC_EXIT,
                AddedInv, AheadInv, EventInv, ClosedInv
  <1> QED
    BY <1>1, <1>2

\* The server reads every message before it closes the pipe (lines 85-117), but for
\* those written while the eventfd stood in epoll's list.
THEOREM MessagesReadFirst == Spec => []ReadBeforeClosed
  <1>1. ASSUME IInv PROVE ReadBeforeClosed
    BY <1>1 DEF IInv, ClosedInv, ReadBeforeClosed
  <1> QED
    BY <1>1, InitIInv, StepKeepsIInv, PTL DEF Spec
=============================================================================
