--------------------------- MODULE LogCacheProofs ---------------------------
(***************************************************************************)
(* What the log cache guarantees for any number of clients and services    *)
(* and any size of the table of caches, from an inductive invariant.       *)
(***************************************************************************)
EXTENDS LogCache, TLAPS

Op == {"connect", "add", "flush", "getlogs", "stat", "disconnect", "unsubscribe"}
Command == [op : Op, data : {"ok", "long", "huge", "unprintable", "none"}]
Response == [op : Op, ok : BOOLEAN]
Calling == [op : Op \cup {"none"}, left : 0..2]
Name == {Short[s] : s \in Service}

Types ==
  /\ caches \in Seq(Name) /\ Len(caches) <= MaxCaches
  /\ server \in {"accept", "serve", "down"}
  /\ client \in Client \cup {NULL} /\ (server = "accept" <=> client = NULL)
  /\ cache \in Name \cup {NULL}
  /\ backlog \in Seq(Client)
  /\ request \in [Client -> Seq(Command)]
  /\ reply \in [Client -> Seq(Response)]
  /\ pc \in [Client -> {"start", "connected", "calling", "ready", "gone"}]
  /\ call \in [Client -> Calling]
  /\ service \in [Client -> Service \cup {NULL}]
  /\ calls \in 0..MaxCalls
  /\ refused \in SUBSET Client /\ closed \in SUBSET Client

\* Messages are on their way only for the call in progress, or, of a client that is
\* gone, to the server.
Wire ==
  \A c \in Client :
    /\ Len(request[c]) \in {0, 1} /\ Len(reply[c]) \in {0, 1}
    /\ Len(request[c]) = 0 \/ Len(reply[c]) = 0
    /\ Len(request[c]) = 1 => pc[c] \in {"calling", "gone"} /\ ~HungUp(c)
    /\ Len(reply[c]) = 1 => pc[c] = "calling" /\ reply[c][1].op = call[c].op
    /\ (Len(request[c]) = 1 /\ pc[c] = "calling") => request[c][1].op = call[c].op

\* Whom the server knows has named its service.
Named ==
  /\ \A c \in Client : pc[c] # "start" => service[c] \in Service
  /\ client # NULL => pc[client] # "start"
  /\ \A j \in 1..Len(backlog) : pc[backlog[j]] # "start"

Caches ==
  /\ \A i, j \in 1..Len(caches) : caches[i] = caches[j] => i = j
  /\ cache # NULL => client # NULL /\ cache = Short[service[client]] /\ Known(cache)

\* A client whose connect was answered.
Answered(c) ==
  \/ pc[c] = "ready"
  \/ pc[c] = "calling" /\ call[c].op # "connect"
  \/ Len(request[c]) = 1 /\ request[c][1].op # "connect"
  \/ Len(reply[c]) = 1

\* It is the one being served until it is gone or its connection closed, with a
\* cache or refused.
Linked ==
  /\ server # "down" =>
       \A c \in Client : Answered(c) /\ c \notin closed =>
         c = client /\ (cache # NULL \/ c \in refused)
  /\ server = "down" => client \in refused

IInv == Types /\ Wire /\ Named /\ Caches /\ Linked

-----------------------------------------------------------------------------
\* Appending to an empty sequence and taking the only element of one.
LEMMA OneMessage ==
  ASSUME NEW S, NEW s \in Seq(S), NEW e \in S
  PROVE  /\ Len(s) \in Nat
         /\ s = <<>> <=> Len(s) = 0
         /\ Append(s, e) \in Seq(S) /\ Len(Append(s, e)) = Len(s) + 1
         /\ Len(s) = 0 => Append(s, e)[1] = e
         /\ s # <<>> => /\ Head(s) \in S /\ Head(s) = s[1]
                        /\ Tail(s) \in Seq(S) /\ Len(Tail(s)) = Len(s) - 1
  OBVIOUS

\* Before the first connection nothing is stored, answered or on its way.
THEOREM InitIInv == Init => IInv
  <1>1. SUFFICES ASSUME Init PROVE IInv
    OBVIOUS
  <1>2. Types
    <2>1. /\ caches = <<>> /\ backlog = <<>>
          /\ request = [c \in Client |-> <<>>] /\ reply = [c \in Client |-> <<>>]
          /\ call = [c \in Client |-> NoCall]
      BY <1>1 DEF Init
    <2>2. NoCall \in Calling
      BY DEF NoCall, Calling
    <2>3. /\ caches \in Seq(Name) /\ Len(caches) = 0 /\ backlog \in Seq(Client)
          /\ request \in [Client -> Seq(Command)] /\ reply \in [Client -> Seq(Response)]
          /\ call \in [Client -> Calling]
      BY <2>1, <2>2
    <2>4. MaxCaches \in Nat /\ 0 \in 0..MaxCalls
      BY LogCacheAssumption
    <2> QED
      BY <1>1, <2>3, <2>4 DEF Init, Types
  <1>3. Wire /\ Named /\ Caches /\ Linked
    BY <1>1 DEF Init, Wire, Named, Caches, Linked, Answered
  <1> QED
    BY <1>2, <1>3 DEF IInv

-----------------------------------------------------------------------------
(***************************************************************************)
(* The clients                                                             *)
(***************************************************************************)
\* A process that connects to the server names its service.
LEMMA InitOsKeeps == ASSUME IInv, NEW c \in Client, InitOs(c) PROVE IInv'
  <1> USE DEF IInv, InitOs, serverVars, wire
  <1>1. Types'
    <2>1. backlog' \in Seq(Client)
      <3>1. backlog' = backlog \/ backlog' = Append(backlog, c)
        OBVIOUS
      <3>2. backlog \in Seq(Client)
        BY DEF Types
      <3>3. Append(backlog, c) \in Seq(Client)
        BY <3>2
      <3> QED
        BY <3>1, <3>2, <3>3
    <2>2. /\ pc' \in [Client -> {"start", "connected", "calling", "ready", "gone"}]
          /\ service' \in [Client -> Service \cup {NULL}]
      <3>1. pc' = [pc EXCEPT ![c] = "gone"] \/ pc' = [pc EXCEPT ![c] = "connected"]
        OBVIOUS
      <3>2. PICK s \in Service : service' = [service EXCEPT ![c] = s]
        OBVIOUS
      <3> QED
        BY <3>1, <3>2 DEF Types
    <2> QED
      BY <2>1, <2>2 DEF Types
  <1>2. Wire'
    BY DEF Types, Wire, HungUp
  <1>3. Named'
    <2>1. /\ Len(backlog) \in Nat /\ \A j \in 1..Len(backlog) : backlog[j] \in Client
          /\ \A j \in 1..Len(backlog) : pc'[backlog[j]] # "start"
          /\ pc'[c] # "start"
      <3>1. pc' = [pc EXCEPT ![c] = "gone"] \/ pc' = [pc EXCEPT ![c] = "connected"]
        OBVIOUS
      <3> QED
        BY <3>1 DEF Types, Named
    <2>2. /\ client # NULL => pc'[client] # "start"
          /\ \A d \in Client : pc'[d] # "start" => service'[d] \in Service
      BY DEF Types, Named
    <2>3. CASE server = "down"
      BY <2>1, <2>2, <2>3 DEF Named
    <2>4. CASE server # "down"
      <3>1. backlog' = Append(backlog, c)
        BY <2>4
      <3>2. /\ Len(backlog') = Len(backlog) + 1 /\ backlog'[Len(backlog) + 1] = c
            /\ \A j \in 1..Len(backlog) : backlog'[j] = backlog[j]
        BY <3>1 DEF Types
      <3> QED
        BY <2>1, <2>2, <3>2 DEF Named
    <2> QED
      BY <2>3, <2>4
  <1>4. Caches'
    BY DEF Types, Named, Caches, Known
  <1>5. Linked'
    BY DEF Types, Wire, Linked, Answered
  <1> QED
    BY <1>1, <1>2, <1>3, <1>4, <1>5

\* A command is sent by a client that names its service first and is answered.
LEMMA SendKeeps ==
  ASSUME IInv, NEW c \in Client, NEW op \in Op, NEW data \in {"ok", "long", "huge", "unprintable", "none"},
         Send(c, op, data), calls' \in 0..MaxCalls,
         \/ pc[c] = "connected" /\ op = "connect"
         \/ pc[c] = "ready" /\ op # "connect"
  PROVE  IInv'
  <1> DEFINE m == [op |-> op, data |-> data]
  <1>0. m \in Command
    BY DEF Command
  <1>a. /\ request[c] \in Seq(Command) /\ Len(request[c]) = 0 /\ Len(reply[c]) = 0
        /\ Append(request[c], m) \in Seq(Command)
        /\ Len(Append(request[c], m)) = 1 /\ Append(request[c], m)[1] = m
    <2>1. request[c] \in Seq(Command) /\ reply[c] \in Seq(Response)
      BY DEF IInv, Types
    <2>2. Len(request[c]) \in Nat /\ Len(reply[c]) \in Nat
      BY <2>1
    <2>3. Len(request[c]) = 0 /\ Len(reply[c]) = 0
      <3>1. pc[c] \notin {"calling", "gone"}
        OBVIOUS
      <3> QED
        BY <2>2, <3>1, SMTT(30) DEF IInv, Wire
    <2> HIDE DEF m
    <2> QED
      BY <1>0, <2>1, <2>3, OneMessage
  <1>b. /\ Awaited(op) \in 1..2 /\ m.op = op
        /\ pc' = [pc EXCEPT ![c] = "calling"]
        /\ call' = [call EXCEPT ![c] = [op |-> op, left |-> Awaited(op)]]
        /\ request' = IF HungUp(c) THEN request
                      ELSE [request EXCEPT ![c] = Append(request[c], m)]
        /\ UNCHANGED <<caches, server, client, cache, closed, refused, backlog, reply, service>>
    BY DEF Send, Awaited, serverVars, IInv, Types
  <1> HIDE DEF m
  <1> USE DEF IInv
  <1>1. Types'
    <2>1. [op |-> op, left |-> Awaited(op)] \in Calling
      BY <1>b DEF Calling
    <2>2. call' \in [Client -> Calling] /\ request' \in [Client -> Seq(Command)]
      BY <1>a, <1>b, <2>1 DEF Types
    <2> QED
      BY <1>b, <2>2 DEF Types
  <1>2. Wire'
    BY <1>a, <1>b DEF Types, Wire, HungUp
  <1>3. Named'
    BY <1>b DEF Types, Named
  <1>4. Caches'
    BY <1>b DEF Caches, Known
  <1>5. Linked'
    BY <1>a, <1>b DEF Types, Wire, Linked, Answered
  <1> QED
    BY <1>1, <1>2, <1>3, <1>4, <1>5

\* Every function of the library that sends a command, after the last was answered.
LEMMA CallsKeep == ASSUME IInv, NEW c \in Client, ClientInit(c) \/ Calls(c) PROVE IInv'
  <1>1. CASE ClientInit(c)
    <2>1. calls' \in 0..MaxCalls
      BY <1>1 DEF ClientInit, IInv, Types
    <2>2. CASE service[c] \in Unprintable
      BY <1>1, <2>1, <2>2, SendKeeps DEF ClientInit, Op
    <2>3. CASE service[c] \notin Unprintable
      BY <1>1, <2>1, <2>3, SendKeeps DEF ClientInit, Op
    <2> QED
      BY <2>2, <2>3
  <1>2. CASE Calls(c)
    <2>1. PICK op \in Op \ {"connect"}, data \in {"ok", "long", "huge", "unprintable", "none"} :
            Request(c, op, data)
      BY <1>2 DEF Calls, AddLog, Flush, GetLogs, GetStats, Disconnect, Unsubscribe, Op
    <2>2. calls' \in 0..MaxCalls
      BY <2>1, LogCacheAssumption DEF Request, IInv, Types
    <2> QED
      BY <2>1, <2>2, SendKeeps DEF Request
  <1> QED
    BY <1>1, <1>2

\* recv_data takes the only message on its way.
LEMMA ReceiveKeeps == ASSUME IInv, NEW c \in Client, Receive(c) PROVE IInv'
  <1>a. /\ reply[c] \in Seq(Response) /\ Len(reply[c]) = 1 /\ Len(request[c]) = 0
        /\ Tail(reply[c]) \in Seq(Response) /\ Len(Tail(reply[c])) = 0
    <2>1. /\ reply[c] \in Seq(Response) /\ reply[c] # <<>>
          /\ Len(reply[c]) \in {0, 1} /\ (Len(request[c]) = 0 \/ Len(reply[c]) = 0)
      BY DEF IInv, Types, Wire, Receive
    <2>2. /\ Len(reply[c]) \in Nat /\ (reply[c] = <<>> <=> Len(reply[c]) = 0)
          /\ Tail(reply[c]) \in Seq(Response) /\ Len(Tail(reply[c])) = Len(reply[c]) - 1
      BY <2>1
    <2>3. Len(reply[c]) = 1 /\ Len(request[c]) = 0
      BY <2>1, <2>2
    <2> QED
      BY <2>1, <2>2, <2>3
  <1>b. /\ pc[c] = "calling" /\ pc'[c] \in {"ready", "calling"}
        /\ pc' = [pc EXCEPT ![c] = pc'[c]]
        /\ call'[c] \in Calling
        /\ call' = [call EXCEPT ![c] = call'[c]]
        /\ reply' = [reply EXCEPT ![c] = Tail(reply[c])]
        /\ UNCHANGED <<caches, server, client, cache, closed, refused, backlog, request, service, calls>>
    <2>1. call[c] \in Calling /\ [call[c] EXCEPT !.left = 1] \in Calling /\ NoCall \in Calling
      <3>1. call[c] \in Calling
        BY DEF IInv, Types
      <3>2. NoCall \in Calling
        BY DEF NoCall, Calling
      <3>3. [call[c] EXCEPT !.left = 1] \in Calling
        BY <3>1 DEF Calling
      <3> QED
        BY <3>1, <3>2, <3>3
    <2>2. /\ call' = [call EXCEPT ![c] = IF call[c].left = 1 THEN NoCall ELSE [call[c] EXCEPT !.left = 1]]
          /\ call \in [Client -> Calling]
      BY DEF IInv, Types, Receive
    <2>3. call'[c] \in Calling /\ call' = [call EXCEPT ![c] = call'[c]]
      BY <2>1, <2>2
    <2> QED
      BY <2>3 DEF Receive, serverVars, IInv, Types
  <1> USE DEF IInv
  <1>1. Types'
    BY <1>a, <1>b DEF Types
  <1>2. Wire'
    <2>1. /\ Len(request'[c]) = 0 /\ Len(reply'[c]) = 0
          /\ \A d \in Client \ {c} : /\ reply'[d] = reply[d] /\ pc'[d] = pc[d]
                                   /\ call'[d] = call[d]
      BY <1>a, <1>b DEF Types
    <2> QED
      BY <1>b, <2>1 DEF Wire, HungUp
  <1>3. Named'
    BY <1>b DEF Types, Named
  <1>4. Caches'
    BY <1>b DEF Caches, Known
  <1>5. Linked'
    BY <1>a, <1>b DEF Types, Wire, Linked, Answered
  <1> QED
    BY <1>1, <1>2, <1>3, <1>4, <1>5

\* What ends a client: nothing it is waiting for is left.
LEMMA EndKeeps ==
  ASSUME IInv, NEW c \in Client, ReceiveEnd(c) \/ Close(c) \/ Killed(c)
  PROVE  IInv'
  <1>a. /\ pc[c] \in {"calling", "ready"} /\ pc'[c] \in {"ready", "gone"}
        /\ pc' = [pc EXCEPT ![c] = pc'[c]]
        /\ call'[c] \in Calling
        /\ call' = [call EXCEPT ![c] = call'[c]]
        /\ reply' = [reply EXCEPT ![c] = <<>>]
        /\ pc'[c] = "ready" => HungUp(c)
        /\ UNCHANGED <<caches, server, client, cache, closed, refused, backlog, request, service, calls>>
    <2>1. Len(reply[c]) \in Nat /\ (reply[c] = <<>> <=> Len(reply[c]) = 0)
      BY OneMessage DEF IInv, Types
    <2>2. CASE ReceiveEnd(c)
      BY <2>1, <2>2 DEF ReceiveEnd, NoCall, Calling, serverVars, wire, IInv, Types
    <2>3. CASE Close(c)
      <3>1. pc[c] = "ready" /\ Len(reply[c]) = 0
        BY <2>1, <2>3 DEF Close, IInv, Wire
      <3>2. reply = [reply EXCEPT ![c] = <<>>] /\ call = [call EXCEPT ![c] = call[c]]
        BY <2>1, <3>1 DEF IInv, Types
      <3> QED
        BY <2>3, <3>1, <3>2 DEF Close, serverVars, wire, IInv, Types
    <2>4. CASE Killed(c)
      BY <2>1, <2>4 DEF Killed, NoCall, Calling, serverVars, IInv, Types
    <2> QED
      BY <2>2, <2>3, <2>4
  <1>b. <<>> \in Seq(Response) /\ Len(<<>>) = 0
    OBVIOUS
  <1>c. Len(request[c]) \in Nat /\ Len(reply[c]) \in Nat
    BY DEF IInv, Types
  <1> USE DEF IInv
  <1>1. Types'
    BY <1>a, <1>b DEF Types
  <1>2. Wire'
    BY <1>a, <1>b, <1>c DEF Types, Wire, HungUp
  <1>3. Named'
    BY <1>a DEF Types, Named
  <1>4. Caches'
    BY <1>a DEF Caches, Known
  <1>5. Linked'
    BY <1>a, <1>b, <1>c DEF Types, Wire, Linked, Answered, HungUp
  <1> QED
    BY <1>1, <1>2, <1>3, <1>4, <1>5

-----------------------------------------------------------------------------
(***************************************************************************)
(* The server                                                              *)
(***************************************************************************)
\* A connection is accepted when no client with an answered connect is left.
LEMMA AcceptKeeps == ASSUME IInv, Accept PROVE IInv'
  <1>a. /\ Head(backlog) \in Client /\ Tail(backlog) \in Seq(Client)
        /\ Head(backlog) = backlog[1] /\ Len(backlog) >= 1
        /\ Len(Tail(backlog)) = Len(backlog) - 1 /\ Len(backlog) \in Nat
        /\ \A j \in 1..Len(Tail(backlog)) : Tail(backlog)[j] = backlog[j + 1]
    BY DEF IInv, Types, Accept
  <1>b. client = NULL /\ server = "accept"
    BY DEF IInv, Types, Accept
  <1> USE DEF IInv, Accept, wire, clientVars
  <1>1. Types'
    BY <1>a, LogCacheAssumption DEF Types
  <1>2. Wire'
    BY <1>b DEF Wire, HungUp
  <1>3. Named'
    BY <1>a DEF Named
  <1>4. Caches'
    BY DEF Caches, Known
  <1>5. Linked'
    <2>1. \A c \in Client : ~Answered(c) \/ c \in closed
      BY <1>b, LogCacheAssumption DEF Linked
    <2> QED
      BY <2>1 DEF Linked, Answered
  <1> QED
    BY <1>1, <1>2, <1>3, <1>4, <1>5

\* A message of the client being served.
LEMMA HeadWaits ==
  ASSUME IInv, Waiting
  PROVE  /\ client \in Client /\ server = "serve"
         /\ Head(request[client]) \in Command
         /\ Head(request[client]) = request[client][1]
         /\ Len(request[client]) = 1 /\ Len(reply[client]) = 0
         /\ Tail(request[client]) \in Seq(Command) /\ Len(Tail(request[client])) = 0
         /\ pc[client] \in {"calling", "gone"} /\ client \notin closed
  <1>1. client \in Client /\ server = "serve" /\ request[client] # <<>>
    BY DEF IInv, Types, Waiting
  <1>2. request[client] \in Seq(Command)
    BY <1>1 DEF IInv, Types
  <1>3. /\ Len(request[client]) # 0
        /\ Head(request[client]) \in Command /\ Head(request[client]) = request[client][1]
        /\ Tail(request[client]) \in Seq(Command)
        /\ Len(Tail(request[client])) = Len(request[client]) - 1
    BY <1>1, <1>2
  <1>4. /\ Len(request[client]) = 1 /\ Len(reply[client]) = 0
        /\ pc[client] \in {"calling", "gone"} /\ client \notin closed
    BY <1>1, <1>3 DEF IInv, Wire, HungUp
  <1> QED
    BY <1>1, <1>3, <1>4

\* The same for one recv_data has room for.
LEMMA HeadReceived ==
  ASSUME IInv, Received
  PROVE  /\ client \in Client /\ server = "serve"
         /\ Head(request[client]) \in Command
         /\ Head(request[client]) = request[client][1]
         /\ Len(request[client]) = 1 /\ Len(reply[client]) = 0
         /\ Tail(request[client]) \in Seq(Command) /\ Len(Tail(request[client])) = 0
         /\ pc[client] \in {"calling", "gone"} /\ client \notin closed
  BY HeadWaits DEF Received

\* What an answer does to the messages: the request is taken, and its answer waits
\* for a client that is still there.
LEMMA AnswerSent ==
  ASSUME IInv, Received, NEW ok \in BOOLEAN, Answer(ok)
  PROVE  /\ request' \in [Client -> Seq(Command)] /\ reply' \in [Client -> Seq(Response)]
         /\ refused' \in SUBSET Client /\ refused \subseteq refused'
         /\ \A d \in Client \ {client} : request'[d] = request[d] /\ reply'[d] = reply[d]
         /\ Len(request'[client]) = 0
         /\ pc[client] = "gone" => Len(reply'[client]) = 0
         /\ pc[client] # "gone" => /\ Len(reply'[client]) = 1
                                   /\ reply'[client][1].op = request[client][1].op
         /\ (request[client][1].op = "connect" /\ ~ok) => client \in refused'
  <1> DEFINE r == Head(request[client])
             m == [op |-> r.op, ok |-> ok]
  <1>1. m \in Response /\ m.op = request[client][1].op
    BY HeadReceived DEF Command, Response
  <1>2. /\ request' = [request EXCEPT ![client] = Tail(request[client])]
        /\ reply' = IF pc[client] = "gone" THEN reply
                    ELSE [reply EXCEPT ![client] = Append(reply[client], m)]
        /\ refused' = IF r.op = "connect" /\ ~ok THEN refused \cup {client} ELSE refused
    BY DEF Answer, IInv, Types
  <1> HIDE DEF m
  <1>3. reply[client] \in Seq(Response)
    BY HeadReceived DEF IInv, Types
  <1>4. /\ Append(reply[client], m) \in Seq(Response)
        /\ Len(Append(reply[client], m)) = 1
        /\ Append(reply[client], m)[1] = m
    BY <1>1, <1>3, HeadReceived, OneMessage
  <1>5. /\ request' \in [Client -> Seq(Command)] /\ Len(request'[client]) = 0
        /\ \A d \in Client \ {client} : request'[d] = request[d]
    BY <1>2, HeadReceived DEF IInv, Types
  <1>6. /\ reply' \in [Client -> Seq(Response)]
        /\ \A d \in Client \ {client} : reply'[d] = reply[d]
        /\ pc[client] = "gone" => Len(reply'[client]) = 0
        /\ pc[client] # "gone" => /\ Len(reply'[client]) = 1
                                  /\ reply'[client][1].op = request[client][1].op
    BY <1>1, <1>2, <1>3, <1>4, HeadReceived DEF IInv, Types
  <1>7. /\ refused' \in SUBSET Client /\ refused \subseteq refused'
        /\ (request[client][1].op = "connect" /\ ~ok) => client \in refused'
    BY <1>2, HeadReceived DEF IInv, Types
  <1> QED
    BY <1>5, <1>6, <1>7

\* An answered command leaves a client that was refused, has its cache, or had
\* been answered before.
LEMMA AnswerKeeps ==
  ASSUME IInv, Received, NEW ok \in BOOLEAN, Answer(ok),
         caches' \in Seq(Name), Len(caches') <= MaxCaches, Caches',
         cache' \in Name \cup {NULL}, cache # NULL => cache' # NULL,
         request[client][1].op = "connect" => ~ok \/ cache' # NULL,
         UNCHANGED <<server, client, closed, backlog, clientVars>>
  PROVE  IInv'
  <1> USE DEF IInv, clientVars
  <1>1. Types'
    BY AnswerSent DEF Types
  <1>2. Wire'
    <2>1. ASSUME NEW d \in Client \ {client} PROVE request'[d] = request[d] /\ reply'[d] = reply[d]
      BY AnswerSent
    <2>2. pc[client] # "gone" => request[client][1].op = call[client].op
      BY HeadReceived DEF Wire
    <2>3. /\ Len(request'[client]) = 0 /\ Len(reply'[client]) \in {0, 1}
          /\ Len(reply'[client]) = 1 => /\ pc[client] = "calling"
                                       /\ reply'[client][1].op = call[client].op
      BY <2>2, HeadReceived, AnswerSent
    <2> QED
      BY <2>1, <2>3 DEF Wire, HungUp
  <1>3. Named'
    BY DEF Named
  <1>4. Linked'
    <2>1. server' # "down"
      BY HeadReceived
    <2>2. ASSUME NEW d \in Client \ {client}, Answered(d)' PROVE d \in closed'
      <3>1. Answered(d)
        BY <2>2, AnswerSent DEF Answered
      <3> QED
        BY <3>1, HeadReceived DEF Linked
    <2>3. cache' # NULL \/ client \in refused'
      <3>1. CASE request[client][1].op = "connect"
        BY <3>1, AnswerSent
      <3>2. CASE request[client][1].op # "connect"
        <4>1. Answered(client) /\ client \notin closed
          BY <3>2, HeadReceived DEF Answered
        <4> QED
          BY <4>1, HeadReceived, AnswerSent DEF Linked
      <3> QED
        BY <3>1, <3>2
    <2> QED
      BY <2>1, <2>2, <2>3 DEF Linked
  <1> QED
    BY <1>1, <1>2, <1>3, <1>4

\* A connection is closed on a client that waits: nothing of it is on its way.
LEMMA DroppedKeeps == ASSUME IInv, Dropped PROVE IInv'
  <1> USE DEF IInv, Dropped, clientVars
  <1>a. /\ client \in Client /\ Len(reply[client]) = 0 /\ server = "serve"
        /\ request' = [request EXCEPT ![client] = <<>>]
        /\ <<>> \in Seq(Command) /\ Len(<<>>) = 0
    BY HeadWaits
  <1>1. Types'
    BY <1>a, LogCacheAssumption DEF Types
  <1>b. /\ request'[client] = <<>>
        /\ \A c \in Client \ {client} : request'[c] = request[c]
    BY <1>a DEF Types
  <1>2. Wire'
    <2>1. ASSUME NEW c \in Client \ {client} PROVE HungUp(c)' <=> HungUp(c)
      BY <1>a DEF HungUp
    <2> QED
      BY <1>a, <1>b, <2>1 DEF Wire
  <1>3. Named'
    BY DEF Named
  <1>4. Caches'
    BY DEF Caches, Known
  <1>5. Linked'
    <2>1. ASSUME NEW c \in Client, Answered(c)' PROVE c \in closed'
      <3>1. CASE c = client
        BY <3>1
      <3>2. CASE c # client
        <4>1. Answered(c)
          BY <1>b, <2>1, <3>2 DEF Answered
        <4> QED
          BY <1>a, <3>2, <4>1 DEF Linked
      <3> QED
        BY <3>1, <3>2
    <2> QED
      BY <2>1 DEF Linked
  <1> QED
    BY <1>1, <1>2, <1>3, <1>4, <1>5

\* get_command when it has received a command: each of its ends, the null
\* dereference included.
LEMMA CommandKeeps == ASSUME IInv, GetCommand, ~Dropped PROVE IInv'
  <1> USE DEF IInv
  <1>0. Received
    BY DEF GetCommand, TooLong, NullCache, InvalidArg, Authorized, Connect, OtherOp
  <1>1. CASE NullCache
    <2>1. /\ server' = "down" /\ request' = [c \in Client |-> <<>>] /\ cache = NULL
          /\ UNCHANGED <<caches, client, cache, closed, refused, backlog, reply, clientVars>>
          /\ request[client][1].op # "connect"
      BY <1>0, <1>1, HeadReceived DEF NullCache, RequiresAuth
    <2>2. Types'
      BY <2>1, <1>0, HeadReceived, LogCacheAssumption DEF Types, clientVars
    <2>3. Wire' /\ Named' /\ Caches'
      BY <2>1 DEF Types, Wire, Named, Caches, Known, HungUp, clientVars
    <2>4. Linked'
      <3>1. /\ Answered(client) /\ client \in Client /\ client \notin closed
            /\ server # "down"
        BY <2>1, <1>0, HeadReceived DEF Answered
      <3>2. client \in refused
        BY <2>1, <3>1 DEF Linked
      <3> QED
        BY <2>1, <3>2 DEF Linked
    <2> QED
      BY <2>2, <2>3, <2>4
  <1>2. CASE TooLong \/ InvalidArg \/ OtherOp
    <2>1. PICK ok \in BOOLEAN :
            Answer(ok) /\ (request[client][1].op = "connect" => ~ok)
      BY <1>0, <1>2, HeadReceived DEF TooLong, InvalidArg, OtherOp
    <2>2. UNCHANGED <<caches, server, client, cache, closed, backlog, clientVars>>
      BY <1>2 DEF TooLong, InvalidArg, OtherOp
    <2>3. Caches'
      BY <2>2 DEF Caches, Known, clientVars
    <2> QED
      BY <1>0, <2>1, <2>2, <2>3, AnswerKeeps DEF Types
  <1>3. CASE Connect
    <2> DEFINE name == Short[service[client]]
    <2>1. UNCHANGED <<server, client, closed, backlog, clientVars>> /\ client \in Client
      BY <1>0, <1>3, HeadReceived DEF Connect
    <2>2. service[client] \in Service /\ name \in Name /\ name # NULL
      BY <2>1, <1>0, HeadReceived, LogCacheAssumption DEF Named, Name
    <2>3. CASE Found(name) /\ Answer(TRUE)
      BY <1>0, <2>1, <2>2, <2>3, AnswerKeeps, LogCacheAssumption
         DEF Found, Types, Caches, Known, clientVars
    <2>4. CASE Added(name) /\ Answer(TRUE)
      <3>1. /\ caches' = Append(caches, name) /\ cache' = name /\ ~Known(name)
            /\ Len(caches) < MaxCaches /\ Len(caches) \in Nat /\ caches \in Seq(Name)
        BY <2>4 DEF Added, Types
      <3>2. /\ caches' \in Seq(Name) /\ Len(caches') = Len(caches) + 1
            /\ caches'[Len(caches) + 1] = name
            /\ \A i \in 1..Len(caches) : caches'[i] = caches[i] /\ caches[i] # name
        BY <2>2, <3>1 DEF Known
      <3>3. Len(caches') <= MaxCaches
        BY <3>1, <3>2, LogCacheAssumption
      <3>4. Caches'
        <4>1. ASSUME NEW i \in 1..Len(caches'), NEW j \in 1..Len(caches'), caches'[i] = caches'[j]
              PROVE  i = j
          <5>1. \A k \in 1..Len(caches') : k \in 1..Len(caches) \/ k = Len(caches) + 1
            BY <3>1, <3>2
          <5> QED
            BY <3>2, <4>1, <5>1 DEF Caches
        <4>2. Len(caches) + 1 \in 1..Len(caches')
          BY <3>1, <3>2
        <4>3. (\E i \in 1..Len(caches') : caches'[i] = name) /\ client # NULL
          BY <2>1, <3>2, <4>2, LogCacheAssumption
        <4> QED
          BY <2>1, <3>1, <4>1, <4>3 DEF Caches, Known, clientVars
      <3> QED
        BY <1>0, <2>1, <2>2, <2>4, <3>1, <3>2, <3>3, <3>4, AnswerKeeps
    <2>5. CASE TableFull(name) /\ Answer(FALSE)
      BY <1>0, <2>1, <2>2, <2>5, AnswerKeeps DEF TableFull, Types, Caches, Known, clientVars
    <2> QED
      BY <1>3, <2>3, <2>4, <2>5 DEF Connect
  <1> QED
    BY <1>1, <1>2, <1>3 DEF GetCommand

\* client_function returns only when its client is gone.
LEMMA LeftKeeps == ASSUME IInv, ClientLeft PROVE IInv'
  <1> USE DEF IInv, ClientLeft, wire, clientVars
  <1>a. client \in Client /\ Len(request[client]) = 0 /\ Len(reply[client]) = 0
    BY OneMessage DEF Types, Wire
  <1>1. Types'
    BY LogCacheAssumption DEF Types
  <1>2. Wire'
    BY DEF Wire, HungUp
  <1>3. Named'
    BY DEF Named
  <1>4. Caches'
    BY DEF Caches, Known
  <1>5. Linked'
    <2>1. \A c \in Client : ~Answered(c) \/ c \in closed
      BY <1>a DEF Linked, Answered
    <2> QED
      BY <2>1 DEF Linked, Answered
  <1> QED
    BY <1>1, <1>2, <1>3, <1>4, <1>5

-----------------------------------------------------------------------------
\* Every step of the server and of a client keeps the invariant.
THEOREM StepKeepsIInv == IInv /\ [Next]_vars => IInv'
  <1>1. ASSUME IInv, Next PROVE IInv'
    <2>1. CASE Server
      BY <1>1, <2>1, AcceptKeeps, DroppedKeeps, CommandKeeps, LeftKeeps DEF Server
    <2>2. ASSUME NEW c \in Client, Library(c) \/ Calls(c) \/ Killed(c) PROVE IInv'
      BY <1>1, <2>2, InitOsKeeps, CallsKeep, ReceiveKeeps, EndKeeps DEF Library
    <2> QED
      BY <1>1, <2>1, <2>2 DEF Next
  <1>2. ASSUME IInv, UNCHANGED vars PROVE IInv'
    BY <1>2 DEF IInv, Types, Wire, Named, Caches, Linked, Answered, Known, HungUp,
                vars, serverVars, wire, clientVars
  <1> QED
    BY <1>1, <1>2

\* The table of caches never exceeds its size, the cache in use belongs to a service,
\* and every variable keeps its type.
THEOREM TypeCorrect == Spec => [](TypeOK /\ Types)
  <1>1. ASSUME IInv PROVE TypeOK /\ Types
    <2>1. Types
      BY <1>1 DEF IInv
    <2>2. \A c \in Client : call[c].left \in 0..2
      BY <2>1 DEF Types, Calling
    <2> QED
      BY <2>1, <2>2 DEF Types, TypeOK, Name
  <1> QED
    BY <1>1, InitIInv, StepKeepsIInv, PTL DEF Spec

\* The response a library function takes is the one to its own request, whatever
\* other clients do and whether or not clients are killed in a call.
THEOREM AnswersBelong == Spec => []AnswersMatch
  <1>1. ASSUME IInv PROVE AnswersMatch
    <2>1. SUFFICES ASSUME NEW c \in Client
                   PROVE  /\ Len(request[c]) + Len(reply[c]) <= 1
                          /\ reply[c] # <<>> => pc[c] = "calling" /\ reply[c][1].op = call[c].op
      BY DEF AnswersMatch
    <2>2. reply[c] \in Seq(Response)
      BY <1>1 DEF IInv, Types
    <2>3. reply[c] # <<>> => Len(reply[c]) = 1
      BY <1>1, <2>2 DEF IInv, Wire
    <2>4. Len(request[c]) + Len(reply[c]) <= 1
      <3>1. /\ Len(request[c]) \in {0, 1} /\ Len(reply[c]) \in {0, 1}
            /\ Len(request[c]) = 0 \/ Len(reply[c]) = 0
        BY <1>1 DEF IInv, Wire
      <3>2. \A a, b \in {0, 1} : (a = 0 \/ b = 0) => a + b <= 1
        OBVIOUS
      <3> QED
        BY <3>1, <3>2, Zenon
    <2> QED
      BY <1>1, <2>3, <2>4 DEF IInv, Wire
  <1> QED
    BY <1>1, InitIInv, StepKeepsIInv, PTL DEF Spec

\* logmemcache_add_client never makes a second cache for a service, and the client
\* being served uses the cache of the service it named.
THEOREM CachesUnique == Spec => []OneCachePerService
  <1>1. IInv => OneCachePerService
    BY DEF IInv, Caches, OneCachePerService
  <1> QED
    BY <1>1, InitIInv, StepKeepsIInv, PTL DEF Spec

\* Only a client whose connect was answered FAILED brings client->cache to be
\* dereferenced while it is null.
THEOREM DownRefused == Spec => []DownOnlyAfterRefusal
  <1>1. IInv => DownOnlyAfterRefusal
    BY DEF IInv, Linked, DownOnlyAfterRefusal
  <1> QED
    BY <1>1, InitIInv, StepKeepsIInv, PTL DEF Spec
=============================================================================
