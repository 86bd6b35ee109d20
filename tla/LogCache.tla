------------------------------ MODULE LogCache ------------------------------
(***************************************************************************)
(* LogMemCacher (hackathon/skel): client processes that call               *)
(* liblogmemcache and the server that answers them.  send_data and         *)
(* recv_data frame every message with its length, so a connection is a     *)
(* queue of messages each way.  The server serves one connection at a time.*)
(***************************************************************************)
EXTENDS Integers, Sequences, FiniteSets

CONSTANTS
  Client,      \* processes that use the library
  Service,     \* service names given to logmemcache_create
  Short,       \* Short[s]: s cut to CLIENT_MAX_NAME - 1 characters
  Unprintable, \* the services whose name does not pass validate_arg
  MaxCaches,   \* DEFAULT_CLIENTS_NO: the size of the table of caches
  MaxCalls,    \* bound: calls the clients make once created
  NULL         \* no client, no cache

ASSUME LogCacheAssumption ==
  /\ IsFiniteSet(Client) /\ NULL \notin Client
  /\ NULL \notin {Short[s] : s \in Service}
  /\ MaxCaches \in Nat /\ MaxCalls \in Nat

VARIABLES
  caches,          \* service names of the caches, in the order of the table
  server,          \* "accept", "serve", or "down" after a null dereference
  client,          \* the client whose connection is served, or NULL
  cache,           \* client->cache: the name of the cache, or NULL
  backlog,         \* connections that wait to be accepted
  closed,          \* clients whose connection the server has closed
  request, reply,  \* messages on the way to the server and to the client
  pc,              \* each client: "start", "connected", "calling", "ready", "gone"
  call,            \* its call: the operation and the messages it still waits for
  service,         \* the service it names, or NULL before
  calls,           \* history: calls made
  refused          \* history: clients whose connect was answered FAILED

wire == <<request, reply>>
serverVars == <<caches, server, client, cache, closed, refused>>
clientVars == <<pc, call, service, calls>>
vars == <<serverVars, backlog, wire, clientVars>>

NoCall == [op |-> "none", left |-> 0]

Init ==
  /\ caches = <<>> /\ server = "accept" /\ client = NULL /\ cache = NULL
  /\ backlog = <<>> /\ closed = {} /\ refused = {}
  /\ request = [c \in Client |-> <<>>] /\ reply = [c \in Client |-> <<>>]
  /\ pc = [c \in Client |-> "start"] /\ call = [c \in Client |-> NoCall]
  /\ service = [c \in Client |-> NULL]
  /\ calls = 0

-----------------------------------------------------------------------------
(***************************************************************************)
(* liblogmemcache                                                          *)
(***************************************************************************)
\* logmemcache_client_init_os; there is nobody to connect to once the server is down.
InitOs(c) ==
  /\ pc[c] = "start"
  /\ IF server = "down"
     THEN pc' = [pc EXCEPT ![c] = "gone"] /\ UNCHANGED backlog
     ELSE pc' = [pc EXCEPT ![c] = "connected"] /\ backlog' = Append(backlog, c)
  /\ \E s \in Service : service' = [service EXCEPT ![c] = s]
  /\ UNCHANGED <<serverVars, wire, call, calls>>

\* Faulty variant: the answer to flush is not waited for.
AwaitedButFlush(op) == IF op = "flush" THEN 0 ELSE 1

\* How often a function calls recv_data: logmemcache_get_stats takes the stats and
\* then the response; logmemcache_get_logs ends at a response with no number in it.
Awaited(op) == IF op = "stat" THEN 2 ELSE 1

\* The other end of the connection is gone.
HungUp(c) == server = "down" \/ c \in closed

\* send_data of a command with data of the given kind.
Send(c, op, data) ==
  /\ request' = IF HungUp(c) THEN request
                ELSE [request EXCEPT ![c] = Append(@, [op |-> op, data |-> data])]
  /\ call' = [call EXCEPT ![c] = [op |-> op, left |-> Awaited(op)]]
  /\ pc' = [pc EXCEPT ![c] = IF Awaited(op) = 0 THEN "ready" ELSE "calling"]
  /\ UNCHANGED <<serverVars, backlog, reply, service>>

ClientInit(c) ==
  /\ pc[c] = "connected"
  /\ Send(c, "connect", IF service[c] \in Unprintable THEN "unprintable" ELSE "ok")
  /\ UNCHANGED calls

Request(c, op, data) ==
  /\ pc[c] = "ready" /\ calls < MaxCalls
  /\ Send(c, op, data)
  /\ calls' = calls + 1

\* A log line may be longer than LINE_SIZE, and with the rest of the command longer
\* than COMMAND_SIZE: len is what snprintf would have written.
AddLog(c) == \E data \in {"ok", "long", "huge", "unprintable"} : Request(c, "add", data)
Flush(c) == Request(c, "flush", "none")
GetLogs(c) == Request(c, "getlogs", "none")
GetStats(c) == Request(c, "stat", "none")
Disconnect(c) == Request(c, "disconnect", "none")
Unsubscribe(c) == Request(c, "unsubscribe", "none")

\* recv_data: the functions print a response without looking at it, so a refused
\* connect creates the client all the same.
Receive(c) ==
  /\ pc[c] = "calling" /\ reply[c] # <<>>
  /\ reply' = [reply EXCEPT ![c] = Tail(@)]
  /\ call' = [call EXCEPT ![c] = IF @.left = 1 THEN NoCall ELSE [@ EXCEPT !.left = 1]]
  /\ pc' = [pc EXCEPT ![c] = IF call[c].left = 1 THEN "ready" ELSE @]
  /\ UNCHANGED <<serverVars, backlog, request, service, calls>>

\* At the end of the connection recv_data takes the length from a variable nothing
\* was received into: it fails or returns 0 bytes, which no caller tells from a
\* message.  A client that writes to the closed connection may be killed.
ReceiveEnd(c) ==
  /\ pc[c] = "calling" /\ reply[c] = <<>> /\ HungUp(c)
  /\ pc' \in {[pc EXCEPT ![c] = "ready"], [pc EXCEPT ![c] = "gone"]}
  /\ call' = [call EXCEPT ![c] = NoCall]
  /\ UNCHANGED <<serverVars, backlog, wire, service, calls>>

\* logmemcache_free, or the end of the process.
Close(c) ==
  /\ pc[c] = "ready"
  /\ pc' = [pc EXCEPT ![c] = "gone"]
  /\ UNCHANGED <<serverVars, backlog, wire, call, service, calls>>

\* The process is killed during a call; what was sent to it is lost.
Killed(c) ==
  /\ pc[c] = "calling"
  /\ pc' = [pc EXCEPT ![c] = "gone"]
  /\ reply' = [reply EXCEPT ![c] = <<>>]
  /\ call' = [call EXCEPT ![c] = NoCall]
  /\ UNCHANGED <<serverVars, backlog, request, service, calls>>

-----------------------------------------------------------------------------
(***************************************************************************)
(* The server                                                              *)
(***************************************************************************)
\* accept and logmemcache_create_client
Accept ==
  /\ server = "accept" /\ backlog # <<>>
  /\ client' = Head(backlog) /\ backlog' = Tail(backlog)
  /\ cache' = NULL
  /\ server' = "serve"
  /\ UNCHANGED <<caches, closed, refused, wire, clientVars>>

\* Faulty variant: the search stops before the last cache.
KnownButLast(name) == \E i \in 1..Len(caches) - 1 : caches[i] = name

Known(name) == \E i \in 1..Len(caches) : caches[i] = name

\* Faulty variant: the client of a known service is left without its cache.
FoundWithout(name) ==
  Known(name) /\ UNCHANGED <<caches, cache>>

\* logmemcache_add_client
Found(name) ==
  Known(name) /\ cache' = name /\ UNCHANGED caches

\* Faulty variant: the size of the table is not looked at.
AddedAnyway(name) ==
  ~Known(name) /\ cache' = name /\ caches' = Append(caches, name)

Added(name) ==
  /\ ~Known(name) /\ Len(caches) < MaxCaches
  /\ cache' = name
  /\ caches' = Append(caches, name)

TableFull(name) ==
  ~Known(name) /\ Len(caches) = MaxCaches /\ UNCHANGED <<caches, cache>>

Answer(ok) ==
  LET r == Head(request[client]) IN
  /\ request' = [request EXCEPT ![client] = Tail(@)]
  /\ reply' = IF pc[client] = "gone" THEN reply
              ELSE [reply EXCEPT ![client] = Append(@, [op |-> r.op, ok |-> ok])]
  /\ refused' = IF r.op = "connect" /\ ~ok THEN refused \cup {client} ELSE refused

Waiting == server = "serve" /\ request[client] # <<>>

\* recv_data has room for the command.
Received == Waiting /\ Head(request[client]).data # "huge"

\* recv_data refuses a command longer than COMMAND_SIZE: get_command returns -1
\* and client_function closes the connection of a client that waits for an answer.
Dropped ==
  /\ Waiting /\ Head(request[client]).data = "huge"
  /\ request' = [request EXCEPT ![client] = <<>>]
  /\ closed' = closed \cup {client}
  /\ server' = "accept" /\ client' = NULL /\ cache' = NULL
  /\ UNCHANGED <<caches, refused, backlog, reply, clientVars>>

RequiresAuth(op) == op # "connect"

\* The data does not fit in LINE_SIZE, or has characters that are not printable:
\* the first is looked at before the authentication, the second after it.
TooLong ==
  /\ Received /\ Head(request[client]).data = "long"
  /\ Answer(FALSE)
  /\ UNCHANGED <<caches, server, client, cache, closed, backlog, clientVars>>

\* client->cache->service_name of a client without a cache: the server is gone,
\* and what it had not received with it.
NullCache ==
  /\ Received /\ Head(request[client]).data # "long"
  /\ RequiresAuth(Head(request[client]).op) /\ cache = NULL
  /\ server' = "down"
  /\ request' = [c \in Client |-> <<>>]
  /\ UNCHANGED <<caches, client, cache, closed, refused, backlog, reply, clientVars>>

Authorized ==
  /\ Received /\ Head(request[client]).data # "long"
  /\ RequiresAuth(Head(request[client]).op) => cache # NULL

InvalidArg ==
  /\ Authorized /\ Head(request[client]).data = "unprintable"
  /\ Answer(FALSE)
  /\ UNCHANGED <<caches, server, client, cache, closed, backlog, clientVars>>

Connect ==
  LET name == Short[service[client]] IN
  /\ Authorized /\ Head(request[client]) = [op |-> "connect", data |-> "ok"]
  /\ \/ Found(name) /\ Answer(TRUE)
     \/ Added(name) /\ Answer(TRUE)
     \/ TableFull(name) /\ Answer(FALSE)
  /\ UNCHANGED <<server, client, closed, backlog, clientVars>>

\* The other operations have no effect in this server: they answer success.
OtherOp ==
  /\ Authorized /\ Head(request[client]).data \in {"ok", "none"}
  /\ Head(request[client]).op # "connect"
  /\ Answer(TRUE)
  /\ UNCHANGED <<caches, server, client, cache, closed, backlog, clientVars>>

GetCommand == Dropped \/ TooLong \/ NullCache \/ InvalidArg \/ Connect \/ OtherOp

\* Faulty variant: client_function goes on after get_command has failed.
ServeForEver ==
  /\ server = "serve" /\ request[client] = <<>> /\ pc[client] = "gone"
  /\ UNCHANGED vars

\* The client has closed: get_command returns -1 and client_function returns.
ClientLeft ==
  /\ server = "serve" /\ request[client] = <<>> /\ pc[client] = "gone"
  /\ server' = "accept" /\ client' = NULL /\ cache' = NULL
  /\ UNCHANGED <<caches, closed, refused, backlog, wire, clientVars>>

-----------------------------------------------------------------------------
Server == Accept \/ GetCommand \/ ClientLeft

Library(c) ==
  \/ InitOs(c) \/ ClientInit(c) \/ Receive(c) \/ ReceiveEnd(c) \/ Close(c)

Calls(c) ==
  \/ AddLog(c) \/ Flush(c) \/ GetLogs(c) \/ GetStats(c)
  \/ Disconnect(c) \/ Unsubscribe(c)

Next == Server \/ \E c \in Client : Library(c) \/ Calls(c) \/ Killed(c)

\* The server and each client run; a client ends after finitely many calls, as
\* the programs in test_clients do.
Spec ==
  /\ Init /\ [][Next]_vars
  /\ WF_vars(Server)
  /\ \A c \in Client : WF_vars(Library(c))

-----------------------------------------------------------------------------
(***************************************************************************)
(* Properties                                                              *)
(***************************************************************************)
\* The table, the connection being served and the clients have their types.
TypeOK ==
  /\ Len(caches) <= MaxCaches
  /\ server \in {"accept", "serve", "down"}
  /\ client \in Client \cup {NULL} /\ (server = "accept" <=> client = NULL)
  /\ cache \in {Short[s] : s \in Service} \cup {NULL}
  /\ \A c \in Client : call[c].left \in 0..2
  /\ calls \in 0..MaxCalls
  /\ pc \in [Client -> {"start", "connected", "calling", "ready", "gone"}]

\* A client gets the answer to the request it made: one message is on its way at
\* most, and an answer that waits belongs to the operation being called.
AnswersMatch ==
  \A c \in Client :
    /\ Len(request[c]) + Len(reply[c]) <= 1
    /\ reply[c] # <<>> => pc[c] = "calling" /\ reply[c][1].op = call[c].op

\* A service has one cache however its clients come and go, and the client being
\* served has the cache of its own service (by its first 15 characters).
OneCachePerService ==
  /\ \A i, j \in 1..Len(caches) : caches[i] = caches[j] => i = j
  /\ cache # NULL => cache = Short[service[client]] /\ Known(cache)

\* The server goes down only under a client that called on after its connect had
\* been refused, which logmemcache_create does not tell it.
DownOnlyAfterRefusal == server = "down" => client \in refused

\* get_stats waits for a second message that this server never sends.
StatsHang == \E c \in Client : pc[c] = "calling" /\ call[c].op = "stat"

\* Every call returns, also those of clients that wait to be accepted, unless in
\* the end some client is in get_stats for ever.
CallsReturn ==
  []<>~StatsHang => \A c \in Client : pc[c] = "calling" ~> pc[c] # "calling"
=============================================================================
