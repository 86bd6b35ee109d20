# Verification of Multi-platform-Development

TLA+ models of the programs of the repository that have state worth checking,
the TLC runs over small instances of them, and TLAPS proofs for every size of nine of
them.
The repository collects operating-systems course work in C: five assignments, a
hackathon and thirteen labs. The paths below are relative to `src/`.

## Inventory

| component | code | state | operations | what makes it correct |
|---|---|---|---|---|
| buffered streams | `assignments/2-stdio/checker-lin/libso_stdio.c` | `struct _so_file`: cursor, one 4096-byte buffer, `buffer_pos`, size, eof, err_ind, chunk_number, last_op; the kernel's file and offset | `so_fopen`, `so_fclose`, `so_fflush`, `so_fgetc`, `so_fputc`, `so_fread`, `so_fwrite`, `so_fseek` | the stream behaves like the file under it: reads deliver what follows the cursor, puts land at it, the buffer is used in bounds, calls return, failures are reported |
| child processes | same file, `so_popen`, `so_pclose` | a pipe, a process, descriptors held by both | open, close | close returns, the child sees the end of its input, no data is lost |
| symbol table | `assignments/1-multi/hashmap.c` | open-addressing array, `cnt`, `size` | `createHashMap`, `insert`, `get`, `deleteKey` | it is a map; searches end; growth loses nothing |
| preprocessor | `assignments/1-multi/helper.c`, `main.c` | symbol table, input position, condition nesting, include stack | one directive per line | skipped text is skipped, definitions resolve, reading ends |
| log cache server and client library | `hackathon/skel` | client table, one connection at a time, pending command | connect, add, get, stat, unsubscribe | an answer per command, no client can stop the others |
| epoll server and clients | `labs/lab11/sol/lin/2-epollpipe/epoll.c` | a pipe per client, one eventfd, the ready list of epoll, the processes | fork, write message, write event, wait, read, reap | every message is read before its pipe is closed, the server ends |
| web server material | `assignments/5-aws/util` | connections of an epoll echo server | readiness, receive, send | every byte received is sent back, connections are released |
| loader | `assignments/3-loader` | ELF/PE segments | parse; the page-fault handler is an empty skeleton | - |
| scheduler | `assignments/4-scheduler` | header and tests only, no implementation | - | - |
| producer/consumer | `labs/lab08/sol/lin/7-prodcons/prodcons.c` | bounded stack, count, mutex, two conditions | insert, remove, three runs | no item lost, no wake-up lost, the runs end |
| one-time initialisation | `labs/lab08/sol/lin/6-once/once.c` | reference count under a mutex | init, deinit | nobody works without the state |
| threshold barrier | `labs/lab09/sol/win/6-barrier/barrier.c` | count, guard, event | wait | nobody leaves early, everybody leaves |
| dormitory room | `labs/lab09/sol/win/8-dean/dorm_room.c` | students at the party, dean in the room, two mutexes, thread handles | enter, party, break party | the room stays consistent, both tests end, all threads are waited for |
| other labs | `labs/lab08` (`4-pfgrep`), `labs/lab09` (sort, interlocked, timer), `labs/lab10`, `labs/lab11` (poll, kaio), `labs/lab05.ipc` | see the plan | | |

Introductory labs (compiling, single system calls, exercises left as TODO), the
shared macros, slides, style checker, virtual machine set-up and test scripts
keep no state between calls and are not modelled.

Interaction. The preprocessor calls the symbol table and nothing else shares it.
A stream of `libso_stdio.c` shares with its environment only the file and its
offset; its operations call each other (`so_fread` calls `so_fgetc`, `so_fwrite`
calls `so_fputc`, and all may call `so_fflush`). The log cache client library
talks to the server over TCP. The epoll server and its clients share pipes and one
eventfd, the program of `so_popen` and its children the ends of the pipes. The labs are programs of their own whose threads
share memory under mutexes, conditions and events.

What is hard. In the stream library: one `buffer_pos` and one buffer with two
meanings, a kernel offset that must meet the cursor again before a put, writes
that are split or fail half-way, results that are ignored, and recovery code for
short reads. In the table: deletion in open addressing, growth from inside the
insertion. In the preprocessor: three functions that read the same file and
call each other, so that the C stack is the only record of the open conditionals.
In the log cache: calls that return whatever happened, and a server that serves one
connection at a time. With processes: who holds which end of which pipe. In the
labs: the interleavings. `PROJECT.json` lists each hazard at
its line with the properties that watch it, or the reason why none does.

## Modules

| module | models | built on |
|---|---|---|
| `FileBytes` | what `read` and `write` at an offset do to a sequence of bytes | - |
| `ByteStream` | the abstract promise of a stream: content, position, put, read, seek, failure | `FileBytes` |
| `SoStdio` | `libso_stdio.c` with one stream on one regular file | `FileBytes` |
| `SoStdioProps` | type invariant, invariants, action and liveness properties, refinement | `SoStdio`, instance of `ByteStream` |
| `MCSoStdio` | constant definitions for TLC | `SoStdioProps` |
| `SoStdioProofs` | types, buffer bounds, failures, the kernel's offset, `size`, the end of the file and the refinement of `ByteStream`, proved | `SoStdioProps` |
| `SoPopen` | `so_popen` and `so_pclose`: a program, its children, the ends of their pipes | - |
| `KeyValue` | the abstract promise of the symbol table | - |
| `HashTable` | the functions of `hashmap.c` as operators over a table | - |
| `HashMap`, `MCHashMap` | a program that calls them, growth a step per slot | `HashTable`, instance of `KeyValue` |
| `HashTableProofs`, `HashMapProofs` | lemmas about a table; theorems about the calls, with the refinement of `KeyValue` | `HashTable`; `HashMap` |
| `Preprocessor`, `MCPreprocessor` | `main.c` and `helper.c` of the preprocessor | `HashTable` |
| `PreprocessorProofs` | proofs about the preprocessor | `Preprocessor`, `HashTableProofs` |
| `LogCache`, `MCLogCache` | the log cache: library, connections, server | - |
| `LogCacheProofs` | proofs about the log cache | `LogCache` |
| `EpollPipe` | the epoll server and its clients (lab 11) | - |
| `EpollPipeProofs` | proofs about the epoll server | `EpollPipe` |
| `ProdCons`, `Once`, `Barrier`, `DormRoom` | the concurrent programs of labs 8 and 9 | - |
| `Threads` | the threads of `Once` and of `Barrier` | - |
| `MCThreads` | one of `Once`, `Barrier` and `DormRoom` at a time, for TLC | these three |
| `ProdConsProofs` | proofs about the producer and the consumer | `ProdCons` |
| `ThreadProofs` | proofs about the three programs, which share no name but the threads | `Once`, `Barrier`, `DormRoom` |

Operators commented *Faulty variant* stand before the definition of the code they
distort. They are how the runs are tested: with the variant in the place of the
definition, TLC reports the property the run checks as violated.

### SoStdio

The unit of atomicity is a system call, or the straight-line code between two of
them, because only there can a write be split, a call fail or a read come short.
`file` and `offset` belong to the kernel; `f` is the `SO_FILE`; `pc` and `call`
are the stack of the library call in progress; `phase` is what the calling program
did last, `failed` remembers that a system call failed since the stream was opened.

| code | actions |
|---|---|
| `so_fopen` | `So_fopen` |
| `so_fclose` | `So_fclose`, the flush actions, `FcloseBody` |
| `so_fflush` | `So_fflush`, `SysWrite` (any part of what is left), `SysWriteFails`, `FlushDone`, `FflushBody` |
| `so_fseek` | `So_fseek`, the flush actions, `FseekFlushFailed`, `FseekMoves`, `FseekOutOfRange` |
| `so_fputc` | `So_fputc`, the flush actions, `FputcFlushFailed`, `FputcStores` |
| `so_fwrite` | `So_fwrite`, `FwriteNext` and the actions of `so_fputc` per byte, `FwriteReturns` |
| `so_fgetc` | `So_fgetc`, the flush actions, `FgetcFlushFailed`, `FgetcLoads`, `FgetcLoadFails`, `FgetcPastBuffer`, `FgetcTakes` |
| `so_fread` | `So_fread`, `FreadNext` and the actions of `so_fgetc` per byte, `FreadRefills`, `FreadRefillFails`, `FreadReturns` |

`so_ftell`, `so_feof`, `so_ferror` and `so_fileno` return a field and have no action.
Left out: `size` other than 1 in block transfers (the code transfers `size * nmemb`
bytes one by one and divides the result by `size`; two tests pass 4 and 8, the others
1), `malloc`, `open`, `close` and `lseek` that fail, two streams on one file, and
positions past 2 GB, where the `int` of a chunk's number and its offset (lines 118, 132)
overflow.

Assumptions about the caller. `Disciplined` programs seek or flush between puts
and reads, as the tests demand of themselves ("there should be a fseek or fflush
between fwrite and fread", `_test/src/test_fwrite_fread.c:90`; "there should be a
fseek between fread and fwrite", `_test/src/test_fread_fwrite.c:91`). After a
`so_fseek` that was refused or failed the caller seeks or closes before it
transfers again. Types, buffer bounds and failure reports do not need `Disciplined`;
`WritesLandWherePut`, `SizeCoversContent` and the refinement do.

Where the library falls short of `ByteStream`, outside of what the runs ask:

- A `so_fread` that crosses the end of the file from a position other than 0 goes
  round lines 201-229 for ever. `FreadAnywhere = FALSE` keeps the caller from it.
- When `read` of a regular file comes short, line 207 seeks to the number of bytes
  copied and not to the position they belong to, so what follows is read from the
  wrong place unless the call began at 0. `ShortReads = FALSE` makes `read` return all
  that is there, which the kernel does and a test's hook does not.
- `size` grows on every put, also on one that overwrites (line 267), so `SEEK_END` may
  be past the end of the file. The runs check that `size` is never too small.

The runs set both constants to FALSE, and so does the assumption of the theorem about
the refinement; the other theorems hold for both values of each.

### SoPopen

A program calls `so_popen` up to `Streams` times, reads its streams and closes them in
any order. A pipe is known by its stream; its state is how much it holds and which
processes hold its ends, since that decides who sees the end of a file and who
waits. What is moved is counted, not told apart: the bytes are `SoStdio`'s.

| code | actions |
|---|---|
| `pipe` and `fork` in `so_popen` | `So_popen`: the child inherits every end the program has open |
| the parent's side | `ParentEnds`, or `LostStream` when `malloc` fails (line 318): child and ends stay, nobody knows them |
| the child's side | `ChildEnds`, then "sh", or "copy" when `execl` fails and the child returns from `so_popen` as a second copy of the program (line 313) |
| the command (external) | `CommandWrites`, `CommandReads`, `CommandEnds`, `CommandQuits` |
| reads of the stream | `Read`, `ReadReturns` |
| `so_pclose` | `So_pclose`, `Flushed`, `CloseFd`, `WaitPid` |

A write to a pipe nobody reads returns an error here; the program that does not ignore
SIGPIPE would be killed by it, and then no call is left to return.

`CallsReturn` excludes what the code does get wrong: a child started later holds the
ends the program had open for an earlier one, and does not close them. Closing the
earlier stream first then waits for a child (line 349) that waits for an end of file
that cannot come. `LifoCloses` is the other half: closing in the reverse order always
returns, unless a stream was lost.

### HashMap

`HashTable` has the functions as operators over a table, `Inserted` with the growth
inside it; `HashMap` calls them. One thread calls the table, so a call is one step,
except that here the loop that fills the doubled table is a step per slot. A key's hash
is a constant function, in the runs with two keys that collide in every table ("ab" and
"ba" have one sum). `undef` is a history variable: it remembers a deletion, after which `KeyValue` promises
less. `deleteMap` and a failing `malloc` are left out.

### Preprocessor

A step reads a line, takes an argument, or makes one iteration of the loop of
`defineMap` (which may not end). `stack` is the C stack of the calls of `parseFile`,
`ifelse` and `ifdef`. The lines are chosen as they are read, from a set of lines with
every directive. `groups` is a history variable: the conditionals as C nests them,
for the properties to compare the stack with.

| code | actions and operators |
|---|---|
| `main`, `getArgs` | `GetArg` with `ArgDefine`, `ArgDirectory`, `ArgOutput`, `ArgFile`; `Start` |
| `parseFile` | `ParseFile`: `Define`, `Undef`, `Open`, `Include`, `Write` of `Expanded` words |
| `ifelse` | `IfElse`; its calls of itself after `#else` and `#elif` are `Again` |
| `ifdef` | `IfDef` |
| `defineMap` | `Define`, then `NotAName`, `FirstValue`, `NextValue`, `Substitute`, `StoreResolved` |
| `replace`, `getIncFile` | `Replace`, `GetIncFile` |
| end of a file | `EndOfFile`: every call that reads it returns |

The symbols are in the table of `HashTable`, with its collisions, its growth and the
symbols an `#undef` hides. Names and values are sequences of characters, because
`replace` compares characters: `Occurs` is the `strncmp` of line 182, `First` the first
place in the line where it succeeds, be it within a longer word.

What the code does that the properties leave room for:

- `ifelse` (an `#if` group that is taken) acts on `#define`, `#else`, `#elif` and `#endif`
  only; `#undef`, `#include` and a nested conditional are copied to the output as
  text, and the `#endif` of the nested one ends the outer. A skipped group of any
  kind takes the directives of a nested conditional for its own. `README.txt:29`
  says that directives inside other directives are handled. The history variable
  `plain` is TRUE until a conditional or such a directive stands where the code does not
  look for it; `CallsAreGroups` and `LinesFollowGroups` are about plain input.
- `parseFile` finds a directive by its first token, also an indented one; `ifelse` and
  `ifdef` compare from the first column, so that an indented `#else` or `#endif` is text to
  them. Lines carry `indented`, and such a line is not plain either.
- A symbol is replaced where it first occurs in the line, also within a longer word: with
  `A` defined as 1, `AB A;` becomes `1B A;`. `README.txt:16-18` speaks of tokens; the run
  `symbols_substring` shows the disagreement. `SymbolsReplaced` is about lines where no
  symbol is part of another word or of a value.
- An `#undef` may hide a symbol with the same hash, which comes back when the slot is taken
  again. So can a ring of definitions: `#define ab 1`, `#define ba A`, `#undef ab`,
  `#define A ba` (`ba` is hidden, so the name is stored), `#define ab 1`. The history
  variable `hidden` notes such an `#undef`, and `NoRingOfSeveral` says nothing after it.
- Words in a conditional group are copied without replacing symbols.
- An undefined name in `#if` counts as true: only the token "0" does not.
- Definitions that form a ring keep `defineMap` in its inner loop for ever.
  `DefineEnds` excludes exactly the values with a word that leads into one;
  `NoRingOfSeveral` says that `defineMap` does not close a ring of two or more names itself,
  only values stored unresolved and hidden symbols do.

Left out: lines longer than 255 characters (read in pieces), a `#define` continued at
the end of the file, strings in quotes (which `replace` skips), delimiters other than the
blank (those of a continued `#define` hold the letter t, `helper.c:9`), a last word right before
the newline (which the code looks up with its newline and never finds), words that only
begin like a directive (`#endifx` is an `#endif` to `ifelse`), unknown options, and `malloc`
or `fopen` of the output file that fails.

### LogCache

`send_data` and `recv_data` put a length before every message, so a connection is a
queue of messages each way. Clients create themselves, call, close, and may be killed
during a call.

| code | actions |
|---|---|
| `logmemcache_create` | `InitOs` (connect), `ClientInit` (the connect command) |
| the calls of the library | `AddLog`, `Flush`, `GetLogs`, `GetStats`, `Disconnect`, `Unsubscribe`, each with `Receive` or `ReceiveEnd` |
| `logmemcache_free`, a killed client | `Close`, `Killed` |
| accept loop, `client_function` | `Accept`, `ClientLeft` |
| `get_command` | `Dropped`, `TooLong`, `NullCache`, `InvalidArg`, `Connect`, `OtherOp` |
| `logmemcache_add_client` | `Found`, `Added`, `TableFull` |

What the code does:

- One connection is served until its client leaves; the others wait in the backlog.
- `connect` may be refused (table full, name not printable), but the library does not
  look at the answer and goes on; the next command dereferences the cache that
  was never set (`server.c:177`) and the server is "down".
  `DownOnlyAfterRefusal` says that this is the only way there.
- `logmemcache_get_stats` waits for a second message the server does not send, and with
  it every client in the backlog. `CallsReturn` excludes only that a client is in
  `get_stats` for ever (`StatsHang`).
- A log line that makes the command longer than `COMMAND_SIZE` is sent with the length it
  would have had (`logmemcache.c:86`; what lies behind the buffer goes with it, if the
  client survives reading it). `recv_data` refuses it (`utils.c:127`) and the server closes the
  connection of a client that waits for its answer (`Dropped`); later calls of the client
  find the connection closed (`HungUp`).
- Names are cut to 15 characters: services that agree in these share a cache.
- At the end of a connection `recv_data` takes a length from a variable nothing was
  received into; `ReceiveEnd` has both outcomes for the caller.

`subscribe` and unknown commands (the library sends neither) and `accept` that fails are
left out; the operations that are empty functions in this repository only answer.

### EpollPipe

`main` forks `CLIENT_COUNT` clients and becomes the server (`Fork`). A client makes three
steps: `WriteMessage`, `WriteEvent`, `ClientExits`. The server: `EpollAdd` per descriptor,
then `EpollWait` with `ReadEvent` or `ReadMessage`, at last `WaitPid`. External is the ready
list of epoll: level-triggered descriptors join at the tail when they are written, those
that are not ready any more are dropped at the head, and the one reported goes to the
tail again. Pipes that become ready at once, when the last writer ends, join in any order. Every client inherits all pipes, so a pipe the server has closed stays in
epoll while clients live.

- `ReadBeforeClosed`: a client writes its message before its event, yet the server may
  take the event first, if the message was written while the eventfd stood in the list.
  Then the pipe is closed unread, the message is lost, and epoll reports a descriptor
  whose read fails with EBADF and ends the server, or the server waits for ever.
- `ServerEnds`: the loop ends with the last message, not with the last event. The exit
  mark 2^63 lets one event at a time into the counter, so clients that still
  wait to write theirs never end, and neither does `waitpid` (`EventsPileUp`).

Calls that fail are left out, except the read for which `DIE` ends the server, and so is
the byte that line 107 stores after a full message.

### ProdCons, Once, Barrier, DormRoom

Each thread has a program counter with a step per lock, unlock, wait, signal and
access to shared state. `Once`: init_func may run several times, when all threads that came
have left before the next one comes; `InitOnce`, what the comments of the test say, is the
property of the run `once_single`. `ProdCons`: condition waits release and retake the mutex,
may wake for no reason (at most `MaxSpurious` times a run) and `run_threads` is
called `Runs` times. `Barrier` names its state predicate and actions after the functions
(`CreateThresholdBarrier`, `ThreadFunc`, `WaitThresholdBarrier`): the release of the guard and the wait are two steps
since Windows promises no more; `PulseEvent` frees exactly the threads waiting at
that moment (a thread the kernel takes out of the wait for an asynchronous call would miss
the pulse; Windows documents it, the model leaves it out). `DormRoom`: `main` runs `test1`, cleans the room, and runs `test2`; the
start of the dean in `test2` is a choice constrained as `rand() % (MAX_STUDENTS - i) < 5`
is, and makes the same index start twice, so that line 235 overwrites the handle
stored at line 224: `OnlyOverwrittenLeft` (in `RoomInv`) says that `wait_all` leaves no other
thread behind. Sleeping is arbitrary delay.

## Runs

| run | question | result |
|---|---|---|
| `stdio_mixed` | do character reads, puts, flushes and seeks of an `r+` and an `a+` stream implement `ByteStream`, in bounds, with `size` and the end-of-file indicator right? | yes |
| `stdio_faults` | what is left of that for block transfers when any `read` or `write` may fail, and does every call return? | the promise until the failure, the error indicator after it, termination |
| `popen_pipes` | which calls on the streams of three children return, when commands quit, `execl` fails, streams are lost and closed in any order? | all but those on a stream whose ends a later child holds; always when closed in reverse order |
| `map_grow` | is the table a map until the first deletion, through growth and collisions; do searches end and calls see their effect also after deletions? | yes |
| `map_chain` | does deleting a key leave the others alone? | no: line 129 cuts the search path of colliding keys |
| `preprocess_lines` | do the calls of the preprocessor follow the conditionals of C, are symbols replaced, do definitions resolve? | yes, for plain input and without rings of definitions |
| `symbols_substring` | is every token that is a symbol replaced, and nothing else? | no: line 182 finds the symbol within a longer word |
| `logcache_clients` | do answers belong to their calls, is there one cache per service, when does the server go down, do calls return? | yes; only after a refused connect; yes, unless a client is in `get_stats` |
| `prodcons` | are items conserved and wake-ups never lost, and do the runs end? | yes |
| `threads_labs` | three programs, one at a time: does every thread work between set-up and tear-down; does nobody leave the barrier early in either round, and does everybody leave; is the room consistent, who is waited for, does a student slip in after the dean, do both tests end? | yes; yes, unless a pulse meets a thread between releasing the guard and waiting; yes, all but a student whose handle was overwritten, no, yes |
| `once_single` | does init_func run only once? | no: threads that run one after the other set up again |
| `epoll_clients` | is every message read before its pipe is closed, and does the server end? | yes, unless a message is written while the eventfd is in the list, or events pile up |

`map_chain`, `symbols_substring` and `once_single` expect a violation; each has a finding in
`PROJECT.json` that quotes the documentation or comment the code disagrees with.

### Bounds

- `BUFFER_SIZE` is 3 in `stdio_mixed` and 2 in `stdio_faults` instead of 4096. Every
  branch of the code compares with a whole buffer, the last slot, or a chunk
  boundary, so a file of two chunks with a partial second one (`MaxSize` 4 and 3)
  meets each of them: a full buffer in the middle of a block, a write split in two,
  a read at a chunk's end, a partial last chunk.
- Bytes are 0 and 1: 0 also fills holes, 1 shows a byte out of place. `Contents`
  is empty or two bytes in `stdio_mixed`, two bytes in `stdio_faults`.
- `MaxSize` stops puts at that size and seeks one byte past it; reads, flushes and
  closes are unbounded, and a stream is closed and opened again any number of times.
- `SoPopen`: 3 streams, so that a child holds ends of two others; a pipe holds 1 and a
  command writes 2, so both sides wait.
- `InitialSize` is 5 in `map_grow` instead of 6, so four keys with two colliding ones
  make the table grow, with and without duplicates left by deletions; `MaxTable`
  allows one growth. `map_chain` uses the program's 6.
- `Preprocessor`: every sequence of up to 5 arguments and lines (`MaxInputs`) over three
  symbols, with 4 calls on the stack (`MaxDepth`): enough for a conditional in a
  conditional with its `#else`, or three definitions and a use of them. Two of the symbols
  collide in the table and the third is part of both. The table does not grow in
  so few lines: growth is `map_grow`'s, and the theorems include it.
- `LogCache`: 3 clients and a table of 2 caches over five services, of which two share
  their first 15 characters and one is not printable; after their creation the clients
  make one call (`MaxCalls`), which is enough to reach every branch of `get_command`; a
  call after the connection was dropped needs two. The theorems have no such bound.
- `EpollPipe`: 4 clients: one whose event is in the counter, one that waits to write its
  own, one that has written a message and one that has not. `Wide` is 16 in the place of
  2^64 and `MAGIC_MASK` 3 in the place of 255; as in the program the mark is half of
  `Wide` and a multiple of 256 (of 4), and the mask covers every index and stays below
  the mark.
- `ProdCons` has the program's own constants (3 slots, 10 items, 3 runs) and two
  spurious wake-ups per run.
- `Once` and `Barrier` have 4 threads, the barrier the program's two rounds. `DormRoom` has
  3 students with a wild party above 1, so the party can be wild, tame or empty when
  the dean looks.

Deadlock is checked for the stream and the table. The other programs end, or wait in a
system call in the situations described above, so their configurations turn the check
off; their liveness properties say when they may stop.

### Fairness

`SoStdio!FairSpec` has weak fairness on the library's steps: a call that has been made
goes on, the caller need never call again. Nothing is assumed about which outcome
a system call has. `SoPopen`: weak fairness on the library and on each command that can
read, write or end; nobody is obliged to call or to quit. `Preprocessor`: the loop of
`defineMap` goes on, input need not come. `LogCache`: the server and each client's library
run; a client closes in the end, as the programs in `test_clients` do, but need make no
call. `EpollPipe`: every process is scheduled. A client makes one write to the eventfd,
so weak fairness is enough for the ones that wait there in turn.
`ProdCons` and `Barrier` have weak fairness per thread: the mutex
is contended by threads that do a bounded number of rounds, and spurious
wake-ups have none. `DormRoom` threads poll for ever, so taking a mutex has
strong fairness: a Windows mutex serves its waiters in turn. `main` has weak
fairness. `MCThreads` takes the fairness of the program it runs; `Once` has none,
since its properties are about safety only.

## Proofs

Each theorem holds for every value of the constants that satisfies the named
assumption of its module. These say no more than the types of the constants and
what the program fixes (a buffer has at least two bytes, a set of threads is finite,
a null pointer is not a value). Every module proves an inductive invariant `IInv`
(`InitIInv`, one lemma per action or group of actions, and one about every step) and derives the
properties from it; the temporal steps are propositional.

### The stream: `SoStdioProofs`

- `TypeCorrect`: `Spec => []TypeOK`. With `file` and `call.out` typed as sequences of
  `Byte` this says that no uninitialised byte reaches the file or the caller.
- `BufferSafe`: `Spec => []BufferUsedInBounds`.
- `FailuresReported`: `Spec => []FailureIsReported`.
- `PutsLand`: `Spec => [](Disciplined => WritesLandWherePut)`.
- `SizeCovers`: `Spec => [](Disciplined => SizeCoversContent)`.
- `ImplementsByteStream`: `PromiseAssumption` gives `Spec => KeepsPromise`. The assumption
  is what both runs set: `Disciplined`, no `ShortReads`, no `FreadAnywhere`, and a block
  of at least one byte may be asked for. Buffer size, file, modes, operations and
  failures are free.
- `EofTellsTheEnd`: `PromiseAssumption` gives `Spec => EofOnlyAtEnd`, an action property.

`TypeOK` and `BufferUsedInBounds` are not inductive. Their invariant `IInv` adds:

- `BufferInv`: `buffer_pos` lies in `-1..BUFFER_SIZE` and the slots below it hold bytes;
  with pending puts it is in `0..BUFFER_SIZE-1`, and where a put is about to store it
  leaves a slot free. This is what makes the double use of the field safe: a put
  after a read must empty the buffer first.
- `FlushInv`: during a flush the bytes already written are at most the bytes pending,
  so the slice passed to `write` is in the buffer (`-1` pending bytes, after a read
  that failed, are never written).
- `CursorInv`: the cursor is negative only after a `so_fseek` that was refused, and no
  transfer runs then, so the index of a read, which is a remainder, is a slot.
- `GetInv`: a chunk is read only when no byte waits to be written, and `so_fread` goes
  on only while bytes are missing.

`FailureIsReported` follows from one lemma about every step (`ErrorStays`): the
indicator is never lowered while the stream is open.

`PutsLand` needs `LandInv`, relative to `IInv`. `OffsetInv` is the property together with
what it becomes when nothing waits: offset and cursor are equal if there was no read
since the last seek or flush. `PendingInv` says where in a call bytes may wait (a
flush always has some, a seek that goes on has none, a put after reads starts
with an empty buffer), `CallInv` ties a call to what the caller did before and every
negative result to `failed`. Both invariants were model-checked on the bounds of
`stdio_mixed` before they were proved.

`SizeCovers` adds `WaitInv` (a closed stream, and a flush or close about to return, hold
no pending byte) and `SizeInv` (`size` covers the file, in append mode with the pending
bytes, and the cursor of a caller that may put is not past it).

The refinement rests on `StreamInv`, which is all of these and two more. `ChunkInv`: a
chunk is remembered only while the caller reads, and then the buffer holds that part
of the file as it is now; this is why `so_fseek` must forget the chunk. `CopyInv`:
`so_fread` has copied what follows its start, and gets to its own `read` only at the end
of a file it has read from 0. Then `Put`, `ReadOf`, `Move` and `Same` restate the steps of
`ByteStream` for the mapped state, and there is one lemma per group of actions:

- `FlushIsSilent`: a part that `write` takes moves from the buffer to the file and the
  caller sees no change. `OverwriteTwice` carries it: writing in two parts stores what
  one write stores, also across the end of the file and with `O_APPEND`.
- `StoreIsPut`: the byte `so_fputc` buffers is, for the caller, in the file at the
  position. Here `OffsetInv` is needed.
- `GetIsRead`, `FreadIsRead`: what a read returns is what follows the position.
- `CallIsMove`, `EndIsMove`, `OpenIsOpen`, `CloseIsClose`: the rest. `so_fclose` may forget
  the buffer because `WaitInv` says it is empty.

`EofTellsTheEnd` rests on the same invariant: `ChunkInv` says that a chunk shorter than the
buffer is the last one of the file, and `CopyInv` where `so_fread` makes its own `read`.

### The symbol table: `HashTableProofs` and `HashMapProofs`

- `ImplementsKeyValue`: `Spec => IsMap`. The open-addressing table, growing slot by slot,
  refines `KeyValue` with `get` as the abstraction: until a deletion an insertion
  changes its own key only and the copy into the doubled table none.
- `EffectsSeen`: `Spec => CallSeesItsEffect`, also after deletions.
- `SearchesEnd`: `Spec => []EmptySlotLeft`. `GrowthIsFlat`: `Spec => []TableInv`.

The lemmas about a table are in `HashTableProofs`. The arithmetic comes first: the slots a search visits are a permutation of the table, so
a search with an empty slot stops at the first slot that is empty or holds the key
(`SearchEnds`, by the smallest such number of steps and not by induction on a loop). On
that rest the lemmas about placing an element (`PlaceDoes`, `PlaceGets`,
`PlaceKeepsOthers`). `Sound(m)` is the heart: searching for the key of an occupied slot
finds this slot. It is false after a deletion, and `FindInv` claims it until then.
`CountInv` bounds `cnt` from both sides: it is never below the number of occupied
slots, and at most one above three quarters of the size, so an empty slot is left;
during growth it is at most the number of slots copied, so the nested insertions
never grow the new table. `FindInv` also says what `get` finds in a copy half done.

### The preprocessor: `PreprocessorProofs`

- `TypeCorrect`: `Spec => []TypeOK`. `CallsFollowGroups`: `Spec => []CallsAreGroups`.
  `NoRing`: `Spec => []NoRingOfSeveral`.
- `LinesFollow`: `Spec => LinesFollowGroups`. `SymbolsAre`: `Spec => SymbolsReplaced`. These
  are action properties.

The symbols, lines, arguments and the bounds on input and depth are free. `IInv` is
`NoRingOfSeveral` and

- `Types`: `TypeOK`, the types of the history variables, and that the program runs exactly
  while a call of `parseFile` is on the stack.
- `BasesOf`: a file begins in conditionals its includers have opened. It holds for every input
  and not only for plain ones: at the end of a file the calls that read it return, and
  below them the stack must still be one that the program can go on with.
- `Nested`, while the input is plain: the calls of `ifelse` and `ifdef` are the groups, one by
  one. `Matches` ties the fields of a call to what C knows of its group: kind, whether it is
  taken, whether one of its branches was. All groups but the innermost are taken,
  because in a skipped group the code opens nothing. `CallsAreGroups` alone is not
  inductive: after `#else` it does not say which branch was taken before.
- `Produced`: while `defineMap` resolves a value, the text it builds has a blank in it if the
  value has several words, and is the word itself, until that is replaced by a text that
  is no symbol, if it has one. So a resolved value is never a symbol that is defined.
- The table is one that `HashTableProofs` says its lemmas of (`Roomy`: there is room for an insert; `Sound`
  until an `#undef` changed another symbol).

`NoRing` is about the real table. `InsertedOK` and `DeletedOK` (`HashTableProofs`) say what a
whole `insert`, with the copy into a doubled table, and a whole `deleteKey` do to what `get`
returns; `InsertKeeps` and `DeleteKeeps` take this to `RingFree`, an assertion about the values
of all symbols. From `Produced` follows that the value stored is no symbol that is
defined, and storing it leaves every set of symbols with a way out (`RingFreeBut`). The rest of
the ring argument is about sets of symbols and needs no finiteness. The theorem says
nothing once `hidden` is TRUE; the sequence above shows why it cannot.

`SymbolsAre` compares two loops over texts. `Expanded` models the code: each symbol found is
replaced where its characters first occur in the line. `Replaced` is the line as it should
be. `ExpandedIsReplaced` shows that, if no symbol of the line is inside another word of it or
inside a value, after i words the line is the first i words replaced, followed by the words
that are left. `OneMore` is the step: the next word stands behind that first part
(`ReplaceHere`), and does not occur before it, since an occurrence would lie inside one of
the words or values or across a blank (`NotBefore`, `InsideEither`, `AcrossBlank`), and no
word holds a blank. Both loops are recursive functions; that they exist and agree at
every step is shown by the least step at which they would not (`LoopExists`, `Least`),
because an induction theorem is out of the provers' reach.

The steps are taken by part of the invariant (`StackPart`, `SymbolPart`, `ControlPart`) and
group of actions, and `NextKeepsIInv` puts them together.

### The log cache: `LogCacheProofs`

`AnswersBelong`, `CachesUnique`, `DownRefused` prove the three invariants of the run, and
`TypeCorrect` the types with the contents of the queues. `Wire` strengthens
`AnswersMatch`: a message is on its way only for the call in progress, or from a client
that is gone. `Linked` is what makes a null cache traceable: a client whose connect was
answered is the one being served until it leaves or its connection is closed, and has a
cache or was refused.

### The labs

- `ProdConsProofs`: `LockProtects`, `NothingLost`, `WakeUpsArrive`. `SlotInv` and `ItemInv`
  name the item in each slot of the stack, including the slot that was counted out and
  not yet taken; `WakeInv` sharpens `NoLostWakeup` to the exact count at which the
  other thread owes a signal, without which a second signal could be missing.
- `ThreadProofs`: `WorkIsSafe`, `InitsAlternate`, from `refcount` as the number of threads
  between their two calls, and the two moments under the mutex (before the first is
  counted, after the last is not) at which the state and that number disagree.
- `ThreadProofs`: `RoundsKeptApart`, for `Barrier` and any number of rounds. `RoundInv(r)`
  says, for some number r of pulses, where a thread can be: outside after r passes, leaving
  round r, held in the next, or left behind by a pulse; in the last case `dwCount` stays
  below the threshold for ever and no pulse comes.
- `ThreadProofs`: `RoomConsistent`, `PartyStaysOver`. `LockInv` ties each mutex to the program counters, `DeanInv` says that
  whoever decides sees the room as it is, `StartInv` and `CleanInv` follow `main` and the
  handles from `test1` to `test2`.
- `EpollPipeProofs`: `MessagesReadFirst`, that is `Spec => []ReadBeforeClosed`. What makes it
  inductive is the order of epoll's list: a message that was not late stands ahead of the
  eventfd (`AheadInv`), so when the eventfd is reported only late messages are in the pipes,
  and until it is read a new message is late (`EventInv`). `CounterInv` says that the counter is
  the event of one client: two marks do not fit, since each is half of the range, and
  `IndexOfEvent` that the mask gets the client back from it. `CountInv` bounds `recv_msgs` by
  the messages that were written and are not in a pipe.

### Only model-checked

Every invariant and action property of the passing runs is proved, and so is the refinement
of `ByteStream` and of `KeyValue`. What stays with TLC is liveness under fairness, which is
out of the prover's reach: `CallsReturn` of the stream, of `SoPopen` and of the log cache,
`LifoCloses`, `DefineEnds`, `RunsEnd`, `BarrierPasses`, `RoomTestsEnd`, `ServerEnds`. `SoPopen` has no
other properties, so nothing is proved about it.

## Not modelled, and the plan

In the order they are worth doing:

1. `KernelAio` (`labs/lab11`): a submission that takes fewer requests than given, while
   the wait counts all of them. `PollPipe`: the server of `EpollPipe` on `poll`, without
   the eventfd. `EpollEcho`: the echo server's connections (`assignments/5-aws`).
2. `ParallelFgrep` (chunk arithmetic at boundaries, modulo 2^w), `ParallelSort` (the
   barrier reused between phases), `Interlocked`, `TimerQueue`.
3. `IpcHashtable` (`labs/lab05`): a message-queue client and server around a chained table.

Not planned: the loader and the scheduler (no implementation in the repository), the
HTTP parser (third-party), the introductory labs, the Windows counterparts of
programs modelled from their Linux side.
