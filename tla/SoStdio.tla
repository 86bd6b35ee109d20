------------------------------ MODULE SoStdio ------------------------------
(***************************************************************************)
(* libso_stdio.c: one SO_FILE over one regular file.  Each action is one   *)
(* system call or the straight-line code between two of them, so that a    *)
(* write may be split or fail anywhere in so_fflush and a read anywhere in *)
(* so_fread.  size is 1 in so_fread and so_fwrite, as in every test.       *)
(***************************************************************************)
EXTENDS FileBytes

CONSTANTS
  BUFFER_SIZE,   \* length of the buffer of a stream (4096)
  Byte,          \* the values a byte can have; 0 fills a hole
  Uninit,        \* what malloc leaves in a buffer: not a byte of any file
  Modes,         \* the modes the caller opens the file with
  Ops,           \* the operations the caller uses
  Whences,       \* the whence values it gives so_fseek
  Disciplined,   \* the caller seeks or flushes between puts and reads
  FreadAnywhere, \* so_fread may meet the end of the file from any position
  ShortReads,    \* read may return fewer bytes than the file has
  Faults,        \* read and write may fail
  MaxRequest,    \* most bytes one so_fread or so_fwrite asks for
  MaxSize,       \* bound: no put once the stream counts this many bytes, and
                 \* no seek further than one byte past it
  Contents       \* what the file may hold before it is first opened

AllModes == {"r", "r+", "w", "w+", "a", "a+"}
AllOps   == {"fgetc", "fread", "fputc", "fwrite", "fflush", "fseek"}
SO_EOF   == -1

ASSUME StreamAssumption ==
  /\ BUFFER_SIZE \in Nat /\ BUFFER_SIZE >= 2
  /\ 0 \in Byte /\ Uninit \notin Byte
  /\ Modes \subseteq AllModes /\ Ops \subseteq AllOps
  /\ Whences \subseteq {"SEEK_SET", "SEEK_CUR", "SEEK_END"}
  /\ {Disciplined, FreadAnywhere, ShortReads, Faults} \subseteq BOOLEAN
  /\ {MaxRequest, MaxSize} \subseteq Nat
  /\ Contents \subseteq Seq(Byte)

VARIABLES
  file,     \* the bytes of the file, as the kernel holds them
  offset,   \* the kernel's offset of the descriptor
  mode,     \* the mode the stream was opened with, "closed" when it is not
  f,        \* the SO_FILE
  pc,       \* where the running library call is; "idle" in the caller
  call,     \* the library call that runs
  phase,    \* the caller's last transfer: "fresh" none since the last seek or
            \* flush, "reading", "writing"; "lost" after a so_fseek that failed
  failed,   \* a system call failed since the stream was opened
  ret       \* what the last library call returned

vars == <<file, offset, mode, f, pc, call, phase, failed, ret>>

Readable == mode \in {"r", "r+", "w+", "a+"}
Writable == mode \in AllModes \ {"r"}
Appending  == mode \in {"a", "a+"}

NewStream(size) ==
  [cursor |-> 0, buffer |-> [i \in 0..BUFFER_SIZE-1 |-> Uninit], buffer_pos |-> 0,
   size |-> size, eof |-> 0, err_ind |-> 0, chunk_number |-> -1, last_op |-> "r"]

\* n: bytes so_fflush has written; rc: what it returned; want: bytes so_fread or
\* so_fwrite is asked for; cnt: bytes so_fwrite has put; start: the cursor when a
\* read began; out: the bytes so_fread has copied; target: where so_fseek goes
NoCall == [op |-> "none", n |-> 0, rc |-> 0, c |-> 0, want |-> 0, cnt |-> 0,
           start |-> 0, target |-> 0, out |-> <<>>]
NoRet  == [op |-> "none", rc |-> 0, out |-> <<>>, want |-> 0]

-----------------------------------------------------------------------------
\* so_fflush: write loops until the whole buffer is out

\* A write with O_APPEND goes to the end of the file.
WriteAt == IF Appending THEN Len(file) ELSE offset

\* Faulty variant: the second write starts one byte too late.
SliceOneOff(i, k) == [j \in 1..k |-> f.buffer[i + j]]

\* k bytes of the buffer from index i on.
Slice(i, k) == [j \in 1..k |-> f.buffer[i + j - 1]]

SysWrite(k) ==
  /\ pc = "flush" /\ Writable
  /\ k \in 1..(f.buffer_pos - call.n)
  /\ file' = Overwrite(file, WriteAt, Slice(call.n, k))
  /\ offset' = WriteAt + k
  /\ call' = [call EXCEPT !.n = @ + k]
  /\ UNCHANGED <<mode, f, pc, phase, failed, ret>>

\* EBADF on a read-only descriptor; buffer_pos is -1 after a read that failed.
SysWriteFails ==
  /\ pc = "flush" /\ call.n # f.buffer_pos
  /\ Faults \/ ~Writable \/ f.buffer_pos < 0
  /\ f' = [f EXCEPT !.err_ind = SO_EOF]
  /\ call' = [call EXCEPT !.rc = SO_EOF, !.n = 0]
  /\ pc' = "body"
  /\ failed' = TRUE
  /\ UNCHANGED <<file, offset, mode, phase, ret>>

\* Faulty variants: the buffer still counts as full; success clears the error.
FlushedKeepsPos == [f EXCEPT !.last_op = "r"]
FlushedClears   == [f EXCEPT !.buffer_pos = 0, !.last_op = "r", !.err_ind = 0]

\* The stream after so_fflush has written everything.
Flushed == [f EXCEPT !.buffer_pos = 0, !.last_op = "r"]

FlushDone ==
  /\ pc = "flush" /\ call.n = f.buffer_pos
  /\ f' = Flushed
  /\ call' = [call EXCEPT !.rc = 0, !.n = 0]
  /\ pc' = "body"
  /\ UNCHANGED <<file, offset, mode, phase, failed, ret>>

-----------------------------------------------------------------------------
\* entering and leaving a library call

\* The body of one of ops runs, after the so_fflush it may begin with.
Running(ops) == pc = "body" /\ call.op \in ops
\* At the loop condition of so_fwrite or so_fread.
Looping(op)  == pc = "loop" /\ call.op = op

IfDirty == IF f.last_op = "w" THEN "flush" ELSE "body"

Begin(c, next) ==
  /\ pc = "idle" /\ mode # "closed"
  /\ call' = c
  /\ pc' = next
  /\ ret' = NoRet

Return(rc, out) ==
  /\ ret' = [op |-> call.op, rc |-> rc, out |-> out, want |-> call.want]
  /\ call' = NoCall
  /\ pc' = "idle"

CanRead  == phase \in {"fresh", "reading"} \/ (phase = "writing" /\ ~Disciplined)
CanWrite == phase \in {"fresh", "writing"} \/ (phase = "reading" /\ ~Disciplined)

-----------------------------------------------------------------------------
\* so_fopen, so_fclose

So_fopen(m) ==
  LET kept == IF m \in {"w", "w+"} THEN <<>> ELSE file IN
  /\ pc = "idle" /\ mode = "closed"
  /\ mode' = m
  /\ file' = kept
  /\ offset' = 0
  /\ f' = NewStream(Len(kept))
  /\ phase' = "fresh"
  /\ failed' = FALSE
  /\ ret' = NoRet
  /\ UNCHANGED <<pc, call>>

So_fclose ==
  /\ Begin([NoCall EXCEPT !.op = "fclose"], IfDirty)
  /\ UNCHANGED <<file, offset, mode, f, phase, failed>>

\* close and free happen whatever so_fflush returned.
FcloseBody ==
  /\ Running({"fclose"})
  /\ mode' = "closed"
  /\ f' = NewStream(0)
  /\ offset' = 0
  /\ phase' = "fresh"
  /\ Return(call.rc, <<>>)
  /\ UNCHANGED <<file, failed>>

-----------------------------------------------------------------------------
\* so_fflush as the caller uses it

So_fflush ==
  /\ phase = "writing" \/ (~Disciplined /\ phase # "lost")
  /\ Begin([NoCall EXCEPT !.op = "fflush"], "flush")
  /\ UNCHANGED <<file, offset, mode, f, phase, failed>>

\* The caller goes on whatever so_fflush returned.
FflushBody ==
  /\ Running({"fflush"})
  /\ phase' = IF phase = "writing" THEN "fresh" ELSE phase
  /\ Return(call.rc, <<>>)
  /\ UNCHANGED <<file, offset, mode, f, failed>>

-----------------------------------------------------------------------------
\* so_fseek: the cursor is set before it is checked

Base(whence) == CASE whence = "SEEK_SET" -> 0
                  [] whence = "SEEK_CUR" -> f.cursor
                  [] whence = "SEEK_END" -> f.size

So_fseek(whence, off) ==
  /\ Base(whence) + off \in (-1)..(MaxSize+1)
  /\ Begin([NoCall EXCEPT !.op = "fseek", !.target = Base(whence) + off], IfDirty)
  /\ UNCHANGED <<file, offset, mode, f, phase, failed>>

FseekFlushFailed ==
  /\ Running({"fseek"}) /\ call.rc < 0
  /\ f' = [f EXCEPT !.err_ind = call.rc]
  /\ Return(call.rc, <<>>)
  /\ UNCHANGED <<file, offset, mode, phase, failed>>

\* Faulty variant: the buffered chunk stays valid although it may be stale.
SoughtKeepsChunk(at) == [f EXCEPT !.cursor = at]

\* The stream after a so_fseek to at: the next so_fgetc reads its chunk again.
Sought(at) == [f EXCEPT !.cursor = at, !.chunk_number = -1]

FseekMoves ==
  /\ Running({"fseek"}) /\ call.rc = 0
  /\ call.target \in 0..f.size
  /\ f' = Sought(call.target)
  /\ offset' = call.target
  /\ phase' = "fresh"
  /\ Return(0, <<>>)
  /\ UNCHANGED <<file, mode, failed>>

FseekOutOfRange ==
  /\ Running({"fseek"}) /\ call.rc = 0
  /\ call.target \notin 0..f.size
  /\ f' = [f EXCEPT !.cursor = call.target]
  /\ phase' = "lost"
  /\ Return(-1, <<>>)
  /\ UNCHANGED <<file, offset, mode, failed>>

-----------------------------------------------------------------------------
\* so_fputc, and so_fwrite that calls it once per byte and ignores what it returns

\* pc of a put: so_fflush first when the buffer holds BUFFER_SIZE - 1 bytes.
IfFull == IF f.last_op = "w" /\ f.buffer_pos = BUFFER_SIZE - 1 THEN "flush" ELSE "body"

\* Faulty variant: buffer_pos still counts the bytes of the last chunk read.
EmptiedNever == f

\* A put after reads starts an empty buffer.
Emptied == [f EXCEPT !.buffer_pos = IF f.last_op = "r" THEN 0 ELSE @]

So_fputc(c) ==
  /\ CanWrite
  /\ f.size < MaxSize
  /\ Begin([NoCall EXCEPT !.op = "fputc", !.c = c], IfFull)
  /\ f' = Emptied
  /\ phase' = "writing"
  /\ UNCHANGED <<file, offset, mode, failed>>

So_fwrite(n) ==
  /\ CanWrite
  /\ f.size + n <= MaxSize
  /\ Begin([NoCall EXCEPT !.op = "fwrite", !.want = n], "loop")
  /\ phase' = "writing"
  /\ UNCHANGED <<file, offset, mode, f, failed>>

FwriteNext(c) ==
  /\ Looping("fwrite") /\ call.cnt < call.want
  /\ call' = [call EXCEPT !.c = c]
  /\ pc' = IfFull
  /\ f' = Emptied
  /\ UNCHANGED <<file, offset, mode, phase, failed, ret>>

FwriteReturns ==
  /\ Looping("fwrite") /\ call.cnt = call.want
  /\ Return(call.want, <<>>)
  /\ UNCHANGED <<file, offset, mode, f, phase, failed>>

\* Faulty variant: so_fwrite tries a byte again until it was put.
AfterPutRetries(rc) ==
  IF call.op = "fputc" THEN Return(rc, <<>>)
  ELSE /\ call' = [call EXCEPT !.cnt = IF rc < 0 THEN @ ELSE @ + 1, !.rc = 0]
       /\ pc' = "loop"
       /\ UNCHANGED ret

\* so_fputc returns rc to its caller; so_fwrite counts the byte either way.
AfterPut(rc) ==
  IF call.op = "fputc" THEN Return(rc, <<>>)
  ELSE /\ call' = [call EXCEPT !.cnt = @ + 1, !.rc = 0]
       /\ pc' = "loop"
       /\ UNCHANGED ret

FputcFlushFailed ==
  /\ Running({"fputc", "fwrite"}) /\ call.rc < 0
  /\ f' = [f EXCEPT !.err_ind = call.rc]
  /\ AfterPut(call.rc)
  /\ UNCHANGED <<file, offset, mode, phase, failed>>

\* Faulty variant: size does not follow the puts.
StoredUncounted ==
  [f EXCEPT !.buffer[f.buffer_pos] = call.c, !.buffer_pos = @ + 1,
            !.cursor = @ + 1, !.last_op = "w"]

Stored ==
  [f EXCEPT !.buffer[f.buffer_pos] = call.c, !.buffer_pos = @ + 1,
            !.cursor = @ + 1, !.size = @ + 1, !.last_op = "w"]

FputcStores ==
  /\ Running({"fputc", "fwrite"}) /\ call.rc = 0
  /\ f' = Stored
  /\ AfterPut(0)
  /\ UNCHANGED <<file, offset, mode, phase, failed>>

-----------------------------------------------------------------------------
\* so_fgetc, and so_fread that calls it once per byte

So_fgetc ==
  /\ CanRead
  /\ Begin([NoCall EXCEPT !.op = "fgetc", !.start = f.cursor, !.want = 1], IfDirty)
  /\ phase' = "reading"
  /\ UNCHANGED <<file, offset, mode, f, failed>>

So_fread(n) ==
  /\ CanRead
  /\ FreadAnywhere \/ f.cursor = 0 \/ f.cursor + n <= Len(file)
  /\ Begin([NoCall EXCEPT !.op = "fread", !.start = f.cursor, !.want = n], "loop")
  /\ phase' = "reading"
  /\ UNCHANGED <<file, offset, mode, f, failed>>

FreadNext ==
  /\ Looping("fread") /\ Len(call.out) < call.want
  /\ pc' = IfDirty
  /\ UNCHANGED <<file, offset, mode, f, call, phase, failed, ret>>

FreadReturns ==
  /\ Looping("fread") /\ Len(call.out) = call.want
  /\ Return(call.want, call.out)
  /\ UNCHANGED <<file, offset, mode, f, phase, failed>>

\* SO_EOF out of so_fgetc; so_fread gives up only on the -2 of a failed read.
GetcEof(g) ==
  CASE call.op = "fgetc" -> Return(SO_EOF, <<>>)
    [] call.op = "fread" /\ g.err_ind = -2 -> Return(0, <<>>)
    [] OTHER -> pc' = "refill" /\ call' = [call EXCEPT !.rc = 0] /\ UNCHANGED ret

InGetc == Running({"fgetc", "fread"}) /\ call.rc = 0
Chunk  == f.cursor \div BUFFER_SIZE
\* Faulty variant: the place of the byte after the cursor.
IndexAhead == (f.cursor + 1) % BUFFER_SIZE
Index  == f.cursor % BUFFER_SIZE

\* How many bytes a read of a whole buffer at offset at may return.
ReadCounts(at) ==
  LET left  == Larger(0, Len(file) - at)
      whole == Smaller(left, BUFFER_SIZE)
  IN  IF ShortReads /\ whole > 0 THEN 1..whole ELSE {whole}

\* The buffer after a read of k bytes at offset at.
Filled(at, k) ==
  [i \in 0..BUFFER_SIZE-1 |-> IF i < k THEN file[at + i + 1] ELSE f.buffer[i]]

FgetcFlushFailed ==
  /\ Running({"fgetc", "fread"}) /\ call.rc < 0
  /\ GetcEof(f)
  /\ UNCHANGED <<file, offset, mode, f, phase, failed>>

FgetcLoads ==
  LET at == BUFFER_SIZE * Chunk IN
  /\ InGetc /\ Chunk # f.chunk_number
  /\ Readable
  /\ \E k \in ReadCounts(at) :
       /\ offset' = at + k
       /\ f' = [f EXCEPT !.chunk_number = Chunk, !.buffer = Filled(at, k),
                         !.buffer_pos = k, !.eof = IF k = 0 THEN 1 ELSE @]
       /\ IF k = 0 THEN GetcEof(f') ELSE UNCHANGED <<pc, call, ret>>
  /\ UNCHANGED <<file, mode, phase, failed>>

FgetcLoadFails ==
  /\ InGetc /\ Chunk # f.chunk_number
  /\ Faults \/ ~Readable
  /\ offset' = BUFFER_SIZE * Chunk
  /\ f' = [f EXCEPT !.chunk_number = Chunk, !.buffer_pos = -1, !.err_ind = -2]
  /\ failed' = TRUE
  /\ GetcEof(f')
  /\ UNCHANGED <<file, mode, phase>>

FgetcPastBuffer ==
  /\ InGetc /\ Chunk = f.chunk_number
  /\ Index >= f.buffer_pos
  /\ f' = [f EXCEPT !.eof = 1, !.err_ind = SO_EOF]
  /\ GetcEof(f')
  /\ UNCHANGED <<file, offset, mode, phase, failed>>

FgetcTakes ==
  LET byte == f.buffer[Index] IN
  /\ InGetc /\ Chunk = f.chunk_number
  /\ Index < f.buffer_pos
  /\ f' = [f EXCEPT !.last_op = "r", !.cursor = @ + 1]
  /\ IF call.op = "fgetc" THEN Return(0, <<byte>>)
     ELSE /\ call' = [call EXCEPT !.out = Append(@, byte)]
          /\ pc' = "loop"
          /\ UNCHANGED ret
  /\ UNCHANGED <<file, offset, mode, phase, failed>>

\* After SO_EOF so_fread seeks to cnt, the bytes it has copied, and reads there.
FreadRefills ==
  LET cnt == Len(call.out) IN
  /\ pc = "refill" /\ Readable
  /\ \E k \in ReadCounts(cnt) :
       LET m == Smaller(k, call.want - cnt - 1) IN
       /\ offset' = cnt + k
       /\ IF k = 0
          THEN /\ f' = [f EXCEPT !.eof = 1]
               /\ Return(cnt, call.out)
          ELSE /\ f' = [f EXCEPT !.eof = 0, !.buffer = Filled(cnt, k), !.buffer_pos = 0,
                                 !.cursor = @ + m, !.chunk_number = -1]
               /\ call' = [call EXCEPT !.out = @ \o [j \in 1..m |-> file[cnt + j]]]
               /\ pc' = "loop"
               /\ UNCHANGED ret
  /\ UNCHANGED <<file, mode, phase, failed>>

FreadRefillFails ==
  /\ pc = "refill" /\ (Faults \/ ~Readable)
  /\ offset' = Len(call.out)
  /\ f' = [f EXCEPT !.err_ind = SO_EOF]
  /\ failed' = TRUE
  /\ Return(0, <<>>)
  /\ UNCHANGED <<file, mode, phase>>

-----------------------------------------------------------------------------
Init ==
  /\ file \in Contents
  /\ offset = 0
  /\ mode = "closed"
  /\ f = NewStream(0)
  /\ pc = "idle"
  /\ call = NoCall
  /\ phase = "fresh"
  /\ failed = FALSE
  /\ ret = NoRet

\* What the program that uses the library may call.
Caller ==
  \/ \E m \in Modes : So_fopen(m)
  \/ So_fclose
  \/ "fflush" \in Ops /\ So_fflush
  \/ "fseek" \in Ops /\ \E w \in Whences, off \in -(MaxSize+1)..(MaxSize+1) : So_fseek(w, off)
  \/ "fgetc" \in Ops /\ So_fgetc
  \/ "fread" \in Ops /\ \E n \in 1..MaxRequest : So_fread(n)
  \/ "fputc" \in Ops /\ \E c \in Byte : So_fputc(c)
  \/ "fwrite" \in Ops /\ \E n \in 1..MaxRequest : So_fwrite(n)

FlushStep == (\E k \in 1..BUFFER_SIZE : SysWrite(k)) \/ SysWriteFails \/ FlushDone
SeekStep  == FseekFlushFailed \/ FseekMoves \/ FseekOutOfRange
PutStep   == (\E c \in Byte : FwriteNext(c)) \/ FwriteReturns \/ FputcFlushFailed \/ FputcStores
GetStep   == FgetcFlushFailed \/ FgetcLoads \/ FgetcLoadFails \/ FgetcPastBuffer \/ FgetcTakes
FreadStep == FreadNext \/ FreadReturns \/ FreadRefills \/ FreadRefillFails

Library == FlushStep \/ FcloseBody \/ FflushBody \/ SeekStep \/ PutStep \/ GetStep \/ FreadStep

Next == Caller \/ Library

Spec == Init /\ [][Next]_vars

\* The library call a thread is in goes on: system calls return.
FairSpec == Spec /\ WF_vars(Library)

=============================================================================
