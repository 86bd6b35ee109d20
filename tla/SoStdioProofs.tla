---------------------------- MODULE SoStdioProofs ----------------------------
(***************************************************************************)
(* Proofs about SoStdio for every buffer size, file, caller and pattern of *)
(* split, short and failing system calls: types and bounds of the buffer,  *)
(* what becomes of a failure, where puts land, what size counts, what the  *)
(* remembered chunk holds, and that every step is one of ByteStream or a   *)
(* stutter.                                                                *)
(***************************************************************************)
EXTENDS SoStdioProps, TLAPS, SequenceTheorems

-----------------------------------------------------------------------------
\* What so_fflush and read do to sequences of bytes.

\* write stores bytes in a file of bytes: the file stays one, holes included.
LEMMA OverwriteType ==
  ASSUME NEW s \in Seq(Byte), NEW at \in Nat, NEW bytes \in Seq(Byte)
  PROVE  Overwrite(s, at, bytes) \in Seq(Byte)
<1>1. CASE bytes = <<>>
  BY <1>1 DEF Overwrite
<1>2. CASE bytes # <<>>
  <2> DEFINE n == Larger(Len(s), at + Len(bytes))
  <2>1. n \in Nat
    BY DEF Larger
  <2>2. Overwrite(s, at, bytes) =
          [i \in 1..n |-> IF at < i /\ i <= at + Len(bytes) THEN bytes[i - at]
                          ELSE IF i <= Len(s) THEN s[i] ELSE 0]
    BY <1>2 DEF Overwrite
  <2>3. ASSUME NEW i \in 1..n
        PROVE  (IF at < i /\ i <= at + Len(bytes) THEN bytes[i - at]
                ELSE IF i <= Len(s) THEN s[i] ELSE 0) \in Byte
    BY <2>1, StreamAssumption
  <2> HIDE DEF n
  <2>4. Overwrite(s, at, bytes) \in [1..n -> Byte]
    BY <2>2, <2>3
  <2>5. QED
    BY <2>1, <2>4
<1>3. QED
  BY <1>1, <1>2

-----------------------------------------------------------------------------
(***************************************************************************)
(* The inductive invariant behind TypeOK and BufferUsedInBounds.           *)
(***************************************************************************)
\* buffer_pos counts bytes that are in the buffer; room for one more byte is left
\* after every put.
BufferInv ==
  /\ f.buffer_pos \in -1..BUFFER_SIZE
  /\ \A i \in 0..f.buffer_pos-1 : f.buffer[i] \in Byte
  /\ f.last_op = "w" => f.buffer_pos \in 0..BUFFER_SIZE-1
  /\ (Running({"fputc", "fwrite"}) /\ call.rc = 0) => f.buffer_pos \in 0..BUFFER_SIZE-2

\* so_fflush has written a part of what buffer_pos counts.
FlushInv ==
  /\ pc = "flush" => call.n = 0 \/ call.n \in 0..f.buffer_pos
  /\ pc # "flush" => call.n = 0

\* The cursor is negative only after a so_fseek that failed, and then the caller
\* transfers nothing.
CursorInv ==
  /\ phase # "lost" => f.cursor >= 0
  /\ call.op \in {"fgetc", "fread", "fputc", "fwrite"} => phase # "lost"

\* so_fgetc reads a chunk only when no byte waits to be written; so_fread calls
\* it, and reads on its own, only while bytes are missing.
GetInv ==
  /\ InGetc => f.last_op = "r"
  /\ (call.op = "fread" /\ pc \in {"flush", "body", "refill"}) => Len(call.out) < call.want
  /\ pc = "refill" => call.op = "fread"

IInv == TypeOK /\ BufferInv /\ FlushInv /\ CursorInv /\ GetInv

\* The bytes that write is given are bytes the stream holds.
LEMMA SliceType ==
  ASSUME IInv, NEW k \in 0..(f.buffer_pos - call.n)
  PROVE  Slice(call.n, k) \in Seq(Byte)
<1>1. call.n \in Nat /\ f.buffer_pos \in Int /\ k \in Nat
  BY DEF IInv, TypeOK, SoFile, Call, BufferInv
<1>2. ASSUME NEW j \in 1..k PROVE f.buffer[call.n + j - 1] \in Byte
  BY <1>1, <1>2 DEF IInv, BufferInv
<1>3. Slice(call.n, k) \in [1..k -> Byte]
  BY <1>2 DEF Slice
<1>4. QED
  BY <1>1, <1>3

\* A read of k bytes leaves k bytes of the file at the start of the buffer.
LEMMA FilledType ==
  ASSUME IInv, NEW at \in Nat, NEW k \in ReadCounts(at)
  PROVE  /\ k \in 0..BUFFER_SIZE
         /\ k > 0 => at + k <= Len(file)
         /\ Filled(at, k) \in Buffer
         /\ \A i \in 0..k-1 : Filled(at, k)[i] \in Byte
<1>1. Len(file) \in Nat
  BY DEF IInv, TypeOK
<1>2. k \in 0..BUFFER_SIZE /\ (k > 0 => at + k <= Len(file))
  BY <1>1, StreamAssumption DEF ReadCounts, Larger, Smaller
<1>3. ASSUME NEW i \in 0..BUFFER_SIZE-1, i < k PROVE file[at + i + 1] \in Byte
  BY <1>1, <1>2, <1>3, StreamAssumption DEF IInv, TypeOK
<1>4. f.buffer \in Buffer
  BY DEF IInv, TypeOK, SoFile
<1>5. ASSUME NEW i \in 0..BUFFER_SIZE-1
      PROVE  /\ Filled(at, k)[i] \in ByteOrUninit
             /\ i < k => Filled(at, k)[i] \in Byte
  <2>1. Filled(at, k)[i] = IF i < k THEN file[at + i + 1] ELSE f.buffer[i]
    BY <1>5 DEF Filled
  <2>2. f.buffer[i] \in ByteOrUninit
    BY <1>4, <1>5 DEF Buffer
  <2>3. QED
    BY <1>3, <1>5, <2>1, <2>2 DEF ByteOrUninit
<1>6. Filled(at, k) \in Buffer
  BY <1>5 DEF Filled, Buffer
<1>7. ASSUME NEW i \in 0..k-1 PROVE Filled(at, k)[i] \in Byte
  <2>1. i \in 0..BUFFER_SIZE-1 /\ i < k
    BY <1>2, <1>7, StreamAssumption
  <2>2. QED
    BY <1>5, <2>1
<1>8. QED
  BY <1>2, <1>6, <1>7

\* A stream just opened, no call and no result have their types.
LEMMA FreshTypes ==
  /\ \A size \in Nat : NewStream(size) \in SoFile
  /\ NoCall \in Call
  /\ NoRet \in Result
  /\ <<>> \in Bytes
<1>1. ASSUME NEW size \in Nat PROVE NewStream(size) \in SoFile
  <2>1. [i \in 0..BUFFER_SIZE-1 |-> Uninit] \in Buffer
    BY DEF Buffer, ByteOrUninit
  <2>2. QED
    BY <2>1 DEF NewStream, SoFile
<1>2. <<>> \in Bytes /\ 0 \in Byte
  BY StreamAssumption DEF Bytes
<1>3. NoCall \in Call
  BY <1>2 DEF NoCall, Call, Operation
<1>4. NoRet \in Result
  BY <1>2 DEF NoRet, Result, Operation
<1>5. QED
  BY <1>1, <1>2, <1>3, <1>4

\* Before so_fopen every variable has its type.
LEMMA InitIInv == Init => IInv
<1> SUFFICES ASSUME Init PROVE IInv
  OBVIOUS
<1>1. TypeOK
  <2>1. file \in Seq(Byte)
    BY StreamAssumption DEF Init
  <2>2. QED
    BY <2>1, FreshTypes DEF Init, TypeOK
<1>2. QED
  BY <1>1, StreamAssumption
     DEF Init, IInv, NewStream, NoCall, BufferInv, FlushInv, CursorInv, GetInv, InGetc, Running

-----------------------------------------------------------------------------
\* The calls the program makes.

\* The calling program begins calls and opens the stream.
LEMMA CallerKeepsIInv == IInv /\ Caller => IInv'
<1> SUFFICES ASSUME IInv, Caller PROVE IInv'
  OBVIOUS
<1> USE DEF IInv, BufferInv, FlushInv, CursorInv, GetInv, Running, InGetc
<1>a. /\ f.cursor \in Int /\ f.buffer_pos \in Int /\ f.size \in Nat /\ f.last_op \in {"r", "w"}
      /\ f \in SoFile
  BY DEF TypeOK, SoFile
<1>b. AllOps \cup {"fclose", "none"} = Operation
  BY DEF Operation
<1>1. ASSUME NEW m \in Modes, So_fopen(m) PROVE IInv'
  <2> DEFINE kept == IF m \in {"w", "w+"} THEN <<>> ELSE file
  <2>1. kept \in Seq(Byte)
    BY DEF TypeOK
  <2>2. f' = NewStream(Len(kept)) /\ file' = kept /\ mode' = m
    BY <1>1 DEF So_fopen
  <2> HIDE DEF kept
  <2>3. f' \in SoFile /\ m \in AllModes
    BY <2>1, <2>2, FreshTypes, StreamAssumption
  <2>4. TypeOK'
    BY <1>1, <2>1, <2>2, <2>3, FreshTypes DEF So_fopen, TypeOK
  <2>5. f'.buffer_pos = 0 /\ f'.cursor = 0 /\ f'.last_op = "r"
    BY <2>2 DEF NewStream
  <2>6. QED
    BY <1>1, <2>4, <2>5, StreamAssumption DEF So_fopen, TypeOK
<1>2. CASE So_fclose
  <2>1. call' \in Call
    BY <1>2, <1>b, FreshTypes DEF So_fclose, Begin, Call
  <2>2. TypeOK'
    BY <1>2, <2>1, FreshTypes DEF So_fclose, Begin, IfDirty, TypeOK
  <2>3. QED
    BY <1>2, <1>a, <2>2 DEF So_fclose, Begin, IfDirty, NoCall
<1>3. CASE So_fflush
  <2>1. call' \in Call
    BY <1>3, <1>b, FreshTypes DEF So_fflush, Begin, Call, AllOps
  <2>2. TypeOK'
    BY <1>3, <2>1, FreshTypes DEF So_fflush, Begin, TypeOK
  <2>3. QED
    BY <1>3, <1>a, <2>2 DEF So_fflush, Begin, NoCall
<1>4. ASSUME NEW w \in Whences, NEW off \in Int, So_fseek(w, off) PROVE IInv'
  <2>1. Base(w) + off \in Int
    BY <1>a, StreamAssumption DEF Base
  <2>2. call' \in Call
    BY <1>4, <1>b, <2>1, FreshTypes DEF So_fseek, Begin, Call, AllOps
  <2>3. TypeOK'
    BY <1>4, <2>2, FreshTypes DEF So_fseek, Begin, IfDirty, TypeOK
  <2>4. QED
    BY <1>4, <1>a, <2>3 DEF So_fseek, Begin, IfDirty, NoCall
<1>5. CASE So_fgetc
  <2>1. call' \in Call
    BY <1>5, <1>a, <1>b, FreshTypes DEF So_fgetc, Begin, Call, AllOps
  <2>2. TypeOK'
    BY <1>5, <2>1, FreshTypes DEF So_fgetc, Begin, IfDirty, TypeOK
  <2>3. QED
    BY <1>5, <1>a, <2>2 DEF So_fgetc, CanRead, Begin, IfDirty, NoCall
<1>6. ASSUME NEW n \in 1..MaxRequest, So_fread(n) PROVE IInv'
  <2>1. n \in Nat
    BY StreamAssumption
  <2>2. call' \in Call
    BY <1>6, <1>a, <1>b, <2>1, FreshTypes DEF So_fread, Begin, Call, AllOps
  <2>3. TypeOK'
    BY <1>6, <2>2, FreshTypes DEF So_fread, Begin, TypeOK
  <2>4. QED
    BY <1>6, <1>a, <2>3 DEF So_fread, CanRead, Begin, NoCall
<1>7. ASSUME NEW c \in Byte, So_fputc(c) PROVE IInv'
  <2>1. call' \in Call
    BY <1>7, <1>b, FreshTypes DEF So_fputc, Begin, Call, AllOps
  <2>2. f' \in SoFile
    BY <1>7, <1>a DEF So_fputc, Emptied, SoFile
  <2>3. TypeOK'
    BY <1>7, <2>1, <2>2, FreshTypes DEF So_fputc, Begin, IfFull, TypeOK
  <2>4. /\ f'.buffer = f.buffer /\ f'.last_op = f.last_op /\ f'.cursor = f.cursor
        /\ f'.buffer_pos = IF f.last_op = "r" THEN 0 ELSE f.buffer_pos
    BY <1>7, <1>a DEF So_fputc, Emptied, SoFile
  <2>5. BufferInv'
    BY <1>7, <1>a, <2>4, StreamAssumption DEF So_fputc, Begin, IfFull, NoCall
  <2>6. QED
    BY <1>7, <1>a, <2>3, <2>4, <2>5 DEF So_fputc, CanWrite, Begin, IfFull, NoCall
<1>8. ASSUME NEW n \in 1..MaxRequest, So_fwrite(n) PROVE IInv'
  <2>1. n \in Nat
    BY StreamAssumption
  <2>2. call' \in Call
    BY <1>8, <1>b, <2>1, FreshTypes DEF So_fwrite, Begin, Call, AllOps
  <2>3. TypeOK'
    BY <1>8, <2>2, FreshTypes DEF So_fwrite, Begin, TypeOK
  <2>4. QED
    BY <1>8, <1>a, <2>3 DEF So_fwrite, CanWrite, Begin, NoCall
<1>9. QED
  <2>1. MaxSize \in Nat
    BY StreamAssumption
  <2>2. QED
    BY <2>1, <1>1, <1>2, <1>3, <1>4, <1>5, <1>6, <1>7, <1>8 DEF Caller

-----------------------------------------------------------------------------
\* so_fflush and the bodies of the operations.

\* An emptied buffer keeps the stream's type.
LEMMA FlushedType ==
  ASSUME NEW g \in SoFile, NEW pos \in Int, NEW op \in {"r", "w"}
  PROVE  [g EXCEPT !.buffer_pos = pos, !.last_op = op] \in SoFile
BY DEF SoFile

\* The kernel never holds anything but bytes, however write splits the buffer.
LEMMA FlushKeepsIInv == IInv /\ FlushStep => IInv'
<1> SUFFICES ASSUME IInv, FlushStep PROVE IInv'
  OBVIOUS
<1> USE DEF IInv, BufferInv, FlushInv, CursorInv, GetInv, Running, InGetc
<1>a. /\ f.cursor \in Int /\ f.buffer_pos \in Int /\ f.last_op \in {"r", "w"} /\ f \in SoFile
      /\ call.n \in Nat /\ call \in Call
  BY DEF TypeOK, SoFile, Call
<1>1. ASSUME NEW k \in 1..BUFFER_SIZE, SysWrite(k) PROVE IInv'
  <2>1. k \in 0..(f.buffer_pos - call.n) /\ k \in Nat
    BY <1>1, <1>a DEF SysWrite
  <2>2. WriteAt \in Nat
    BY DEF WriteAt, TypeOK
  <2>3. file' \in Seq(Byte)
    <3>1. Slice(call.n, k) \in Seq(Byte)
      BY <2>1, SliceType
    <3>2. QED
      BY <1>1, <2>2, <3>1, OverwriteType DEF SysWrite, TypeOK
  <2>4. call.n + k \in Nat /\ WriteAt + k \in Nat
    BY <1>a, <2>1, <2>2
  <2>5. /\ call' \in Call /\ offset' \in Nat
        /\ call'.n = call.n + k /\ call'.op = call.op /\ call'.rc = call.rc
        /\ call'.want = call.want /\ call'.out = call.out
    BY <1>1, <1>a, <2>4 DEF SysWrite, Call
  <2>6. TypeOK'
    BY <1>1, <2>3, <2>5 DEF SysWrite, TypeOK
  <2>7. QED
    BY <1>1, <1>a, <2>1, <2>5, <2>6 DEF SysWrite
<1>2. CASE SysWriteFails
  <2>1. f' \in SoFile /\ f'.buffer_pos = f.buffer_pos /\ f'.buffer = f.buffer
        /\ f'.cursor = f.cursor /\ f'.last_op = f.last_op
    BY <1>2, <1>a DEF SysWriteFails, SoFile, SO_EOF
  <2>2. /\ call' \in Call /\ call'.n = 0 /\ call'.op = call.op /\ call'.rc = -1
        /\ call'.want = call.want /\ call'.out = call.out
    BY <1>2, <1>a DEF SysWriteFails, Call, SO_EOF
  <2>3. TypeOK'
    BY <1>2, <2>1, <2>2 DEF SysWriteFails, TypeOK
  <2>4. QED
    BY <1>2, <1>a, <2>1, <2>2, <2>3 DEF SysWriteFails
<1>3. CASE FlushDone
  <2>1. f' \in SoFile
    <3>1. f' = [f EXCEPT !.buffer_pos = 0, !.last_op = "r"] /\ f \in SoFile
      BY <1>3, <1>a DEF FlushDone, Flushed
    <3>2. 0 \in Int /\ "r" \in {"r", "w"}
      OBVIOUS
    <3>3. QED
      BY <3>1, <3>2, FlushedType, Zenon
  <2>a. f'.buffer_pos = 0 /\ f'.cursor = f.cursor /\ f'.last_op = "r"
    BY <1>3, <1>a DEF FlushDone, Flushed, SoFile
  <2>2. /\ call' \in Call /\ call'.n = 0 /\ call'.op = call.op
        /\ call'.want = call.want /\ call'.out = call.out
    BY <1>3, <1>a DEF FlushDone, Call
  <2>3. TypeOK'
    BY <1>3, <2>1, <2>2 DEF FlushDone, TypeOK
  <2>4. QED
    BY <1>3, <2>a, <2>2, <2>3, StreamAssumption DEF FlushDone
<1>4. QED
  BY <1>1, <1>2, <1>3 DEF FlushStep

\* Leaving a library call.
LEMMA ReturnTypes ==
  ASSUME TypeOK, NEW rc \in Int, NEW out \in Bytes, Return(rc, out)
  PROVE  /\ ret' \in Result /\ call' \in Call /\ pc' = "idle"
         /\ call'.op = "none" /\ call'.n = 0
<1>1. call.op \in Operation /\ call.want \in Nat
  BY DEF TypeOK, Call
<1>2. QED
  BY <1>1, FreshTypes DEF Return, Result, NoCall

\* so_fclose and so_fflush after their write.
LEMMA CloseAndFlushKeepIInv == IInv /\ (FcloseBody \/ FflushBody) => IInv'
<1> SUFFICES ASSUME IInv, FcloseBody \/ FflushBody PROVE IInv'
  OBVIOUS
<1> USE DEF IInv, BufferInv, FlushInv, CursorInv, GetInv, InGetc
<1>a. call.rc \in Int /\ <<>> \in Bytes /\ f.cursor \in Int
  BY FreshTypes DEF TypeOK, Call, SoFile
<1>1. CASE FcloseBody
  <2>1. /\ ret' \in Result /\ call' \in Call /\ pc' = "idle"
        /\ call'.op = "none" /\ call'.n = 0
    BY <1>a, <1>1, ReturnTypes DEF FcloseBody
  <2>2. f' \in SoFile /\ f'.buffer_pos = 0 /\ f'.cursor = 0 /\ f'.last_op = "r"
    BY <1>1, FreshTypes DEF FcloseBody, NewStream
  <2>3. TypeOK'
    BY <1>1, <2>1, <2>2 DEF FcloseBody, TypeOK
  <2>4. QED
    BY <1>1, <2>1, <2>2, <2>3, StreamAssumption DEF FcloseBody, Running
<1>2. CASE FflushBody
  <2>1. /\ ret' \in Result /\ call' \in Call /\ pc' = "idle"
        /\ call'.op = "none" /\ call'.n = 0
    BY <1>a, <1>2, ReturnTypes DEF FflushBody
  <2>2. TypeOK'
    BY <1>2, <2>1 DEF FflushBody, TypeOK
  <2>3. QED
    BY <1>2, <1>a, <2>1, <2>2 DEF FflushBody, Running
<1>3. QED
  BY <1>1, <1>2

\* so_fseek after its flush.
LEMMA SeekKeepsIInv == IInv /\ SeekStep => IInv'
<1> SUFFICES ASSUME IInv, SeekStep PROVE IInv'
  OBVIOUS
<1> USE DEF IInv, BufferInv, FlushInv, CursorInv, GetInv, InGetc
<1>a. /\ call.rc \in {0, -1} /\ call.target \in Int /\ <<>> \in Bytes /\ -1 \in Int
      /\ f \in SoFile /\ f.size \in Nat /\ f.buffer_pos \in Int
  BY FreshTypes DEF TypeOK, Call, SoFile
<1>b. /\ ret' \in Result /\ call' \in Call /\ pc' = "idle" /\ call'.op = "none" /\ call'.n = 0
  <2>1. TypeOK /\ \E rc \in {0, -1} : Return(rc, <<>>)
    BY <1>a DEF SeekStep, FseekFlushFailed, FseekMoves, FseekOutOfRange
  <2>2. QED
    BY <1>a, <2>1, ReturnTypes
<1>1. CASE FseekFlushFailed
  <2>1. /\ f' \in SoFile /\ f'.buffer_pos = f.buffer_pos /\ f'.buffer = f.buffer
        /\ f'.cursor = f.cursor /\ f'.last_op = f.last_op
    BY <1>1, <1>a DEF FseekFlushFailed, SoFile
  <2>2. TypeOK'
    BY <1>1, <1>b, <2>1 DEF FseekFlushFailed, TypeOK
  <2>3. QED
    BY <1>1, <1>b, <2>1, <2>2 DEF FseekFlushFailed, Running
<1>2. CASE FseekMoves
  <2>1. /\ f' \in SoFile /\ f'.buffer_pos = f.buffer_pos /\ f'.buffer = f.buffer
        /\ f'.cursor = call.target /\ f'.last_op = f.last_op
    BY <1>2, <1>a DEF FseekMoves, Sought, SoFile
  <2>2. call.target \in Nat
    BY <1>2, <1>a DEF FseekMoves
  <2>3. TypeOK'
    BY <1>2, <1>b, <2>1, <2>2 DEF FseekMoves, TypeOK
  <2>4. QED
    BY <1>2, <1>b, <2>1, <2>2, <2>3 DEF FseekMoves, Running
<1>3. CASE FseekOutOfRange
  <2>1. /\ f' \in SoFile /\ f'.buffer_pos = f.buffer_pos /\ f'.buffer = f.buffer
        /\ f'.last_op = f.last_op
    BY <1>3, <1>a DEF FseekOutOfRange, SoFile
  <2>2. TypeOK'
    BY <1>3, <1>b, <2>1 DEF FseekOutOfRange, TypeOK
  <2>3. QED
    BY <1>3, <1>b, <2>1, <2>2 DEF FseekOutOfRange, Running
<1>4. QED
  BY <1>1, <1>2, <1>3 DEF SeekStep

\* so_fputc and so_fwrite: one byte at a time, each with room in the buffer.
LEMMA PutKeepsIInv == IInv /\ PutStep => IInv'
<1> SUFFICES ASSUME IInv, PutStep PROVE IInv'
  OBVIOUS
<1> USE DEF IInv, BufferInv, FlushInv, CursorInv, GetInv, Running, InGetc
<1>a. /\ call \in Call /\ call.rc \in {0, -1} /\ call.c \in Byte /\ call.cnt \in Nat
      /\ call.want \in Nat /\ <<>> \in Bytes
      /\ f \in SoFile /\ f.size \in Nat /\ f.buffer_pos \in Int /\ f.cursor \in Int
      /\ f.buffer \in Buffer /\ f.last_op \in {"r", "w"}
  BY FreshTypes DEF TypeOK, Call, SoFile
<1>b. ASSUME NEW rc \in {0, -1}, AfterPut(rc), Running({"fputc", "fwrite"})
      PROVE  /\ ret' \in Result /\ call' \in Call /\ pc' \in {"idle", "loop"}
             /\ call'.n = 0 /\ call'.op \in {"none", "fwrite"}
  <2>1. CASE call.op = "fputc"
    <3>1. rc \in Int /\ Return(rc, <<>>)
      BY <1>b, <2>1 DEF AfterPut
    <3>2. QED
      BY <1>a, <3>1, ReturnTypes
  <2>2. CASE call.op # "fputc"
    <3>1. call.cnt + 1 \in Nat /\ call.op = "fwrite" /\ call.n = 0
      BY <1>a, <1>b, <2>2
    <3>2. call' = [call EXCEPT !.cnt = call.cnt + 1, !.rc = 0] /\ pc' = "loop" /\ ret' = ret
      BY <1>b, <2>2 DEF AfterPut
    <3>3. call' \in Call
      BY <1>a, <3>1, <3>2 DEF Call
    <3>4. call'.n = 0 /\ call'.op = "fwrite"
      BY <1>a, <3>1, <3>2 DEF Call
    <3>5. QED
      BY <3>2, <3>3, <3>4 DEF TypeOK
  <2>3. QED
    BY <2>1, <2>2
<1>1. ASSUME NEW c \in Byte, FwriteNext(c) PROVE IInv'
  <2>1. /\ call' \in Call /\ call'.n = call.n /\ call'.op = call.op /\ call'.rc = call.rc
    BY <1>1, <1>a DEF FwriteNext, Call
  <2>2. f' \in SoFile
    BY <1>1, <1>a DEF FwriteNext, Emptied, SoFile
  <2>3. /\ f'.buffer = f.buffer /\ f'.last_op = f.last_op /\ f'.cursor = f.cursor
        /\ f'.buffer_pos = IF f.last_op = "r" THEN 0 ELSE f.buffer_pos
    BY <1>1, <1>a DEF FwriteNext, Emptied, SoFile
  <2>4. TypeOK'
    BY <1>1, <2>1, <2>2 DEF FwriteNext, IfFull, TypeOK
  <2>5. BufferInv'
    BY <1>1, <1>a, <2>1, <2>3, StreamAssumption DEF FwriteNext, Looping, IfFull
  <2>6. QED
    BY <1>1, <1>a, <2>1, <2>3, <2>4, <2>5 DEF FwriteNext, Looping, IfFull
<1>2. CASE FwriteReturns
  <2>1. /\ ret' \in Result /\ call' \in Call /\ pc' = "idle"
        /\ call'.op = "none" /\ call'.n = 0
    BY <1>a, <1>2, ReturnTypes DEF FwriteReturns
  <2>2. TypeOK'
    BY <1>2, <2>1 DEF FwriteReturns, TypeOK
  <2>3. QED
    BY <1>2, <1>a, <2>1, <2>2 DEF FwriteReturns
<1>3. CASE FputcFlushFailed
  <2>1. call.rc = -1 /\ AfterPut(call.rc) /\ Running({"fputc", "fwrite"})
    BY <1>3, <1>a DEF FputcFlushFailed
  <2>2. /\ ret' \in Result /\ call' \in Call /\ pc' \in {"idle", "loop"}
        /\ call'.n = 0 /\ call'.op \in {"none", "fwrite"}
    BY <1>a, <1>b, <2>1
  <2>3. /\ f' \in SoFile /\ f'.buffer_pos = f.buffer_pos /\ f'.buffer = f.buffer
        /\ f'.cursor = f.cursor /\ f'.last_op = f.last_op
    BY <1>3, <1>a DEF FputcFlushFailed, SoFile
  <2>4. TypeOK'
    BY <1>3, <2>2, <2>3 DEF FputcFlushFailed, TypeOK
  <2>5. QED
    BY <1>3, <1>a, <2>2, <2>3, <2>4 DEF FputcFlushFailed
<1>4. CASE FputcStores
  <2>1. f.buffer_pos \in 0..BUFFER_SIZE-2 /\ AfterPut(0) /\ Running({"fputc", "fwrite"})
    BY <1>4 DEF FputcStores
  <2> DEFINE b == [f.buffer EXCEPT ![f.buffer_pos] = call.c]
  <2>2. b \in Buffer
    BY <1>a, <2>1, StreamAssumption DEF Buffer, ByteOrUninit
  <2>3. \A i \in 0..f.buffer_pos : b[i] \in Byte
    BY <1>a, <2>1, StreamAssumption DEF Buffer
  <2>4. f' = [f EXCEPT !.buffer = b, !.buffer_pos = f.buffer_pos + 1, !.cursor = f.cursor + 1,
                       !.size = f.size + 1, !.last_op = "w"]
    BY <1>4, <1>a DEF FputcStores, Stored, SoFile
  <2> HIDE DEF b
  <2>5. f.buffer_pos + 1 \in Int /\ f.cursor + 1 \in Int /\ f.size + 1 \in Nat
    BY <1>a
  <2>6. f' \in SoFile
    BY <1>a, <2>2, <2>4, <2>5 DEF SoFile
  <2>7. /\ f'.buffer = b /\ f'.buffer_pos = f.buffer_pos + 1 /\ f'.cursor = f.cursor + 1
        /\ f'.last_op = "w"
    BY <1>a, <2>4 DEF SoFile
  <2>8. /\ ret' \in Result /\ call' \in Call /\ pc' \in {"idle", "loop"}
        /\ call'.n = 0 /\ call'.op \in {"none", "fwrite"}
    BY <1>b, <2>1
  <2>9. TypeOK'
    BY <1>4, <2>6, <2>8 DEF FputcStores, TypeOK
  <2>10. BufferInv'
    <3>1. \A i \in 0..f'.buffer_pos-1 : f'.buffer[i] \in Byte
      BY <1>a, <2>3, <2>7
    <3>2. f'.buffer_pos \in 0..BUFFER_SIZE-1
      BY <2>1, <2>7, StreamAssumption
    <3>3. QED
      BY <2>8, <3>1, <3>2, StreamAssumption
  <2>11. QED
    BY <1>4, <1>a, <2>7, <2>8, <2>9, <2>10 DEF FputcStores
<1>5. QED
  BY <1>1, <1>2, <1>3, <1>4 DEF PutStep

\* The arithmetic of so_fgetc: the chunk a cursor is in and its place there.
LEMMA ChunkTypes ==
  ASSUME NEW c \in Nat, NEW b \in Nat \ {0}
  PROVE  c \div b \in Nat /\ c % b \in 0..b-1 /\ b * (c \div b) \in Nat
<1>1. c \div b \in Nat
  OBVIOUS
<1>2. c % b \in 0..b-1
  OBVIOUS
<1>3. b * (c \div b) \in Nat
  BY <1>1
<1>4. QED
  BY <1>1, <1>2, <1>3

\* Where a read takes its byte is a slot of the buffer.
LEMMA IndexTypes ==
  ASSUME IInv, call.op \in {"fgetc", "fread"}
  PROVE  Chunk \in Nat /\ Index \in 0..BUFFER_SIZE-1 /\ BUFFER_SIZE * Chunk \in Nat
<1>1. f.cursor \in Nat
  BY DEF IInv, TypeOK, SoFile, CursorInv
<1>2. BUFFER_SIZE \in Nat \ {0}
  BY StreamAssumption
<1>3. QED
  BY <1>1, <1>2, ChunkTypes DEF Chunk, Index

\* so_fgetc out of data: it returns, or so_fread goes on to read by itself.
LEMMA GetcEofTypes ==
  ASSUME IInv, NEW g, GetcEof(g), Running({"fgetc", "fread"})
  PROVE  /\ ret' \in Result /\ call' \in Call /\ call'.n = 0
         /\ \/ pc' = "idle" /\ call'.op = "none"
            \/ /\ pc' = "refill" /\ call'.op = "fread" /\ call.op = "fread"
               /\ call'.out = call.out /\ call'.want = call.want
<1>1. /\ call \in Call /\ <<>> \in Bytes /\ SO_EOF \in Int /\ 0 \in Int /\ call.n = 0
      /\ call.op \in {"fgetc", "fread"} /\ TypeOK /\ ret \in Result
  BY FreshTypes DEF IInv, TypeOK, SO_EOF, FlushInv, Running
<1>2. CASE Return(SO_EOF, <<>>) \/ Return(0, <<>>)
  BY <1>1, <1>2, ReturnTypes
<1>3. CASE pc' = "refill" /\ call' = [call EXCEPT !.rc = 0] /\ ret' = ret /\ call.op = "fread"
  BY <1>1, <1>3 DEF Call
<1>4. QED
  BY <1>1, <1>2, <1>3 DEF GetcEof

\* A byte taken is one that was stored.
LEMMA TakenType ==
  ASSUME NEW g \in SoFile, NEW op \in {"r", "w"}, NEW cursor \in Int
  PROVE  [g EXCEPT !.last_op = op, !.cursor = cursor] \in SoFile
BY DEF SoFile

\* so_fgetc, called by the program or by so_fread.
LEMMA GetKeepsIInv == IInv /\ GetStep => IInv'
<1> SUFFICES ASSUME IInv, GetStep PROVE IInv'
  OBVIOUS
<1> USE DEF IInv, BufferInv, FlushInv, CursorInv, GetInv, Running, InGetc
<1>a. /\ call \in Call /\ call.rc \in {0, -1} /\ call.n = 0 /\ call.out \in Bytes
      /\ call.op \in {"fgetc", "fread"} /\ pc = "body" /\ phase # "lost"
      /\ f \in SoFile /\ f.buffer_pos \in Int /\ f.cursor \in Nat
      /\ f.buffer \in Buffer /\ f.last_op \in {"r", "w"}
  <2>1. pc = "body" /\ call.op \in {"fgetc", "fread"}
    BY DEF GetStep, FgetcFlushFailed, FgetcLoads, FgetcLoadFails, FgetcPastBuffer, FgetcTakes
  <2>2. f \in SoFile /\ call \in Call
    BY DEF TypeOK
  <2>3. phase # "lost" /\ f.cursor \in Nat /\ call.n = 0
    BY <2>1, <2>2 DEF SoFile
  <2>4. QED
    BY <2>1, <2>2, <2>3 DEF Call, SoFile
<1>b. Chunk \in Nat /\ Index \in 0..BUFFER_SIZE-1 /\ BUFFER_SIZE * Chunk \in Nat
  BY <1>a, IndexTypes
<1>c. ASSUME NEW g, GetcEof(g), TypeOK', BufferInv',
             f'.cursor = f.cursor, f'.last_op = f.last_op, phase' = phase
      PROVE  IInv'
  <2>1. /\ call'.n = 0
        /\ \/ pc' = "idle" /\ call'.op = "none"
           \/ /\ pc' = "refill" /\ call'.op = "fread" /\ call.op = "fread"
              /\ call'.out = call.out /\ call'.want = call.want
    BY <1>a, <1>c, GetcEofTypes
  <2>2. call.op = "fread" => Len(call.out) < call.want
    BY <1>a
  <2>3. FlushInv' /\ CursorInv'
    BY <1>a, <1>c, <2>1
  <2>4. GetInv'
    BY <1>c, <2>1, <2>2
  <2>5. QED
    BY <1>c, <2>3, <2>4
<1>d. ASSUME NEW g, GetcEof(g)
      PROVE  /\ ret' \in Result /\ call' \in Call /\ pc' \in {"idle", "refill"}
  BY <1>a, <1>d, GetcEofTypes
<1>1. CASE FgetcFlushFailed
  <2>1. GetcEof(f) /\ UNCHANGED <<f, phase>>
    BY <1>1 DEF FgetcFlushFailed
  <2>2. TypeOK'
    BY <1>1, <1>d, <2>1 DEF FgetcFlushFailed, TypeOK
  <2>3. BufferInv'
    BY <1>a, <1>d, <2>1
  <2>4. QED
    BY <1>c, <2>1, <2>2, <2>3
<1>2. CASE FgetcLoads
  <2>1. PICK k \in ReadCounts(BUFFER_SIZE * Chunk) :
          /\ offset' = BUFFER_SIZE * Chunk + k
          /\ f' = [f EXCEPT !.chunk_number = Chunk, !.buffer = Filled(BUFFER_SIZE * Chunk, k),
                            !.buffer_pos = k, !.eof = IF k = 0 THEN 1 ELSE f.eof]
          /\ IF k = 0 THEN GetcEof(f') ELSE UNCHANGED <<pc, call, ret>>
    BY <1>2, <1>a DEF FgetcLoads, SoFile
  <2> DEFINE b == Filled(BUFFER_SIZE * Chunk, k)
  <2>2. /\ k \in 0..BUFFER_SIZE /\ b \in Buffer
        /\ \A i \in 0..k-1 : b[i] \in Byte
    BY <1>b, FilledType
  <2>3. f' = [f EXCEPT !.chunk_number = Chunk, !.buffer = b,
                       !.buffer_pos = k, !.eof = IF k = 0 THEN 1 ELSE f.eof]
    BY <2>1
  <2> HIDE DEF b
  <2>4. /\ k \in Int /\ (IF k = 0 THEN 1 ELSE f.eof) \in {0, 1} /\ Chunk \in Int
        /\ offset' \in Nat
    BY <1>a, <1>b, <2>1, <2>2, StreamAssumption, SMTT(20) DEF SoFile
  <2>5. f' \in SoFile
    BY <1>a, <2>2, <2>3, <2>4 DEF SoFile
  <2>6. /\ f'.buffer = b /\ f'.buffer_pos = k /\ f'.cursor = f.cursor
        /\ f'.last_op = f.last_op
    BY <1>a, <2>3 DEF SoFile
  <2>7. /\ call.rc = 0 /\ f.last_op = "r" /\ UNCHANGED <<file, mode, phase, failed>>
    BY <1>2, <1>a DEF FgetcLoads
  <2>8. ret' \in Result /\ call' \in Call /\ pc' \in {"idle", "refill", "body"}
    BY <1>a, <1>d, <2>1 DEF TypeOK
  <2>9. TypeOK'
    BY <2>4, <2>5, <2>7, <2>8 DEF TypeOK
  <2>10. BufferInv'
    <3>1. ~Running({"fputc", "fwrite"})'
      BY <1>a, <1>d, <2>1
    <3>2. k \in -1..BUFFER_SIZE
      BY <2>2, StreamAssumption
    <3>3. QED
      BY <2>2, <2>6, <2>7, <3>1, <3>2
  <2>11. CASE k = 0
    BY <1>c, <2>1, <2>6, <2>7, <2>9, <2>10, <2>11
  <2>12. CASE k # 0
    BY <1>a, <2>1, <2>6, <2>7, <2>9, <2>10, <2>12
  <2>13. QED
    BY <2>11, <2>12
<1>3. CASE FgetcLoadFails
  <2>1. GetcEof(f') /\ phase' = phase /\ f.last_op = "r"
    BY <1>3, <1>a DEF FgetcLoadFails
  <2>2. /\ Chunk \in Int /\ -1 \in Int /\ -2 \in {0, -1, -2} /\ offset' \in Nat
    BY <1>3, <1>b DEF FgetcLoadFails
  <2>3. f' \in SoFile
    BY <1>3, <1>a, <2>2 DEF FgetcLoadFails, SoFile
  <2>4. /\ f'.buffer_pos = -1 /\ f'.cursor = f.cursor /\ f'.last_op = f.last_op
    BY <1>3, <1>a DEF FgetcLoadFails, SoFile
  <2>5. TypeOK'
    BY <1>3, <1>d, <2>1, <2>2, <2>3 DEF FgetcLoadFails, TypeOK
  <2>6. BufferInv'
    BY <1>d, <2>1, <2>4, StreamAssumption
  <2>7. QED
    BY <1>c, <2>1, <2>4, <2>5, <2>6
<1>4. CASE FgetcPastBuffer
  <2>1. GetcEof(f') /\ phase' = phase
    BY <1>4 DEF FgetcPastBuffer
  <2>2. f' \in SoFile
    BY <1>4, <1>a DEF FgetcPastBuffer, SoFile, SO_EOF
  <2>3. /\ f'.buffer_pos = f.buffer_pos /\ f'.buffer = f.buffer /\ f'.cursor = f.cursor
        /\ f'.last_op = f.last_op
    BY <1>4, <1>a DEF FgetcPastBuffer, SoFile
  <2>4. TypeOK'
    BY <1>4, <1>d, <2>1, <2>2 DEF FgetcPastBuffer, TypeOK
  <2>5. BufferInv'
    BY <1>a, <1>d, <2>1, <2>3
  <2>6. QED
    BY <1>c, <2>1, <2>3, <2>4, <2>5
<1>5. CASE FgetcTakes
  <2> DEFINE byte == f.buffer[Index]
  <2>1. byte \in Byte
    BY <1>5, <1>a, <1>b DEF FgetcTakes
  <2>2. f' = [f EXCEPT !.last_op = "r", !.cursor = f.cursor + 1] /\ f.cursor + 1 \in Nat
    BY <1>5, <1>a DEF FgetcTakes, SoFile
  <2>3. f' \in SoFile
    <3>1. f.cursor + 1 \in Int /\ "r" \in {"r", "w"} /\ f \in SoFile
      BY <1>a
    <3>2. f' = [f EXCEPT !.last_op = "r", !.cursor = f.cursor + 1]
      BY <2>2
    <3>3. QED
      BY <3>1, <3>2, TakenType, Zenon
  <2>4. /\ f'.buffer_pos = f.buffer_pos /\ f'.buffer = f.buffer /\ f'.cursor = f.cursor + 1
        /\ f'.last_op = "r"
    BY <1>a, <2>2 DEF SoFile
  <2>5. /\ ret' \in Result /\ call' \in Call /\ pc' \in {"idle", "loop"} /\ call'.n = 0
    <3>1. CASE call.op = "fgetc"
      <4>1. <<byte>> \in Bytes /\ Return(0, <<byte>>) /\ 0 \in Int
        BY <1>5, <2>1, <3>1 DEF FgetcTakes, Bytes
      <4>2. QED
        BY <4>1, ReturnTypes
    <3>2. CASE call.op # "fgetc"
      <4>1. call' = [call EXCEPT !.out = Append(call.out, byte)] /\ pc' = "loop" /\ ret' = ret
        BY <1>5, <1>a, <3>2 DEF FgetcTakes, Call
      <4>2. Append(call.out, byte) \in Bytes
        BY <1>a, <2>1 DEF Bytes
      <4>3. call' \in Call /\ call'.n = 0
        BY <1>a, <4>1, <4>2 DEF Call
      <4>4. QED
        BY <4>1, <4>3 DEF TypeOK
    <3>3. QED
      BY <3>1, <3>2
  <2> HIDE DEF byte
  <2>6. TypeOK'
    BY <1>5, <2>3, <2>5 DEF FgetcTakes, TypeOK
  <2>7. BufferInv'
    BY <1>a, <1>5, <2>4, <2>5 DEF FgetcTakes
  <2>a. FlushInv'
    BY <2>5
  <2>8. CursorInv' /\ GetInv'
    BY <1>5, <1>a, <2>2, <2>4, <2>5 DEF FgetcTakes
  <2>9. QED
    BY <2>6, <2>7, <2>8, <2>a
<1>6. QED
  BY <1>1, <1>2, <1>3, <1>4, <1>5 DEF GetStep

\* A refilled buffer holds bytes in the slots below its position.
LEMMA RefilledType ==
  ASSUME NEW g \in SoFile, NEW e \in {0, 1}, NEW b \in Buffer, NEW p \in Int, NEW c \in Int,
         NEW h \in Int
  PROVE  [g EXCEPT !.eof = e, !.buffer = b, !.buffer_pos = p, !.cursor = c,
                   !.chunk_number = h] \in SoFile
BY DEF SoFile

\* so_fread outside so_fgetc: what it copies from its own read is in the file.
LEMMA FreadKeepsIInv == IInv /\ FreadStep => IInv'
<1> SUFFICES ASSUME IInv, FreadStep PROVE IInv'
  OBVIOUS
<1> USE DEF IInv, BufferInv, FlushInv, CursorInv, GetInv, Running, InGetc
<1>a. /\ call \in Call /\ call.rc \in {0, -1} /\ call.n = 0 /\ call.out \in Bytes
      /\ call.want \in Nat /\ Len(call.out) \in Nat
      /\ call.op = "fread" /\ pc \in {"loop", "refill"} /\ phase # "lost"
      /\ f \in SoFile /\ f.buffer_pos \in Int /\ f.cursor \in Nat
      /\ f.buffer \in Buffer /\ f.last_op \in {"r", "w"}
  <2>1. pc \in {"loop", "refill"} /\ call.op = "fread"
    BY DEF FreadStep, FreadNext, FreadReturns, FreadRefills, FreadRefillFails, Looping
  <2>2. f \in SoFile /\ call \in Call
    BY DEF TypeOK
  <2>3. phase # "lost" /\ f.cursor \in Nat /\ call.n = 0
    BY <2>1, <2>2 DEF SoFile
  <2>4. call.out \in Bytes
    BY <2>2 DEF Call
  <2>5. Len(call.out) \in Nat
    BY <2>4 DEF Bytes
  <2>6. QED
    BY <2>1, <2>2, <2>3, <2>4, <2>5 DEF Call, SoFile
<1>b. ASSUME NEW rc \in Int, Return(rc, call.out) \/ Return(rc, <<>>)
      PROVE  /\ ret' \in Result /\ call' \in Call /\ pc' = "idle"
             /\ call'.op = "none" /\ call'.n = 0
  <2>1. <<>> \in Bytes /\ TypeOK
    BY FreshTypes
  <2>2. QED
    BY <1>a, <1>b, <2>1, ReturnTypes
<1>1. CASE FreadNext
  <2>1. TypeOK'
    BY <1>1 DEF FreadNext, IfDirty, TypeOK
  <2>2. QED
    BY <1>1, <1>a, <2>1 DEF FreadNext, IfDirty, Looping
<1>2. CASE FreadReturns
  <2>1. /\ ret' \in Result /\ call' \in Call /\ pc' = "idle"
        /\ call'.op = "none" /\ call'.n = 0
    BY <1>2, <1>a, <1>b DEF FreadReturns
  <2>2. TypeOK'
    BY <1>2, <2>1 DEF FreadReturns, TypeOK
  <2>3. QED
    BY <1>2, <1>a, <2>1, <2>2 DEF FreadReturns
<1>3. CASE FreadRefills
  <2> DEFINE cnt == Len(call.out)
  <2>1. PICK k \in ReadCounts(cnt) :
          LET m == Smaller(k, call.want - cnt - 1) IN
          /\ offset' = cnt + k
          /\ IF k = 0
             THEN /\ f' = [f EXCEPT !.eof = 1]
                  /\ Return(cnt, call.out)
             ELSE /\ f' = [f EXCEPT !.eof = 0, !.buffer = Filled(cnt, k), !.buffer_pos = 0,
                                    !.cursor = f.cursor + m, !.chunk_number = -1]
                  /\ call' = [call EXCEPT !.out = call.out \o [j \in 1..m |-> file[cnt + j]]]
                  /\ pc' = "loop"
                  /\ UNCHANGED ret
    BY <1>3, <1>a DEF FreadRefills, SoFile, Call
  <2> DEFINE m == Smaller(k, call.want - cnt - 1)
             b == Filled(cnt, k)
             read == [j \in 1..m |-> file[cnt + j]]
  <2>2. UNCHANGED <<file, mode, phase, failed>> /\ cnt < call.want
    BY <1>3, <1>a DEF FreadRefills
  <2>3. /\ k \in 0..BUFFER_SIZE /\ b \in Buffer /\ (k > 0 => cnt + k <= Len(file))
    <3>1. cnt \in Nat /\ k \in ReadCounts(cnt) /\ IInv
      BY <1>a
    <3> HIDE DEF IInv, cnt
    <3>2. QED
      BY <3>1, FilledType
  <2>4. k \in Nat /\ m \in Nat /\ m <= k /\ offset' \in Nat
    <3>1. offset' = cnt + k
      BY <2>1
    <3>2. k \in Nat /\ cnt \in Nat /\ call.want - cnt - 1 \in Nat
      BY <1>a, <2>2, <2>3, StreamAssumption
    <3> HIDE DEF cnt, IInv
    <3>3. QED
      BY <3>1, <3>2 DEF Smaller
  <2>5. CASE k = 0
    <3>1. f' = [f EXCEPT !.eof = 1] /\ Return(cnt, call.out) /\ cnt \in Int
      BY <1>a, <2>1, <2>5
    <3>2. f' \in SoFile /\ f'.buffer_pos = f.buffer_pos /\ f'.buffer = f.buffer
          /\ f'.cursor = f.cursor /\ f'.last_op = f.last_op
      BY <1>a, <3>1 DEF SoFile
    <3>3. /\ ret' \in Result /\ call' \in Call /\ pc' = "idle"
          /\ call'.op = "none" /\ call'.n = 0
      BY <1>b, <3>1
    <3>4. TypeOK'
      BY <2>2, <2>4, <3>2, <3>3 DEF TypeOK
    <3>5. QED
      BY <1>a, <2>2, <3>2, <3>3, <3>4
  <2>6. CASE k # 0
    <3>1. /\ f' = [f EXCEPT !.eof = 0, !.buffer = b, !.buffer_pos = 0,
                            !.cursor = f.cursor + m, !.chunk_number = -1]
          /\ call' = [call EXCEPT !.out = call.out \o read]
          /\ pc' = "loop" /\ ret' = ret
      BY <2>1, <2>6
    <3>2. read \in Seq(Byte)
      <4>1. cnt + k <= Len(file) /\ file \in Seq(Byte)
        BY <2>3, <2>4, <2>6 DEF TypeOK
      <4>2. \A j \in 1..m : file[cnt + j] \in Byte
        BY <1>a, <2>4, <4>1
      <4>3. read \in [1..m -> Byte]
        BY <4>2
      <4> HIDE DEF m, read
      <4>4. QED
        BY <2>4, <4>3
    <3> HIDE DEF b, read, m
    <3>3. call.out \o read \in Bytes
      BY <1>a, <3>2 DEF Bytes
    <3>4. /\ call' \in Call /\ call'.n = 0 /\ call'.op = "fread"
      BY <1>a, <3>1, <3>3 DEF Call
    <3>5. f' \in SoFile
      <4>1. /\ f \in SoFile /\ 0 \in {0, 1} /\ b \in Buffer /\ 0 \in Int /\ -1 \in Int
            /\ f.cursor + m \in Int
        BY <1>a, <2>3, <2>4
      <4>2. f' = [f EXCEPT !.eof = 0, !.buffer = b, !.buffer_pos = 0,
                           !.cursor = f.cursor + m, !.chunk_number = -1]
        BY <3>1
      <4>3. QED
        BY <4>1, <4>2, RefilledType, Zenon
    <3>6. f'.buffer_pos = 0 /\ f'.cursor = f.cursor + m /\ f'.last_op = f.last_op
      BY <1>a, <3>1 DEF SoFile
    <3>7. TypeOK'
      BY <2>2, <2>4, <3>1, <3>4, <3>5 DEF TypeOK
    <3>8. QED
      BY <1>a, <2>2, <2>4, <3>1, <3>4, <3>6, <3>7, StreamAssumption
  <2>7. QED
    BY <2>5, <2>6
<1>4. CASE FreadRefillFails
  <2>1. /\ ret' \in Result /\ call' \in Call /\ pc' = "idle"
        /\ call'.op = "none" /\ call'.n = 0
    BY <1>4, <1>a, <1>b DEF FreadRefillFails
  <2>2. /\ f' \in SoFile /\ f'.buffer_pos = f.buffer_pos /\ f'.buffer = f.buffer
        /\ f'.cursor = f.cursor /\ f'.last_op = f.last_op
    BY <1>4, <1>a DEF FreadRefillFails, SoFile, SO_EOF
  <2>3. TypeOK'
    BY <1>4, <1>a, <2>1, <2>2 DEF FreadRefillFails, TypeOK
  <2>4. QED
    BY <1>4, <1>a, <2>1, <2>2, <2>3 DEF FreadRefillFails
<1>5. QED
  BY <1>1, <1>2, <1>3, <1>4 DEF FreadStep

-----------------------------------------------------------------------------
\* Every step of the caller and of the library keeps the invariant.
LEMMA NextKeepsIInv == IInv /\ [Next]_vars => IInv'
<1> SUFFICES ASSUME IInv, [Next]_vars PROVE IInv'
  OBVIOUS
<1>1. CASE Next
  BY <1>1, CallerKeepsIInv, FlushKeepsIInv, CloseAndFlushKeepIInv, SeekKeepsIInv, PutKeepsIInv,
     GetKeepsIInv, FreadKeepsIInv DEF Next, Library
<1>2. CASE UNCHANGED vars
  BY <1>2 DEF vars, IInv, TypeOK, BufferInv, FlushInv, CursorInv, GetInv, InGetc, Running
<1>3. QED
  BY <1>1, <1>2

\* The invariant holds always.
LEMMA IInvHolds == Spec => []IInv
BY InitIInv, NextKeepsIInv, PTL DEF Spec

\* In every program, the file holds bytes and every field keeps its C type, however
\* the kernel splits, shortens or fails the transfers of so_fflush and so_fread.
THEOREM TypeCorrect == Spec => []TypeOK
<1>1. IInv => TypeOK
  BY DEF IInv
<1>2. QED
  BY <1>1, IInvHolds, PTL

\* For every BUFFER_SIZE, the index so_fputc, so_fgetc and so_fflush use on the
\* buffer is inside it, and what they take from it was stored there.
THEOREM BufferSafe == Spec => []BufferUsedInBounds
<1>1. IInv => BufferUsedInBounds
  <2> SUFFICES ASSUME IInv PROVE BufferUsedInBounds
    OBVIOUS
  <2>1. f.cursor \in Int /\ f.buffer_pos \in Int
    BY DEF IInv, TypeOK, SoFile
  <2>2. InGetc => f.cursor >= 0
    BY <2>1 DEF IInv, CursorInv, InGetc, Running
  <2>3. (Running({"fputc", "fwrite"}) /\ call.rc = 0) => f.buffer_pos \in 0..BUFFER_SIZE-1
    BY <2>1, StreamAssumption DEF IInv, BufferInv
  <2>4. QED
    BY <2>2, <2>3 DEF IInv, BufferInv, BufferUsedInBounds
<1>2. QED
  BY <1>1, IInvHolds, PTL

-----------------------------------------------------------------------------
\* The error indicator goes up at every failure and down only in so_fopen.
LEMMA ErrorStays ==
  ASSUME TypeOK, [Next]_vars
  PROVE  \/ mode' = "closed" \/ ~failed'
         \/ mode' = mode /\ f'.err_ind # 0
         \/ mode' = mode /\ f'.err_ind = f.err_ind /\ failed' = failed
<1>a. f \in SoFile /\ call \in Call
  BY DEF TypeOK
<1>1. CASE Caller
  <2>1. ASSUME NEW c \in Byte, So_fputc(c) PROVE mode' = mode /\ f'.err_ind = f.err_ind /\ failed' = failed
    BY <1>a, <2>1 DEF So_fputc, Emptied, SoFile
  <2>2. QED
    BY <1>1, <2>1 DEF Caller, So_fopen, So_fclose, So_fflush, So_fseek, So_fgetc, So_fread, So_fwrite
<1>2. CASE FlushStep
  <2>1. CASE SysWriteFails
    BY <1>a, <2>1 DEF SysWriteFails, SoFile, SO_EOF
  <2>2. CASE FlushDone
    BY <1>a, <2>2 DEF FlushDone, Flushed, SoFile
  <2>3. QED
    BY <1>2, <2>1, <2>2 DEF FlushStep, SysWrite
<1>3. CASE FcloseBody \/ FflushBody
  BY <1>3 DEF FcloseBody, FflushBody
<1>4. CASE SeekStep
  <2>1. CASE FseekFlushFailed
    BY <1>a, <2>1 DEF FseekFlushFailed, SoFile, Call
  <2>2. CASE FseekMoves
    BY <1>a, <2>2 DEF FseekMoves, Sought, SoFile
  <2>3. CASE FseekOutOfRange
    BY <1>a, <2>3 DEF FseekOutOfRange, SoFile
  <2>4. QED
    BY <1>4, <2>1, <2>2, <2>3 DEF SeekStep
<1>5. CASE PutStep
  <2>1. ASSUME NEW c \in Byte, FwriteNext(c) PROVE mode' = mode /\ f'.err_ind = f.err_ind /\ failed' = failed
    BY <1>a, <2>1 DEF FwriteNext, Emptied, SoFile
  <2>2. CASE FwriteReturns
    BY <2>2 DEF FwriteReturns
  <2>3. CASE FputcFlushFailed
    BY <1>a, <2>3 DEF FputcFlushFailed, SoFile, Call
  <2>4. CASE FputcStores
    BY <1>a, <2>4 DEF FputcStores, Stored, SoFile
  <2>5. QED
    BY <1>5, <2>1, <2>2, <2>3, <2>4 DEF PutStep
<1>6. CASE GetStep
  <2>1. CASE FgetcFlushFailed
    BY <2>1 DEF FgetcFlushFailed
  <2>2. CASE FgetcLoads
    BY <1>a, <2>2 DEF FgetcLoads, SoFile
  <2>3. CASE FgetcLoadFails
    BY <1>a, <2>3 DEF FgetcLoadFails, SoFile
  <2>4. CASE FgetcPastBuffer
    BY <1>a, <2>4 DEF FgetcPastBuffer, SoFile, SO_EOF
  <2>5. CASE FgetcTakes
    BY <1>a, <2>5 DEF FgetcTakes, SoFile
  <2>6. QED
    BY <1>6, <2>1, <2>2, <2>3, <2>4, <2>5 DEF GetStep
<1>7. CASE FreadStep
  <2>1. CASE FreadNext \/ FreadReturns
    BY <2>1 DEF FreadNext, FreadReturns
  <2>2. CASE FreadRefills
    BY <1>a, <2>2 DEF FreadRefills, SoFile
  <2>3. CASE FreadRefillFails
    BY <1>a, <2>3 DEF FreadRefillFails, SoFile, SO_EOF
  <2>4. QED
    BY <1>7, <2>1, <2>2, <2>3 DEF FreadStep
<1>8. CASE UNCHANGED vars
  BY <1>8 DEF vars
<1>9. QED
  BY <1>1, <1>2, <1>3, <1>4, <1>5, <1>6, <1>7, <1>8 DEF Next, Library

\* so_fwrite and so_fread ignore failures of the calls they make, in any order and
\* number: so_ferror still reports that one happened.
THEOREM FailuresReported == Spec => []FailureIsReported
<1>1. Init => FailureIsReported
  BY DEF Init, FailureIsReported
<1>2. TypeOK /\ FailureIsReported /\ [Next]_vars => FailureIsReported'
  BY ErrorStays DEF FailureIsReported
<1>3. QED
  BY <1>1, <1>2, TypeCorrect, PTL DEF Spec

-----------------------------------------------------------------------------
(***************************************************************************)
(* The kernel's offset and the cursor of the stream agree whenever a byte  *)
(* waits to be written, for every buffer size and every split of write.    *)
(***************************************************************************)
Puts == {"fputc", "fwrite"}
Gets == {"fgetc", "fread"}

\* While puts wait, the offset lags behind the cursor by what is still to write;
\* with none waiting and no read since the last seek or flush the two are equal.
OffsetInv ==
  (~Appending /\ ~failed) =>
    /\ f.last_op = "w" => offset + (f.buffer_pos - call.n) = f.cursor
    /\ (f.last_op = "r" /\ phase \in {"fresh", "writing"}) => offset = f.cursor

\* Where the running call finds puts that wait to be written, and where it finds none.
PendingInv ==
  /\ pc = "flush" => f.last_op = "w"
  /\ (pc = "idle" /\ phase = "writing") => f.last_op = "w"
  /\ (pc = "body" /\ call.rc # 0) => f.last_op = "w"
  /\ (Running({"fseek"}) /\ call.rc = 0) => f.last_op = "r"
  /\ (Running(Puts) /\ f.last_op = "r") => f.buffer_pos = 0
  /\ (Looping("fwrite") /\ call.cnt # 0) => f.last_op = "w"
  /\ pc = "refill" => (f.last_op = "r" \/ failed)

\* What a running call knows of the caller, and of the failures it has met.
CallInv ==
  /\ (pc # "idle" /\ call.op \in Gets) => phase = "reading"
  /\ (pc # "idle" /\ call.op \in Puts) => phase = "writing"
  /\ (pc # "idle" /\ call.op = "fwrite") => call.want # 0
  /\ call.rc # 0 => (failed /\ pc = "body")
  /\ pc = "idle" => call = NoCall
  /\ call.op = "none" => pc = "idle"

LandInv == OffsetInv /\ PendingInv /\ CallInv

\* The fields OffsetInv relates, with their types.
LEMMA LandTypes ==
  ASSUME IInv
  PROVE  /\ f.cursor \in Int /\ f.buffer_pos \in Int /\ f.last_op \in {"r", "w"}
         /\ call.n \in Nat /\ call.cnt \in Nat /\ call.want \in Nat /\ call.rc \in {0, -1}
         /\ call.op \in Operation /\ offset \in Nat /\ f \in SoFile /\ call \in Call
         /\ pc # "flush" => call.n = 0
BY DEF IInv, TypeOK, SoFile, Call, FlushInv

\* Before so_fopen nothing waits to be written.
LEMMA InitLand == Init => LandInv
BY DEF Init, LandInv, OffsetInv, PendingInv, CallInv, NewStream, NoCall, Running, Looping

-----------------------------------------------------------------------------
\* A call begins: nothing of the stream changes, except that a put after reads
\* empties the buffer.
LEMMA CallerLands ==
  ASSUME Disciplined, IInv, LandInv, Caller
  PROVE  LandInv'
<1> USE DEF LandInv, OffsetInv, PendingInv, CallInv, Running, Looping, Puts, Gets
<1>a. /\ f.cursor \in Int /\ f.buffer_pos \in Int /\ f.last_op \in {"r", "w"}
      /\ call.n \in Nat /\ offset \in Nat /\ f \in SoFile /\ (pc # "flush" => call.n = 0)
  BY LandTypes
<1>1. ASSUME NEW m \in Modes, So_fopen(m) PROVE LandInv'
  <2>1. /\ f'.buffer_pos = 0 /\ f'.cursor = 0 /\ f'.last_op = "r" /\ offset' = 0
        /\ pc' = "idle" /\ call' = NoCall /\ phase' = "fresh" /\ failed' = FALSE
    BY <1>1 DEF So_fopen, NewStream
  <2>2. QED
    BY <2>1 DEF NoCall
<1>2. CASE So_fclose
  BY <1>2, <1>a DEF So_fclose, Begin, IfDirty, NoCall, Appending
<1>3. CASE So_fflush
  BY <1>3, <1>a DEF So_fflush, Begin, NoCall, Appending
<1>4. ASSUME NEW w \in Whences, NEW off \in Int, So_fseek(w, off) PROVE LandInv'
  BY <1>4, <1>a DEF So_fseek, Begin, IfDirty, NoCall, Appending
<1>5. CASE So_fgetc
  BY <1>5, <1>a DEF So_fgetc, Begin, IfDirty, NoCall, Appending
<1>6. ASSUME NEW n \in 1..MaxRequest, So_fread(n) PROVE LandInv'
  BY <1>6, <1>a DEF So_fread, Begin, NoCall, Appending
<1>7. ASSUME NEW c \in Byte, So_fputc(c) PROVE LandInv'
  <2>1. /\ f'.last_op = f.last_op /\ f'.cursor = f.cursor
        /\ f'.buffer_pos = IF f.last_op = "r" THEN 0 ELSE f.buffer_pos
    BY <1>7, <1>a DEF So_fputc, Emptied, SoFile
  <2>2. QED
    BY <1>7, <1>a, <2>1 DEF So_fputc, CanWrite, Begin, IfFull, NoCall, Appending
<1>8. ASSUME NEW n \in 1..MaxRequest, So_fwrite(n) PROVE LandInv'
  BY <1>8, <1>a, StreamAssumption DEF So_fwrite, CanWrite, Begin, NoCall, Appending
<1>9. QED
  <2>1. MaxSize \in Nat
    BY StreamAssumption
  <2>2. QED
    BY <2>1, <1>1, <1>2, <1>3, <1>4, <1>5, <1>6, <1>7, <1>8 DEF Caller

\* Every part write takes moves the offset by what it leaves less to write.
LEMMA FlushLands ==
  ASSUME IInv, LandInv, FlushStep
  PROVE  LandInv'
<1> USE DEF LandInv, OffsetInv, PendingInv, CallInv, Running, Looping, Puts, Gets
<1>a. /\ f.cursor \in Int /\ f.buffer_pos \in Int /\ f.last_op \in {"r", "w"}
      /\ call.n \in Nat /\ offset \in Nat /\ f \in SoFile /\ call \in Call
  BY LandTypes
<1>1. ASSUME NEW k \in 1..BUFFER_SIZE, SysWrite(k) PROVE LandInv'
  <2>1. /\ call'.n = call.n + k /\ call'.op = call.op /\ call'.rc = call.rc
        /\ call'.want = call.want /\ call'.cnt = call.cnt
    BY <1>1, <1>a DEF SysWrite, Call
  <2>2. ~Appending => offset' = offset + k
    BY <1>1 DEF SysWrite, WriteAt
  <2>3. k \in Nat
    BY StreamAssumption
  <2>4. QED
    BY <1>1, <1>a, <2>1, <2>2, <2>3 DEF SysWrite, Appending
<1>2. CASE SysWriteFails
  <2>1. f'.last_op = f.last_op /\ failed' = TRUE
    BY <1>2, <1>a DEF SysWriteFails, SoFile
  <2>2. call'.op = call.op /\ call'.want = call.want /\ call'.rc = -1
    BY <1>2, <1>a DEF SysWriteFails, Call, SO_EOF
  <2>3. QED
    BY <1>2, <2>1, <2>2 DEF SysWriteFails
<1>3. CASE FlushDone
  <2>1. f'.buffer_pos = 0 /\ f'.cursor = f.cursor /\ f'.last_op = "r"
    BY <1>3, <1>a DEF FlushDone, Flushed, SoFile
  <2>2. /\ call'.op = call.op /\ call'.want = call.want /\ call'.rc = 0
    BY <1>3, <1>a DEF FlushDone, Call
  <2>3. QED
    BY <1>3, <1>a, <2>1, <2>2 DEF FlushDone, Appending
<1>4. QED
  BY <1>1, <1>2, <1>3 DEF FlushStep

\* so_fclose and so_fflush end with nothing waiting.
LEMMA CloseAndFlushLand ==
  ASSUME IInv, LandInv, FcloseBody \/ FflushBody
  PROVE  LandInv'
<1> USE DEF LandInv, OffsetInv, PendingInv, CallInv, Running, Looping, Puts, Gets, Return
<1>a. /\ f.cursor \in Int /\ f.buffer_pos \in Int /\ f.last_op \in {"r", "w"}
      /\ call.n = 0 /\ call.rc \in {0, -1} /\ offset \in Nat /\ f \in SoFile
  BY LandTypes DEF FcloseBody, FflushBody
<1>1. CASE FcloseBody
  <2>1. f'.buffer_pos = 0 /\ f'.cursor = 0 /\ f'.last_op = "r" /\ offset' = 0
    BY <1>1 DEF FcloseBody, NewStream
  <2>2. QED
    BY <1>1, <2>1 DEF FcloseBody, NoCall
<1>2. CASE FflushBody
  BY <1>2, <1>a DEF FflushBody, NoCall, Appending
<1>3. QED
  BY <1>1, <1>2

\* A so_fseek that succeeds sets cursor and offset to the same place.
LEMMA SeekLands ==
  ASSUME IInv, LandInv, SeekStep
  PROVE  LandInv'
<1> USE DEF LandInv, OffsetInv, PendingInv, CallInv, Running, Looping, Puts, Gets, Return
<1>a. /\ f.cursor \in Int /\ f.buffer_pos \in Int /\ f.last_op \in {"r", "w"}
      /\ call.n = 0 /\ call.rc \in {0, -1} /\ offset \in Nat /\ f \in SoFile
  BY LandTypes DEF SeekStep, FseekFlushFailed, FseekMoves, FseekOutOfRange
<1>1. CASE FseekFlushFailed
  <2>1. f'.last_op = f.last_op /\ failed
    BY <1>1, <1>a DEF FseekFlushFailed, SoFile
  <2>2. QED
    BY <1>1, <2>1, <1>a DEF FseekFlushFailed, NoCall
<1>2. CASE FseekMoves
  <2>1. f'.last_op = "r" /\ f'.cursor = call.target
    BY <1>2, <1>a DEF FseekMoves, Sought, SoFile
  <2>2. QED
    BY <1>2, <2>1 DEF FseekMoves, NoCall
<1>3. CASE FseekOutOfRange
  <2>1. f'.last_op = "r"
    BY <1>3, <1>a DEF FseekOutOfRange, SoFile
  <2>2. QED
    BY <1>3, <2>1 DEF FseekOutOfRange, NoCall
<1>4. QED
  BY <1>1, <1>2, <1>3 DEF SeekStep

\* A put moves the cursor by the byte it adds to what waits.
LEMMA PutLands ==
  ASSUME IInv, LandInv, PutStep
  PROVE  LandInv'
<1> USE DEF LandInv, OffsetInv, PendingInv, CallInv, Running, Looping, Puts, Gets
<1>a. /\ f.cursor \in Int /\ f.buffer_pos \in Int /\ f.last_op \in {"r", "w"}
      /\ call.n \in Nat /\ call.cnt \in Nat /\ call.want \in Nat /\ call.rc \in {0, -1}
      /\ offset \in Nat /\ f \in SoFile /\ call \in Call /\ (pc # "flush" => call.n = 0)
  BY LandTypes
<1>b. ASSUME NEW rc \in {0, -1}, AfterPut(rc), Running(Puts)
      PROVE  /\ call'.n = 0 /\ call'.rc = 0
             /\ \/ pc' = "idle" /\ call' = NoCall
                \/ /\ pc' = "loop" /\ call'.op = "fwrite" /\ call.op = "fwrite"
                   /\ call'.want = call.want
  <2>1. CASE call.op = "fputc"
    BY <1>b, <2>1 DEF AfterPut, Return, NoCall
  <2>2. CASE call.op = "fwrite"
    <3>1. call' = [call EXCEPT !.cnt = call.cnt + 1, !.rc = 0] /\ pc' = "loop"
      BY <1>b, <2>2 DEF AfterPut
    <3>2. /\ call'.n = call.n /\ call'.rc = 0 /\ call'.op = call.op
          /\ call'.want = call.want
      BY <1>a, <3>1 DEF Call
    <3>3. QED
      BY <1>a, <1>b, <2>2, <3>1, <3>2
  <2>3. QED
    BY <1>b, <2>1, <2>2
<1>1. ASSUME NEW c \in Byte, FwriteNext(c) PROVE LandInv'
  <2>1. /\ f'.last_op = f.last_op /\ f'.cursor = f.cursor
        /\ f'.buffer_pos = IF f.last_op = "r" THEN 0 ELSE f.buffer_pos
    BY <1>1, <1>a DEF FwriteNext, Emptied, SoFile
  <2>2. /\ call'.n = call.n /\ call'.op = call.op /\ call'.rc = call.rc
        /\ call'.want = call.want /\ call'.cnt = call.cnt
    BY <1>1, <1>a DEF FwriteNext, Call
  <2>3. call.rc = 0
    BY <1>1, <1>a DEF FwriteNext
  <2>4. QED
    BY <1>1, <1>a, <2>1, <2>2, <2>3 DEF FwriteNext, IfFull, Appending
<1>2. CASE FwriteReturns
  BY <1>2, <1>a DEF FwriteReturns, Return, NoCall, Appending
<1>3. CASE FputcFlushFailed
  <2>1. f'.last_op = "w" /\ failed
    BY <1>3, <1>a DEF FputcFlushFailed, SoFile
  <2>2. AfterPut(call.rc)
    BY <1>3 DEF FputcFlushFailed
  <2>3. QED
    BY <1>3, <1>a, <1>b, <2>1, <2>2 DEF FputcFlushFailed, NoCall
<1>4. CASE FputcStores
  <2>1. /\ f'.last_op = "w" /\ f'.cursor = f.cursor + 1
        /\ f'.buffer_pos = f.buffer_pos + 1
    BY <1>4, <1>a DEF FputcStores, Stored, SoFile
  <2>2. AfterPut(0) /\ Running(Puts)
    BY <1>4 DEF FputcStores
  <2>3. call.n = 0 /\ phase = "writing" /\ (f.last_op = "r" => f.buffer_pos = 0)
    BY <1>a, <2>2
  <2>4. /\ offset' = offset /\ mode' = mode /\ phase' = phase /\ failed' = failed
    BY <1>4 DEF FputcStores
  <2>5. (~Appending /\ ~failed) => offset + f.buffer_pos = f.cursor
    BY <1>a, <2>3
  <2>6. OffsetInv'
    BY <1>a, <1>b, <2>1, <2>2, <2>4, <2>5 DEF Appending
  <2>7. PendingInv'
    BY <1>b, <2>1, <2>2
  <2>8. CallInv'
    BY <1>b, <2>2, <2>3, <2>4 DEF NoCall
  <2>9. QED
    BY <2>6, <2>7, <2>8
<1>5. QED
  BY <1>1, <1>2, <1>3, <1>4 DEF PutStep

\* Reads move the offset freely: the caller puts nothing until it seeks or flushes.
LEMMA GetcEofLands ==
  ASSUME IInv, LandInv, NEW g, GetcEof(g), Running(Gets)
  PROVE  \/ pc' = "idle" /\ call' = NoCall
         \/ pc' = "refill" /\ call'.op = "fread" /\ call'.rc = 0
<1>1. call \in Call
  BY LandTypes
<1>2. QED
  BY <1>1 DEF GetcEof, Return, Running, Gets, Call

\* so_fgetc reads only when nothing waits, at the offset.
LEMMA GetLands ==
  ASSUME IInv, LandInv, GetStep
  PROVE  LandInv'
<1> USE DEF LandInv, OffsetInv, PendingInv, CallInv, Running, Looping, Puts, Gets
<1>a. /\ f \in SoFile /\ call \in Call /\ call.rc \in {0, -1}
      /\ phase = "reading" /\ pc = "body" /\ phase' = phase
      /\ Running(Gets) /\ (InGetc => f.last_op = "r")
  BY LandTypes DEF GetStep, FgetcFlushFailed, FgetcLoads, FgetcLoadFails, FgetcPastBuffer,
                   FgetcTakes, InGetc, IInv, GetInv
<1>b. ASSUME NEW g, GetcEof(g), f'.last_op = "r" \/ failed' PROVE LandInv'
  BY <1>a, <1>b, GetcEofLands DEF NoCall
<1>1. CASE FgetcFlushFailed
  <2>1. GetcEof(f) /\ failed'
    BY <1>1, <1>a DEF FgetcFlushFailed
  <2>2. QED
    BY <2>1, <1>b
<1>2. CASE FgetcLoads
  <2>1. f'.last_op = "r" /\ InGetc
    BY <1>2, <1>a DEF FgetcLoads, SoFile
  <2>2. GetcEof(f') \/ (pc' = pc /\ call' = call)
    BY <1>2 DEF FgetcLoads
  <2>3. QED
    BY <2>1, <2>2, <1>a, <1>b DEF InGetc
<1>3. CASE FgetcLoadFails
  BY <1>3, <1>b DEF FgetcLoadFails
<1>4. CASE FgetcPastBuffer
  <2>1. f'.last_op = "r" /\ GetcEof(f')
    BY <1>4, <1>a DEF FgetcPastBuffer, SoFile
  <2>2. QED
    BY <2>1, <1>b
<1>5. CASE FgetcTakes
  <2>1. f'.last_op = "r" /\ call.rc = 0
    BY <1>5, <1>a DEF FgetcTakes, InGetc, SoFile
  <2>2. CASE call.op = "fgetc"
    BY <1>5, <1>a, <2>1, <2>2 DEF FgetcTakes, Return, NoCall
  <2>3. CASE call.op = "fread"
    <3>1. call'.op = call.op /\ call'.rc = call.rc /\ pc' = "loop"
      BY <1>5, <1>a, <2>3 DEF FgetcTakes, Call
    <3>2. QED
      BY <1>a, <2>1, <2>3, <3>1
  <2>4. QED
    BY <1>a, <2>2, <2>3
<1>6. QED
  BY <1>1, <1>2, <1>3, <1>4, <1>5 DEF GetStep

\* so_fread moves the offset and the cursor together, or fails.
LEMMA FreadLands ==
  ASSUME IInv, LandInv, FreadStep
  PROVE  LandInv'
<1> USE DEF LandInv, OffsetInv, PendingInv, CallInv, Running, Looping, Puts, Gets
<1>a. /\ f \in SoFile /\ call \in Call /\ call.rc \in {0, -1} /\ f.last_op \in {"r", "w"}
      /\ f.cursor \in Int /\ f.buffer_pos \in Int /\ offset \in Nat /\ call.n = 0
      /\ call.op = "fread" /\ phase = "reading" /\ phase' = phase
  BY LandTypes DEF FreadStep, FreadNext, FreadReturns, FreadRefills, FreadRefillFails, IInv, GetInv
<1>1. CASE FreadNext
  BY <1>1, <1>a DEF FreadNext, IfDirty, Appending
<1>2. CASE FreadReturns
  BY <1>2, <1>a DEF FreadReturns, Return, NoCall, Appending
<1>3. CASE FreadRefills
  <2>1. f'.last_op = f.last_op
    BY <1>3, <1>a DEF FreadRefills, SoFile
  <2>2. \/ pc' = "idle" /\ call' = NoCall
        \/ pc' = "loop" /\ call'.op = "fread" /\ call'.rc = call.rc
    BY <1>3, <1>a DEF FreadRefills, Return, Call
  <2>3. failed' = failed /\ pc = "refill"
    BY <1>3 DEF FreadRefills
  <2>4. QED
    BY <1>a, <2>1, <2>2, <2>3 DEF NoCall
<1>4. CASE FreadRefillFails
  BY <1>4, <1>a DEF FreadRefillFails, Return, NoCall
<1>5. QED
  BY <1>1, <1>2, <1>3, <1>4 DEF FreadStep

-----------------------------------------------------------------------------
\* Every step keeps the offset where the bytes that wait belong.
LEMMA NextLands ==
  ASSUME IInv, Disciplined => LandInv, [Next]_vars
  PROVE  Disciplined => LandInv'
<1> SUFFICES ASSUME Disciplined PROVE LandInv'
  OBVIOUS
<1>1. CASE Next
  BY <1>1, CallerLands, FlushLands, CloseAndFlushLand, SeekLands, PutLands, GetLands, FreadLands
     DEF Next, Library
<1>2. CASE UNCHANGED vars
  BY <1>2 DEF vars, LandInv, OffsetInv, PendingInv, CallInv, Running, Looping, Appending
<1>3. QED
  BY <1>1, <1>2

\* Every byte a caller that seeks or flushes between reads and puts hands to
\* so_fputc is written where the cursor was, for every buffer size and however
\* the kernel splits the writes of so_fflush.
THEOREM PutsLand == Spec => [](Disciplined => WritesLandWherePut)
<1> DEFINE Inv == Disciplined => LandInv
<1>1. Init => Inv
  BY InitLand
<1>2. IInv /\ Inv /\ [Next]_vars => Inv'
  BY NextLands
<1>3. Inv => (Disciplined => WritesLandWherePut)
  BY DEF LandInv, OffsetInv, WritesLandWherePut
<1>4. QED
  BY <1>1, <1>2, <1>3, IInvHolds, PTL DEF Spec

-----------------------------------------------------------------------------
(***************************************************************************)
(* What waits to be written, and what size counts.                         *)
(***************************************************************************)
\* Where no byte waits to be written, and who may have bytes waiting.
WaitInv ==
  /\ mode = "closed" => f.last_op = "r" /\ pc = "idle"
  /\ (Running({"fflush", "fclose"}) /\ call.rc = 0) => f.last_op = "r"
  /\ (f.last_op = "w" /\ ~failed) => phase = "writing"
  /\ f.err_ind = -2 => failed

\* size counts the file and what will be appended to it, and the cursor of a caller
\* that may put is not past it.
SizeInv ==
  (mode # "closed" /\ ~failed) =>
    /\ Len(file) <= f.size
    /\ phase \in {"fresh", "writing"} => f.cursor <= f.size
    /\ (f.last_op = "w" /\ Appending) => Len(file) + (f.buffer_pos - call.n) <= f.size

\* The fields of the stream and of the call in the invariants below, with their types.
LEMMA FieldTypes ==
  ASSUME IInv
  PROVE  /\ f \in SoFile /\ call \in Call /\ file \in Seq(Byte) /\ Len(file) \in Nat /\ offset \in Nat
         /\ f.cursor \in Int /\ f.buffer_pos \in Int /\ f.size \in Nat /\ f.last_op \in {"r", "w"}
         /\ f.chunk_number \in Int /\ f.err_ind \in {0, -1, -2} /\ f.buffer \in Buffer
         /\ call.op \in Operation /\ call.n \in Nat /\ call.rc \in {0, -1} /\ call.want \in Nat
         /\ call.cnt \in Nat /\ call.start \in Int /\ call.out \in Seq(Byte) /\ Len(call.out) \in Nat
         /\ pc # "flush" => call.n = 0
BY DEF IInv, TypeOK, SoFile, Call, FlushInv, Bytes

\* How long a file is after a write.
LEMMA OverwriteLen ==
  ASSUME NEW s \in Seq(Byte), NEW at \in Nat, NEW bytes \in Seq(Byte)
  PROVE  Len(Overwrite(s, at, bytes)) =
           IF bytes = <<>> THEN Len(s) ELSE Larger(Len(s), at + Len(bytes))
<1>1. CASE bytes = <<>>
  BY <1>1 DEF Overwrite
<1>2. CASE bytes # <<>>
  <2> DEFINE n == Larger(Len(s), at + Len(bytes))
  <2>1. n \in Nat
    BY DEF Larger
  <2>2. Overwrite(s, at, bytes) =
          [i \in 1..n |-> IF at < i /\ i <= at + Len(bytes) THEN bytes[i - at]
                          ELSE IF i <= Len(s) THEN s[i] ELSE 0]
    BY <1>2 DEF Overwrite
  <2>3. Overwrite(s, at, bytes) \in Seq(Byte)
    BY OverwriteType
  <2> HIDE DEF n
  <2>4. DOMAIN Overwrite(s, at, bytes) = 1..n
    BY <2>2
  <2>5. Len(Overwrite(s, at, bytes)) = n
    BY <2>1, <2>3, <2>4
  <2>6. QED
    BY <1>2, <2>5 DEF n
<1>3. QED
  BY <1>1, <1>2

\* A slice of the buffer is as long as it is asked for.
LEMMA SliceLen ==
  ASSUME IInv, NEW k \in 0..(f.buffer_pos - call.n)
  PROVE  Slice(call.n, k) \in Seq(Byte) /\ Len(Slice(call.n, k)) = k
<1>1. Slice(call.n, k) \in Seq(Byte) /\ k \in Nat
  BY SliceType, FieldTypes
<1>2. DOMAIN Slice(call.n, k) = 1..k
  BY DEF Slice
<1>3. QED
  BY <1>1, <1>2

\* Before so_fopen there is nothing to count.
LEMMA InitSize == Init => WaitInv /\ SizeInv
BY DEF Init, WaitInv, SizeInv, NewStream, NoCall, Running

\* A call that begins writes nothing; so_fopen takes size from the file.
LEMMA CallerSizes ==
  ASSUME Disciplined, IInv, LandInv, WaitInv, SizeInv, Caller
  PROVE  WaitInv' /\ SizeInv'
<1> USE DEF WaitInv, SizeInv, Running
<1>a. /\ f \in SoFile /\ f.last_op \in {"r", "w"} /\ (pc # "flush" => call.n = 0)
      /\ f.cursor \in Int /\ f.buffer_pos \in Int /\ f.size \in Nat /\ Len(file) \in Nat
  BY FieldTypes
<1>1. ASSUME NEW m \in Modes, So_fopen(m) PROVE WaitInv' /\ SizeInv'
  <2> DEFINE kept == IF m \in {"w", "w+"} THEN <<>> ELSE file
  <2>1. f' = NewStream(Len(kept)) /\ file' = kept
    BY <1>1 DEF So_fopen
  <2>2. Len(kept) \in Nat
    BY <1>a
  <2> HIDE DEF kept
  <2>3. /\ f'.cursor = 0 /\ f'.last_op = "r" /\ f'.err_ind = 0 /\ f'.size = Len(file')
    BY <2>1 DEF NewStream
  <2>4. /\ pc' = "idle" /\ mode' = m /\ Len(file') \in Nat
    BY <1>1, <2>1, <2>2 DEF So_fopen
  <2>5. m # "closed"
    BY StreamAssumption DEF AllModes
  <2>6. QED
    BY <2>3, <2>4, <2>5
<1>2. CASE So_fclose
  BY <1>2, <1>a DEF So_fclose, Begin, IfDirty, NoCall, Appending
<1>3. CASE So_fflush
  BY <1>3, <1>a DEF So_fflush, Begin, NoCall, Appending
<1>4. ASSUME NEW w \in Whences, NEW off \in Int, So_fseek(w, off) PROVE WaitInv' /\ SizeInv'
  BY <1>4, <1>a DEF So_fseek, Begin, IfDirty, NoCall, Appending
<1>5. CASE So_fgetc
  BY <1>5, <1>a, LandTypes DEF So_fgetc, Begin, CanRead, IfDirty, NoCall, Appending
<1>6. ASSUME NEW n \in 1..MaxRequest, So_fread(n) PROVE WaitInv' /\ SizeInv'
  BY <1>6, <1>a DEF So_fread, Begin, CanRead, NoCall, Appending
<1>7. ASSUME NEW c \in Byte, So_fputc(c) PROVE WaitInv' /\ SizeInv'
  <2>1. /\ f'.last_op = f.last_op /\ f'.cursor = f.cursor /\ f'.size = f.size
        /\ f'.err_ind = f.err_ind
        /\ f'.buffer_pos = IF f.last_op = "r" THEN 0 ELSE f.buffer_pos
    BY <1>7, <1>a DEF So_fputc, Emptied, SoFile
  <2>2. QED
    BY <1>7, <1>a, <2>1 DEF So_fputc, CanWrite, Begin, IfFull, NoCall, Appending
<1>8. ASSUME NEW n \in 1..MaxRequest, So_fwrite(n) PROVE WaitInv' /\ SizeInv'
  BY <1>8, <1>a DEF So_fwrite, CanWrite, Begin, NoCall, Appending
<1>9. QED
  <2>1. MaxSize \in Nat
    BY StreamAssumption
  <2>2. QED
    BY <2>1, <1>1, <1>2, <1>3, <1>4, <1>5, <1>6, <1>7, <1>8 DEF Caller

\* so_fflush writes bytes that size counted when they were put.
LEMMA FlushSizes ==
  ASSUME IInv, LandInv, WaitInv, SizeInv, FlushStep
  PROVE  WaitInv' /\ SizeInv'
<1> USE DEF WaitInv, SizeInv, Running
<1>a. /\ f \in SoFile /\ call \in Call /\ f.last_op \in {"r", "w"} /\ call.n \in Nat
      /\ f.cursor \in Int /\ f.buffer_pos \in Int /\ f.size \in Nat /\ Len(file) \in Nat
      /\ file \in Seq(Byte) /\ offset \in Nat
  BY FieldTypes
<1>1. ASSUME NEW k \in 1..BUFFER_SIZE, SysWrite(k) PROVE WaitInv' /\ SizeInv'
  <2>1. /\ call'.n = call.n + k /\ call'.op = call.op /\ call'.rc = call.rc
        /\ f' = f /\ mode' = mode /\ phase' = phase /\ failed' = failed /\ pc' = pc /\ pc = "flush"
    BY <1>1, <1>a DEF SysWrite, Call
  <2>2. k \in 0..(f.buffer_pos - call.n) /\ k \in Nat /\ k > 0
    BY <1>1, <1>a DEF SysWrite
  <2>3. Slice(call.n, k) \in Seq(Byte) /\ Len(Slice(call.n, k)) = k
    BY <2>2, SliceLen
  <2>4. WriteAt \in Nat /\ file' = Overwrite(file, WriteAt, Slice(call.n, k))
    BY <1>1, <1>a DEF SysWrite, WriteAt
  <2>5. Len(file') = Larger(Len(file), WriteAt + k)
    <3>1. Slice(call.n, k) # <<>>
      BY <2>2, <2>3
    <3>2. Len(Overwrite(file, WriteAt, Slice(call.n, k))) = Larger(Len(file), WriteAt + Len(Slice(call.n, k)))
      BY <1>a, <2>3, <2>4, <3>1, OverwriteLen, Zenon
    <3>3. QED
      BY <2>3, <2>4, <3>2
  <2>6. ASSUME mode # "closed", ~failed PROVE Len(file') <= f.size
    <3>1. f.last_op = "w" /\ phase = "writing"
      BY <2>1, <2>6 DEF LandInv, PendingInv
    <3>2. CASE Appending
      BY <1>a, <2>2, <2>5, <2>6, <3>1, <3>2 DEF Larger, WriteAt
    <3>3. CASE ~Appending
      <4>1. offset + (f.buffer_pos - call.n) = f.cursor /\ f.cursor <= f.size
        BY <2>6, <3>1, <3>3 DEF LandInv, OffsetInv
      <4>2. QED
        BY <1>a, <2>2, <2>5, <2>6, <3>3, <4>1 DEF Larger, WriteAt
    <3>4. QED
      BY <3>2, <3>3
  <2>7. ASSUME mode # "closed", ~failed, f.last_op = "w", Appending
        PROVE  Len(file') + (f.buffer_pos - call'.n) <= f.size
    BY <1>a, <2>1, <2>2, <2>5, <2>7 DEF Larger, WriteAt
  <2>8. QED
    BY <2>1, <2>6, <2>7 DEF Appending
<1>2. CASE SysWriteFails
  <2>1. failed' = TRUE /\ pc' = "body" /\ mode' = mode /\ f'.last_op = f.last_op /\ call'.rc = -1
    BY <1>2, <1>a DEF SysWriteFails, SoFile, Call, SO_EOF
  <2>2. mode # "closed"
    BY <1>2 DEF SysWriteFails
  <2>3. QED
    BY <2>1, <2>2
<1>3. CASE FlushDone
  <2>1. /\ f'.cursor = f.cursor /\ f'.last_op = "r" /\ f'.size = f.size /\ f'.err_ind = f.err_ind
    BY <1>3, <1>a DEF FlushDone, Flushed, SoFile
  <2>2. mode # "closed" /\ mode' = mode /\ phase' = phase /\ failed' = failed /\ file' = file
    BY <1>3 DEF FlushDone
  <2>3. QED
    BY <2>1, <2>2
<1>4. QED
  BY <1>1, <1>2, <1>3 DEF FlushStep

\* so_fclose and so_fflush find nothing left to write.
LEMMA CloseAndFlushSize ==
  ASSUME IInv, LandInv, WaitInv, SizeInv, FcloseBody \/ FflushBody
  PROVE  WaitInv' /\ SizeInv'
<1> USE DEF WaitInv, SizeInv, Running, Return
<1>a. /\ f \in SoFile /\ f.last_op \in {"r", "w"} /\ call.rc \in {0, -1} /\ call.n = 0
      /\ f.cursor \in Int /\ f.buffer_pos \in Int /\ f.size \in Nat /\ Len(file) \in Nat
  BY FieldTypes DEF FcloseBody, FflushBody
<1>1. CASE FcloseBody
  <2>1. f'.last_op = "r" /\ f'.err_ind = 0 /\ mode' = "closed" /\ pc' = "idle"
    BY <1>1 DEF FcloseBody, NewStream
  <2>2. QED
    BY <2>1
<1>2. CASE FflushBody
  <2>1. call.rc # 0 => failed
    BY DEF LandInv, CallInv
  <2>2. call'.n = 0 /\ call'.op = "none" /\ pc' = "idle" /\ mode' = mode /\ f' = f
        /\ file' = file /\ failed' = failed
        /\ phase' = IF phase = "writing" THEN "fresh" ELSE phase
    BY <1>2 DEF FflushBody, NoCall
  <2>3. call.rc = 0 => f.last_op = "r"
    BY <1>2 DEF FflushBody
  <2>4. mode # "closed"
    BY <1>2 DEF FflushBody
  <2>5. QED
    BY <1>a, <2>1, <2>2, <2>3, <2>4 DEF Appending
<1>3. QED
  BY <1>1, <1>2

\* so_fseek stays within size, or the caller is lost.
LEMMA SeekSizes ==
  ASSUME IInv, LandInv, WaitInv, SizeInv, SeekStep
  PROVE  WaitInv' /\ SizeInv'
<1> USE DEF WaitInv, SizeInv, Running, Return
<1>a. /\ f \in SoFile /\ f.last_op \in {"r", "w"} /\ call.rc \in {0, -1} /\ call.n = 0
      /\ f.cursor \in Int /\ f.buffer_pos \in Int /\ f.size \in Nat /\ Len(file) \in Nat
      /\ pc' = "idle" /\ mode # "closed" /\ mode' = mode /\ failed' = failed /\ file' = file
  BY FieldTypes DEF SeekStep, FseekFlushFailed, FseekMoves, FseekOutOfRange
<1>1. CASE FseekFlushFailed
  <2>1. failed /\ f'.last_op = f.last_op
    BY <1>1, <1>a DEF FseekFlushFailed, SoFile, LandInv, CallInv
  <2>2. QED
    BY <1>a, <2>1
<1>2. CASE FseekMoves
  <2>1. /\ f'.last_op = "r" /\ f'.size = f.size /\ f'.err_ind = f.err_ind
        /\ f'.cursor = call.target /\ call.target \in 0..f.size
    BY <1>2, <1>a DEF FseekMoves, Sought, SoFile, LandInv, PendingInv
  <2>2. QED
    BY <1>a, <2>1
<1>3. CASE FseekOutOfRange
  <2>1. /\ f'.last_op = "r" /\ f'.size = f.size /\ f'.err_ind = f.err_ind
    BY <1>3, <1>a DEF FseekOutOfRange, SoFile, LandInv, PendingInv
  <2>2. phase' = "lost"
    BY <1>3 DEF FseekOutOfRange
  <2>3. QED
    BY <1>a, <2>1, <2>2
<1>4. QED
  BY <1>1, <1>2, <1>3 DEF SeekStep

\* A put moves the cursor and size together.
LEMMA PutSizes ==
  ASSUME IInv, LandInv, WaitInv, SizeInv, PutStep
  PROVE  WaitInv' /\ SizeInv'
<1> USE DEF WaitInv, SizeInv, Running
<1>a. /\ f \in SoFile /\ call \in Call /\ f.last_op \in {"r", "w"} /\ call.rc \in {0, -1} /\ call.n = 0
      /\ f.cursor \in Int /\ f.buffer_pos \in Int /\ f.size \in Nat /\ Len(file) \in Nat
      /\ mode # "closed" /\ mode' = mode /\ failed' = failed /\ file' = file
      /\ phase = "writing" /\ phase' = phase /\ call.op \in Puts
  BY FieldTypes DEF PutStep, FwriteNext, FwriteReturns, FputcFlushFailed, FputcStores, Looping,
                    LandInv, CallInv, Puts
<1>b. ASSUME NEW rc \in {0, -1}, AfterPut(rc)
      PROVE  call'.n = 0 /\ pc' # "body"
  <2>1. CASE call.op = "fputc"
    BY <1>b, <2>1 DEF AfterPut, Return, NoCall
  <2>2. CASE call.op # "fputc"
    <3>1. call' = [call EXCEPT !.cnt = call.cnt + 1, !.rc = 0] /\ pc' = "loop"
      BY <1>b, <2>2 DEF AfterPut
    <3>2. QED
      BY <1>a, <3>1 DEF Call
  <2>3. QED
    BY <2>1, <2>2
<1>1. ASSUME NEW c \in Byte, FwriteNext(c) PROVE WaitInv' /\ SizeInv'
  <2>1. /\ f'.last_op = f.last_op /\ f'.cursor = f.cursor /\ f'.size = f.size
        /\ f'.err_ind = f.err_ind
        /\ f'.buffer_pos = IF f.last_op = "r" THEN 0 ELSE f.buffer_pos
    BY <1>1, <1>a DEF FwriteNext, Emptied, SoFile
  <2>2. call'.n = call.n /\ call'.op = "fwrite"
    BY <1>1, <1>a DEF FwriteNext, Call, Looping
  <2>3. QED
    BY <1>1, <1>a, <2>1, <2>2 DEF Appending
<1>2. CASE FwriteReturns
  BY <1>2, <1>a DEF FwriteReturns, Return, NoCall, Appending
<1>3. CASE FputcFlushFailed
  <2>1. failed /\ f'.last_op = f.last_op /\ pc' # "body"
    BY <1>3, <1>a, <1>b DEF FputcFlushFailed, SoFile, LandInv, CallInv
  <2>2. QED
    BY <1>a, <2>1
<1>4. CASE FputcStores
  <2>1. /\ f'.last_op = "w" /\ f'.cursor = f.cursor + 1 /\ f'.size = f.size + 1
        /\ f'.buffer_pos = f.buffer_pos + 1 /\ f'.err_ind = f.err_ind
    BY <1>4, <1>a DEF FputcStores, Stored, SoFile
  <2>2. call'.n = 0 /\ pc' # "body"
    BY <1>4, <1>b DEF FputcStores
  <2>3. f.last_op = "r" => f.buffer_pos = 0
    BY <1>4, <1>a DEF FputcStores, LandInv, PendingInv
  <2>4. ASSUME ~failed
        PROVE  Len(file) <= f.size + 1 /\ f.cursor + 1 <= f.size + 1
    BY <1>a, <2>4
  <2>5. ASSUME ~failed, Appending PROVE Len(file) + (f.buffer_pos + 1) <= f.size + 1
    <3>1. Len(file) + f.buffer_pos <= f.size
      BY <1>a, <2>3, <2>5
    <3>2. QED
      BY <1>a, <3>1
  <2>6. QED
    BY <1>a, <2>1, <2>2, <2>4, <2>5 DEF Appending
<1>5. QED
  BY <1>1, <1>2, <1>3, <1>4 DEF PutStep

\* A read leaves the file and size alone.
LEMMA ReadSizes ==
  ASSUME IInv, LandInv, WaitInv, SizeInv, GetStep \/ FreadStep
  PROVE  WaitInv' /\ SizeInv'
<1> USE DEF WaitInv, SizeInv, Running
<1>a. /\ f \in SoFile /\ call \in Call /\ f.last_op \in {"r", "w"} /\ call.n = 0
      /\ f.size \in Nat /\ Len(file) \in Nat /\ call.op \in Gets
      /\ pc # "idle" /\ mode' = mode /\ file' = file /\ phase' = phase
  BY FieldTypes
     DEF GetStep, FgetcFlushFailed, FgetcLoads, FgetcLoadFails, FgetcPastBuffer, FgetcTakes, InGetc,
         FreadStep, FreadNext, FreadReturns, FreadRefills, FreadRefillFails, Looping, IInv, GetInv, Gets
<1>b. phase = "reading" /\ mode # "closed"
  BY <1>a DEF LandInv, CallInv
<1>c. (pc' = "body" => call'.op \notin {"fflush", "fclose"})
  BY <1>a
     DEF GetStep, FgetcFlushFailed, FgetcLoads, FgetcLoadFails, FgetcPastBuffer, FgetcTakes, GetcEof,
         FreadStep, FreadNext, FreadReturns, FreadRefills, FreadRefillFails, Looping, Gets, Return, InGetc
<1>d. ASSUME failed' PROVE WaitInv' /\ SizeInv'
  BY <1>a, <1>b, <1>c, <1>d
<1>e. ASSUME ~failed, ~failed' PROVE WaitInv' /\ SizeInv'
  <2>1. f.last_op = "r" /\ f.err_ind # -2
    BY <1>a, <1>b, <1>e
  <2>2. f'.last_op = "r" /\ f'.err_ind # -2 /\ f'.size = f.size
    <3>1. CASE FgetcLoads
      BY <1>a, <2>1, <3>1 DEF FgetcLoads, SoFile
    <3>2. CASE FgetcPastBuffer
      BY <1>a, <2>1, <3>2 DEF FgetcPastBuffer, SoFile, SO_EOF
    <3>3. CASE FgetcTakes
      BY <1>a, <2>1, <3>3 DEF FgetcTakes, SoFile
    <3>4. CASE FreadRefills
      BY <1>a, <2>1, <3>4 DEF FreadRefills, SoFile
    <3>5. CASE FgetcFlushFailed \/ FgetcLoadFails \/ FreadNext \/ FreadReturns \/ FreadRefillFails
      BY <1>e, <2>1, <3>5 DEF FgetcFlushFailed, FgetcLoadFails, FreadNext, FreadReturns, FreadRefillFails
    <3>6. QED
      BY <3>1, <3>2, <3>3, <3>4, <3>5 DEF GetStep, FreadStep
  <2>3. QED
    BY <1>a, <1>b, <1>c, <1>e, <2>2
<1>f. failed => failed'
  BY DEF GetStep, FgetcFlushFailed, FgetcLoads, FgetcLoadFails, FgetcPastBuffer, FgetcTakes,
         FreadStep, FreadNext, FreadReturns, FreadRefills, FreadRefillFails
<1>g. QED
  BY <1>d, <1>e, <1>f

\* Every step keeps size ahead of the file and of what waits.
LEMMA NextSizes ==
  ASSUME IInv, Disciplined => LandInv /\ WaitInv /\ SizeInv, [Next]_vars
  PROVE  Disciplined => LandInv' /\ WaitInv' /\ SizeInv'
<1> SUFFICES ASSUME Disciplined PROVE WaitInv' /\ SizeInv'
  BY NextLands
<1>1. CASE Next
  BY <1>1, CallerSizes, FlushSizes, CloseAndFlushSize, SeekSizes, PutSizes, ReadSizes
     DEF Next, Library
<1>2. CASE UNCHANGED vars
  BY <1>2 DEF vars, WaitInv, SizeInv, Running, Appending
<1>3. QED
  BY <1>1, <1>2

\* so_fseek refuses positions past size: size is never less than the bytes the
\* caller may seek to, for every buffer size and every split or failure of write.
THEOREM SizeCovers == Spec => [](Disciplined => SizeCoversContent)
<1> DEFINE Inv == Disciplined => LandInv /\ WaitInv /\ SizeInv
<1>1. Init => Inv
  BY InitLand, InitSize
<1>2. IInv /\ Inv /\ [Next]_vars => Inv'
  BY NextSizes
<1>3. ASSUME IInv, Inv PROVE Disciplined => SizeCoversContent
  <2> SUFFICES ASSUME Disciplined, mode # "closed", ~failed PROVE f.size >= Len(Content)
    BY DEF SizeCoversContent
  <2>a. /\ Len(file) \in Nat /\ file \in Seq(Byte) /\ f.size \in Nat /\ f.buffer_pos \in Int
        /\ call.n \in Nat /\ offset \in Nat
    BY <1>3, FieldTypes
  <2>1. CASE f.last_op # "w"
    BY <1>3, <2>1, <2>a DEF Content, SizeInv
  <2>2. CASE f.last_op = "w"
    <3> DEFINE p == f.buffer_pos - call.n
    <3>1. p \in Nat
      BY <1>3, <2>2, <2>a DEF IInv, BufferInv, FlushInv
    <3>2. Slice(call.n, p) \in Seq(Byte) /\ Len(Slice(call.n, p)) = p
      BY <1>3, <3>1, SliceLen
    <3>3. WriteAt \in Nat
      BY <2>a DEF WriteAt
    <3>4. Len(Content) <= Larger(Len(file), WriteAt + p)
      BY <2>2, <2>a, <3>1, <3>2, <3>3, OverwriteLen DEF Content, Larger
    <3>5. Len(file) <= f.size /\ WriteAt + p <= f.size
      BY <1>3, <2>2, <2>a DEF SizeInv, WaitInv, WriteAt, LandInv, OffsetInv
    <3>6. Len(Content) \in Nat
      BY <2>2, <2>a, <3>2, <3>3, OverwriteLen DEF Content, Larger
    <3>7. QED
      BY <2>a, <3>1, <3>3, <3>4, <3>5, <3>6 DEF Larger
  <2>3. QED
    BY <2>1, <2>2
<1>4. QED
  BY <1>1, <1>2, <1>3, IInvHolds, PTL DEF Spec

-----------------------------------------------------------------------------
(***************************************************************************)
(* The remembered chunk and what so_fread has copied.                      *)
(***************************************************************************)
\* What the promise needs: a disciplined caller that does not read across the end
\* of the file from its middle, and a kernel that reads all there is.
PromiseAssumption == Disciplined /\ ~ShortReads /\ ~FreadAnywhere /\ MaxRequest # 0

\* The buffer holds the chunk of the file at at.
Loaded(at) ==
  /\ f.buffer_pos = Smaller(Larger(0, Len(file) - at), BUFFER_SIZE)
  /\ \A i \in 0..f.buffer_pos-1 : f.buffer[i] = file[at + i + 1]

\* A chunk is only remembered while the caller reads, and then it is up to date.
ChunkInv ==
  (~failed /\ f.chunk_number # -1) =>
    phase \in {"reading", "lost"} /\ Loaded(BUFFER_SIZE * f.chunk_number)

\* so_fread has copied what follows its start, and reads on its own only at the
\* end of a file it has read from 0.
CopyInv ==
  ~failed =>
    /\ (pc # "idle" /\ call.op = "fread") =>
         /\ call.start \in Nat /\ call.want \in 1..MaxRequest
         /\ f.cursor = call.start + Len(call.out) /\ f.cursor <= Len(file)
         /\ \A j \in 1..Len(call.out) : call.out[j] = file[call.start + j]
         /\ call.start = 0 \/ call.start + call.want <= Len(file)
    /\ (pc # "idle" /\ call.op = "fgetc") => call.start = f.cursor /\ call.want = 1
    /\ pc = "refill" => call.start = 0 /\ f.cursor = Len(file)

StreamInv == LandInv /\ WaitInv /\ SizeInv /\ ChunkInv /\ CopyInv

\* Before so_fopen no chunk is remembered.
LEMMA InitReads == Init => ChunkInv /\ CopyInv
BY DEF Init, ChunkInv, CopyInv, NewStream, NoCall

\* A call begins.
LEMMA CallerReads ==
  ASSUME PromiseAssumption, IInv, StreamInv, Caller
  PROVE  ChunkInv' /\ CopyInv'
<1> USE DEF ChunkInv, CopyInv, Loaded
<1>a. /\ f \in SoFile /\ f.cursor \in Int /\ Len(file) \in Nat
      /\ (phase # "lost" => f.cursor >= 0)
  BY FieldTypes DEF IInv, CursorInv
<1>b. PromiseAssumption /\ ChunkInv /\ WaitInv
  BY DEF StreamInv
<1>1. ASSUME NEW m \in Modes, So_fopen(m) PROVE ChunkInv' /\ CopyInv'
  <2>1. f'.chunk_number = -1 /\ pc' = "idle"
    BY <1>1 DEF So_fopen, NewStream
  <2>2. QED
    BY <2>1
<1>2. CASE So_fclose
  BY <1>2, <1>b DEF So_fclose, Begin, IfDirty, NoCall
<1>3. CASE So_fflush
  BY <1>3, <1>b DEF So_fflush, Begin, NoCall
<1>4. ASSUME NEW w \in Whences, NEW off \in Int, So_fseek(w, off) PROVE ChunkInv' /\ CopyInv'
  BY <1>4, <1>b DEF So_fseek, Begin, IfDirty, NoCall
<1>5. CASE So_fgetc
  BY <1>5, <1>b DEF So_fgetc, Begin, CanRead, IfDirty, NoCall
<1>6. ASSUME NEW n \in 1..MaxRequest, So_fread(n) PROVE ChunkInv' /\ CopyInv'
  <2>1. /\ call' = [NoCall EXCEPT !.op = "fread", !.start = f.cursor, !.want = n]
        /\ pc' = "loop" /\ phase' = "reading" /\ f' = f /\ file' = file /\ failed' = failed
        /\ phase # "lost" /\ (f.cursor = 0 \/ f.cursor + n <= Len(file))
    BY <1>6, <1>b DEF So_fread, Begin, CanRead, PromiseAssumption
  <2>2. call'.op = "fread" /\ call'.start = f.cursor /\ call'.want = n /\ call'.out = <<>>
    BY <2>1 DEF NoCall
  <2>3. f.cursor \in Nat /\ n \in Nat
    BY <1>a, <2>1, StreamAssumption
  <2>4. CopyInv'
    BY <1>a, <2>1, <2>2, <2>3
  <2>5. QED
    BY <1>b, <2>1, <2>4
<1>7. ASSUME NEW c \in Byte, So_fputc(c) PROVE ChunkInv' /\ CopyInv'
  <2>1. f'.chunk_number = f.chunk_number
    BY <1>7, <1>a DEF So_fputc, Emptied, SoFile
  <2>2. call'.op = "fputc" /\ failed' = failed /\ phase \notin {"reading", "lost"} /\ pc' # "refill"
    BY <1>7, <1>b DEF So_fputc, CanWrite, Begin, NoCall, PromiseAssumption, IfFull
  <2>3. QED
    BY <1>b, <2>1, <2>2
<1>8. ASSUME NEW n \in 1..MaxRequest, So_fwrite(n) PROVE ChunkInv' /\ CopyInv'
  BY <1>8, <1>b DEF So_fwrite, CanWrite, Begin, NoCall, PromiseAssumption
<1>9. QED
  <2>1. MaxSize \in Nat
    BY StreamAssumption
  <2>2. QED
    BY <2>1, <1>1, <1>2, <1>3, <1>4, <1>5, <1>6, <1>7, <1>8 DEF Caller

\* While bytes wait to be written no chunk is remembered and nothing is read.
LEMMA WritingReads ==
  ASSUME IInv, StreamInv, FlushStep \/ PutStep
  PROVE  ChunkInv' /\ CopyInv'
<1> USE DEF ChunkInv, CopyInv, Loaded
<1>a. f \in SoFile /\ call \in Call /\ call.op \in Operation
  BY FieldTypes
<1>b. failed => failed'
  BY DEF FlushStep, SysWrite, SysWriteFails, FlushDone, PutStep, FwriteNext, FwriteReturns,
         FputcFlushFailed, FputcStores
<1>c. ASSUME ~failed PROVE phase = "writing" /\ f.chunk_number = -1 /\ call.op \notin Gets
  <2>1. phase = "writing"
    BY <1>c DEF StreamInv, WaitInv, LandInv, PendingInv, CallInv, Puts, Looping, Running, FlushStep,
                SysWrite, SysWriteFails, FlushDone, PutStep, FwriteNext, FwriteReturns,
                FputcFlushFailed, FputcStores
  <2>2. pc # "idle"
    BY DEF Looping, Running, FlushStep, SysWrite, SysWriteFails, FlushDone, PutStep, FwriteNext,
           FwriteReturns, FputcFlushFailed, FputcStores
  <2>3. QED
    BY <1>c, <2>1, <2>2 DEF StreamInv, LandInv, CallInv
<1>1. f'.chunk_number = f.chunk_number
  BY <1>a DEF FlushStep, SysWrite, SysWriteFails, FlushDone, Flushed, PutStep, FwriteNext, Emptied,
              FwriteReturns, FputcFlushFailed, FputcStores, Stored, SoFile
<1>2. pc' # "refill" /\ (pc' = "idle" \/ call'.op = call.op)
  <2>1. CASE FlushStep
    BY <1>a, <2>1 DEF FlushStep, SysWrite, SysWriteFails, FlushDone, Call
  <2>2. CASE PutStep
    <3>1. CASE \E c \in Byte : FwriteNext(c)
      BY <1>a, <3>1 DEF FwriteNext, IfFull, Call
    <3>2. CASE FwriteReturns
      BY <3>2 DEF FwriteReturns, Return
    <3>3. ASSUME NEW rc, AfterPut(rc) PROVE pc' # "refill" /\ (pc' = "idle" \/ call'.op = call.op)
      <4>1. CASE call.op = "fputc"
        BY <3>3, <4>1 DEF AfterPut, Return
      <4>2. CASE call.op # "fputc"
        BY <1>a, <3>3, <4>2 DEF AfterPut, Call
      <4>3. QED
        BY <4>1, <4>2
    <3>4. CASE FputcFlushFailed \/ FputcStores
      BY <3>3, <3>4 DEF FputcFlushFailed, FputcStores
    <3>5. QED
      BY <2>2, <3>1, <3>2, <3>4 DEF PutStep
  <2>3. QED
    BY <2>1, <2>2
<1>3. QED
  BY <1>b, <1>c, <1>1, <1>2 DEF Gets

\* A call that ends keeps what was read, and a seek forgets the chunk.
LEMMA BodyReads ==
  ASSUME IInv, StreamInv, FcloseBody \/ FflushBody \/ SeekStep
  PROVE  ChunkInv' /\ CopyInv'
<1> USE DEF ChunkInv, CopyInv, Loaded
<1>a. f \in SoFile /\ pc' = "idle" /\ failed' = failed /\ file' = file
  BY FieldTypes DEF FcloseBody, FflushBody, SeekStep, FseekFlushFailed, FseekMoves, FseekOutOfRange,
                    Return
<1>b. ChunkInv
  BY DEF StreamInv
<1>1. CASE FcloseBody
  <2>1. f'.chunk_number = -1
    BY <1>1 DEF FcloseBody, NewStream
  <2>2. QED
    BY <1>a, <2>1
<1>2. CASE FflushBody
  BY <1>2, <1>a, <1>b DEF FflushBody
<1>3. CASE FseekFlushFailed
  <2>1. failed
    BY <1>3 DEF FseekFlushFailed, StreamInv, LandInv, CallInv
  <2>2. QED
    BY <1>a, <2>1
<1>4. CASE FseekMoves
  <2>1. f'.chunk_number = -1
    BY <1>4, <1>a DEF FseekMoves, Sought, SoFile
  <2>2. QED
    BY <1>a, <2>1
<1>5. CASE FseekOutOfRange
  <2>1. /\ f'.chunk_number = f.chunk_number /\ f'.buffer = f.buffer /\ f'.buffer_pos = f.buffer_pos
        /\ phase' = "lost"
    BY <1>5, <1>a DEF FseekOutOfRange, SoFile
  <2>2. QED
    BY <1>a, <1>b, <2>1
<1>6. QED
  BY <1>1, <1>2, <1>3, <1>4, <1>5 DEF SeekStep

\* The chunk a cursor is in and its place there give the cursor.
LEMMA CursorSplit ==
  ASSUME NEW c \in Nat, NEW b \in Nat, b > 0
  PROVE  c = b * (c \div b) + (c % b)
<1>1. c = (c \div b) * b + (c % b)
  OBVIOUS
<1>2. c \div b \in Int
  OBVIOUS
<1>3. \A q \in Int : q * b = b * q
  OBVIOUS
<1>4. (c \div b) * b = b * (c \div b)
  BY <1>2, <1>3, Zenon
<1>5. QED
  BY <1>1, <1>4, Zenon

\* The cursor is at a place of a chunk.
LEMMA CursorInChunk ==
  ASSUME f.cursor \in Nat
  PROVE  f.cursor = BUFFER_SIZE * Chunk + Index
<1>1. BUFFER_SIZE \in Nat /\ BUFFER_SIZE > 0
  BY StreamAssumption
<1>2. f.cursor = BUFFER_SIZE * (f.cursor \div BUFFER_SIZE) + (f.cursor % BUFFER_SIZE)
  BY <1>1, CursorSplit, Zenon
<1>3. QED
  BY <1>2, Zenon DEF Chunk, Index

\* What a caller that reads knows: nothing waits to be written.
LEMMA Reading ==
  ASSUME IInv, StreamInv, ~failed, pc # "idle", call.op \in Gets
  PROVE  /\ phase = "reading" /\ mode # "closed" /\ f.last_op = "r" /\ f.err_ind # -2 /\ call.rc = 0
         /\ f.cursor \in Nat
<1>1. phase = "reading" /\ call.rc = 0
  BY FieldTypes DEF StreamInv, LandInv, CallInv
<1>2. mode # "closed" /\ f.last_op = "r" /\ f.err_ind # -2
  BY <1>1, FieldTypes DEF StreamInv, WaitInv
<1>3. f.cursor \in Nat
  BY <1>1, FieldTypes DEF IInv, CursorInv
<1>4. QED
  BY <1>1, <1>2, <1>3

\* Without short reads a read brings what is left, up to a buffer.
LEMMA WholeRead ==
  ASSUME ~ShortReads, NEW at \in Nat, Len(file) \in Nat
  PROVE  /\ ReadCounts(at) = {Smaller(Larger(0, Len(file) - at), BUFFER_SIZE)}
         /\ at >= Len(file) => ReadCounts(at) = {0}
         /\ 0 \in ReadCounts(at) => at >= Len(file)
BY StreamAssumption DEF ReadCounts, Smaller, Larger

\* The chunk in the buffer tells the end of the file and the byte at the cursor.
LEMMA ChunkTells ==
  ASSUME IInv, StreamInv, ~failed, InGetc, Chunk = f.chunk_number
  PROVE  /\ Index >= f.buffer_pos => f.cursor >= Len(file)
         /\ Index < f.buffer_pos => f.cursor < Len(file) /\ f.buffer[Index] = file[f.cursor + 1]
<1> DEFINE at == BUFFER_SIZE * Chunk
<1>1. Chunk \in Nat /\ Index \in 0..BUFFER_SIZE-1 /\ at \in Nat
  BY IndexTypes DEF InGetc, Running
<1>2. f.cursor = at + Index
  <2>1. f.cursor \in Nat
    BY Reading DEF InGetc, Running, Gets
  <2>2. QED
    BY <2>1, CursorInChunk
<1>3. Loaded(at)
  BY <1>1 DEF StreamInv, ChunkInv
<1> HIDE DEF at
<1>4. Len(file) \in Nat /\ BUFFER_SIZE \in Nat
  BY FieldTypes, StreamAssumption
<1>5. QED
  BY <1>1, <1>2, <1>3, <1>4 DEF Loaded, Smaller, Larger

\* The end of the data without a failure: so_fgetc returns, so_fread reads on its own.
LEMMA EndOfData ==
  ASSUME IInv, NEW g, GetcEof(g), g.err_ind # -2, Running(Gets)
  PROVE  \/ call.op = "fgetc" /\ Return(SO_EOF, <<>>)
         \/ /\ call.op = "fread" /\ pc' = "refill" /\ ret' = ret
            /\ call'.op = "fread" /\ call'.start = call.start /\ call'.want = call.want
            /\ call'.out = call.out
<1>1. call \in Call
  BY FieldTypes
<1>2. QED
  BY <1>1 DEF GetcEof, Running, Gets, Call

\* What is left of the invariant when so_fgetc has met the end of the file.
LEMMA EndCopies ==
  ASSUME IInv, StreamInv, ~failed, NEW g, GetcEof(g), g.err_ind # -2, Running(Gets),
         f.cursor >= Len(file), f'.cursor = f.cursor, file' = file
  PROVE  CopyInv'
<1>a. /\ Len(file) \in Nat /\ f.cursor \in Int /\ call.want \in Nat /\ Len(call.out) \in Nat
      /\ call.start \in Int
  BY FieldTypes
<1>1. CASE call.op = "fgetc"
  BY <1>1, EndOfData DEF Return, CopyInv
<1>2. CASE call.op = "fread"
  <2>1. /\ pc' = "refill" /\ call'.op = "fread" /\ call'.start = call.start
        /\ call'.want = call.want /\ call'.out = call.out
    BY <1>2, EndOfData
  <2>2. /\ call.start \in Nat /\ call.want \in 1..MaxRequest
        /\ f.cursor = call.start + Len(call.out) /\ f.cursor <= Len(file)
        /\ \A j \in 1..Len(call.out) : call.out[j] = file[call.start + j]
        /\ call.start = 0 \/ call.start + call.want <= Len(file)
    BY <1>2 DEF StreamInv, CopyInv, Running
  <2>3. Len(call.out) < call.want
    BY <1>2 DEF IInv, GetInv, Running
  <2>4. call.start = 0 /\ f.cursor = Len(file)
    BY <1>a, <2>2, <2>3
  <2>5. QED
    BY <2>1, <2>2, <2>4 DEF CopyInv
<1>3. QED
  BY <1>1, <1>2 DEF Running, Gets

\* so_fgetc delivers what follows the cursor.
LEMMA GetReads ==
  ASSUME PromiseAssumption, IInv, StreamInv, GetStep
  PROVE  ChunkInv' /\ CopyInv'
<1>1. CASE failed'
  BY <1>1 DEF ChunkInv, CopyInv
<1>2. CASE ~failed'
  <2>A. ~FgetcLoadFails
    BY <1>2 DEF FgetcLoadFails
  <2>a. ~failed /\ Running(Gets) /\ file' = file /\ phase' = phase
    <3>1. CASE FgetcFlushFailed
      BY <1>2, <3>1 DEF FgetcFlushFailed, Gets
    <3>2. CASE FgetcLoads
      BY <1>2, <3>2 DEF FgetcLoads, InGetc, Gets
    <3>3. CASE FgetcPastBuffer
      BY <1>2, <3>3 DEF FgetcPastBuffer, InGetc, Gets
    <3>4. CASE FgetcTakes
      BY <1>2, <3>4 DEF FgetcTakes, InGetc, Gets
    <3>5. QED
      BY <2>A, <3>1, <3>2, <3>3, <3>4 DEF GetStep
  <2>b. /\ f \in SoFile /\ call \in Call /\ Len(file) \in Nat /\ call.out \in Seq(Byte)
        /\ Len(call.out) \in Nat /\ call.start \in Int /\ f.cursor \in Int /\ file \in Seq(Byte)
    BY FieldTypes
  <2>c. /\ phase = "reading" /\ f.last_op = "r" /\ f.err_ind # -2 /\ call.rc = 0 /\ f.cursor \in Nat
    BY <2>a, Reading DEF Running
  <2>d. ChunkInv /\ CopyInv /\ ~FgetcFlushFailed
    BY <2>c DEF StreamInv, FgetcFlushFailed
  <2>1. CASE FgetcLoads
    <3> DEFINE at == BUFFER_SIZE * Chunk
    <3>1. Chunk \in Nat /\ at \in Nat /\ Index \in Nat /\ f.cursor = at + Index
      <4>1. Chunk \in Nat /\ at \in Nat /\ Index \in Nat
        BY <2>a, IndexTypes DEF Running, Gets
      <4>2. f.cursor = at + Index
        BY <2>c, CursorInChunk
      <4>3. QED
        BY <4>1, <4>2
    <3>2. PICK k \in ReadCounts(at) :
            /\ f' = [f EXCEPT !.chunk_number = Chunk, !.buffer = Filled(at, k),
                              !.buffer_pos = k, !.eof = IF k = 0 THEN 1 ELSE @]
            /\ IF k = 0 THEN GetcEof(f') ELSE UNCHANGED <<pc, call, ret>>
      BY <2>1 DEF FgetcLoads
    <3>3. /\ f'.chunk_number = Chunk /\ f'.buffer = Filled(at, k) /\ f'.buffer_pos = k
          /\ f'.cursor = f.cursor /\ f'.err_ind = f.err_ind
      BY <2>b, <3>2 DEF SoFile
    <3> HIDE DEF at
    <3>4. /\ k = Smaller(Larger(0, Len(file) - at), BUFFER_SIZE)
          /\ k = 0 => at >= Len(file)
      BY <2>b, <3>1, <3>2, WholeRead DEF PromiseAssumption
    <3>5. ASSUME NEW i \in 0..k-1 PROVE Filled(at, k)[i] = file[at + i + 1]
      <4>1. i \in 0..BUFFER_SIZE-1 /\ i < k
        BY <2>b, <3>1, <3>4, StreamAssumption DEF Smaller, Larger
      <4>2. QED
        BY <4>1 DEF Filled
    <3>6. /\ f'.buffer_pos = Smaller(Larger(0, Len(file') - at), BUFFER_SIZE)
          /\ \A i \in 0..f'.buffer_pos-1 : f'.buffer[i] = file'[at + i + 1]
      BY <2>a, <3>3, <3>4, <3>5
    <3>7. ChunkInv'
      <4>1. at = BUFFER_SIZE * f'.chunk_number
        BY <3>3 DEF at
      <4>2. QED
        BY <2>a, <2>c, <3>6, <4>1 DEF ChunkInv, Loaded
    <3>8. CASE k = 0
      <4>1. f.cursor >= Len(file)
        BY <2>b, <3>1, <3>4, <3>8
      <4>2. CopyInv'
        BY <2>a, <2>c, <3>2, <3>3, <3>8, <4>1, EndCopies
      <4>3. QED
        BY <3>7, <4>2
    <3>9. CASE k # 0
      <4>1. pc' = pc /\ call' = call
        BY <3>2, <3>9
      <4>2. QED
        BY <2>a, <2>d, <3>3, <3>7, <4>1 DEF CopyInv
    <3>10. QED
      BY <3>8, <3>9
  <2>2. CASE FgetcPastBuffer
    <3>1. f.cursor >= Len(file)
      BY <2>2, <2>a, ChunkTells DEF FgetcPastBuffer
    <3>2. /\ f'.cursor = f.cursor /\ f'.chunk_number = f.chunk_number /\ f'.buffer = f.buffer
          /\ f'.buffer_pos = f.buffer_pos /\ f'.err_ind # -2 /\ GetcEof(f')
      BY <2>2, <2>b DEF FgetcPastBuffer, SoFile, SO_EOF
    <3>3. CopyInv'
      BY <2>a, <3>1, <3>2, EndCopies
    <3>4. QED
      BY <2>a, <2>d, <3>2, <3>3 DEF ChunkInv, Loaded
  <2>3. CASE FgetcTakes
    <3>1. f.cursor < Len(file) /\ f.buffer[Index] = file[f.cursor + 1]
      BY <2>3, <2>a, ChunkTells DEF FgetcTakes
    <3>2. /\ f'.cursor = f.cursor + 1 /\ f'.chunk_number = f.chunk_number /\ f'.buffer = f.buffer
          /\ f'.buffer_pos = f.buffer_pos
      BY <2>3, <2>b DEF FgetcTakes, SoFile
    <3>3. ChunkInv'
      BY <2>a, <2>d, <3>2 DEF ChunkInv, Loaded
    <3>4. CASE call.op = "fgetc"
      BY <2>3, <3>3, <3>4 DEF FgetcTakes, Return, CopyInv
    <3>5. CASE call.op = "fread"
      <4>1. call' = [call EXCEPT !.out = Append(call.out, f.buffer[Index])] /\ pc' = "loop"
        BY <2>3, <3>5 DEF FgetcTakes
      <4>2. /\ call'.op = "fread" /\ call'.start = call.start /\ call'.want = call.want
            /\ call'.out = Append(call.out, file[f.cursor + 1])
        BY <2>b, <3>1, <3>5, <4>1 DEF Call
      <4>3. /\ call.start \in Nat /\ call.want \in 1..MaxRequest
            /\ f.cursor = call.start + Len(call.out)
            /\ \A j \in 1..Len(call.out) : call.out[j] = file[call.start + j]
            /\ call.start = 0 \/ call.start + call.want <= Len(file)
        BY <2>a, <2>d, <3>5 DEF CopyInv, Running
      <4>4. /\ Len(call'.out) = Len(call.out) + 1
            /\ \A j \in 1..Len(call.out) : call'.out[j] = call.out[j]
            /\ call'.out[Len(call.out) + 1] = file[f.cursor + 1]
        BY <2>b, <4>2
      <4>5. \A j \in 1..Len(call'.out) : call'.out[j] = file[call.start + j]
        <5>1. ASSUME NEW j \in 1..Len(call'.out) PROVE call'.out[j] = file[call.start + j]
          <6>1. CASE j \in 1..Len(call.out)
            BY <4>3, <4>4, <6>1
          <6>2. CASE j = Len(call.out) + 1
            <7>1. f.cursor = call.start + Len(call.out)
              BY <4>3
            <7>a. Len(call.out) \in Nat /\ call.start \in Int
              BY <2>b
            <7>b. call.start + j = f.cursor + 1
              BY <6>2, <7>1, <7>a
            <7>2. QED
              BY <4>4, <6>2, <7>b
          <6>3. QED
            BY <2>b, <4>4, <6>1, <6>2
        <5>2. QED
          BY <5>1
      <4>6. f'.cursor <= Len(file) /\ f'.cursor = call.start + Len(call'.out)
        <5>1. /\ f.cursor \in Int /\ Len(file) \in Int /\ Len(call.out) \in Int /\ call.start \in Int
              /\ f.cursor < Len(file) /\ f.cursor = call.start + Len(call.out)
          BY <2>b, <3>1, <4>3
        <5>2. f'.cursor = f.cursor + 1 /\ Len(call'.out) = Len(call.out) + 1
          BY <3>2, <4>4
        <5>3. QED
          BY <5>1, <5>2
      <4>7. CopyInv'
        BY <2>a, <4>1, <4>2, <4>3, <4>5, <4>6 DEF CopyInv
      <4>8. QED
        BY <3>3, <4>7
    <3>6. QED
      BY <2>a, <3>4, <3>5 DEF Running, Gets
  <2>4. QED
    BY <2>A, <2>d, <2>1, <2>2, <2>3 DEF GetStep
<1>3. QED
  BY <1>1, <1>2

\* so_fread reads on its own only at the end of the file, where nothing is left.
LEMMA RefillAtEnd ==
  ASSUME PromiseAssumption, IInv, StreamInv, ~failed, pc = "refill"
  PROVE  /\ call.op = "fread" /\ call.start = 0 /\ Len(call.out) = Len(file)
         /\ ReadCounts(Len(call.out)) = {0}
<1>1. call.op = "fread" /\ Len(file) \in Nat /\ Len(call.out) \in Nat
  BY FieldTypes DEF IInv, GetInv
<1>2. call.start = 0 /\ Len(call.out) = Len(file)
  BY <1>1 DEF StreamInv, CopyInv
<1>3. QED
  BY <1>1, <1>2, WholeRead DEF PromiseAssumption

\* so_fread keeps what it has copied in step with the cursor.
LEMMA FreadReads ==
  ASSUME PromiseAssumption, IInv, StreamInv, FreadStep
  PROVE  ChunkInv' /\ CopyInv'
<1>1. CASE failed'
  BY <1>1 DEF ChunkInv, CopyInv
<1>2. CASE ~failed'
  <2>A. ~FreadRefillFails
    BY <1>2 DEF FreadRefillFails
  <2>a. ~failed /\ file' = file /\ phase' = phase /\ call.op = "fread" /\ pc # "idle"
    <3>1. CASE FreadNext
      BY <1>2, <3>1 DEF FreadNext, Looping
    <3>2. CASE FreadReturns
      BY <1>2, <3>2 DEF FreadReturns, Looping
    <3>3. CASE FreadRefills
      BY <1>2, <3>3 DEF FreadRefills, IInv, GetInv
    <3>4. QED
      BY <2>A, <3>1, <3>2, <3>3 DEF FreadStep
  <2>b. f.last_op = "r" /\ f \in SoFile
    BY <2>a, Reading, FieldTypes DEF Gets
  <2>c. ChunkInv /\ CopyInv
    BY DEF StreamInv
  <2>1. CASE FreadNext
    BY <2>1, <2>a, <2>b, <2>c DEF FreadNext, IfDirty, ChunkInv, CopyInv, Loaded
  <2>2. CASE FreadReturns
    BY <2>2, <2>a, <2>c DEF FreadReturns, Return, ChunkInv, CopyInv, Loaded
  <2>3. CASE FreadRefills
    <3>1. f' = [f EXCEPT !.eof = 1] /\ pc' = "idle"
      BY <2>3, <2>a, RefillAtEnd DEF FreadRefills, Return
    <3>2. /\ f'.chunk_number = f.chunk_number /\ f'.buffer = f.buffer /\ f'.buffer_pos = f.buffer_pos
      BY <2>b, <3>1 DEF SoFile
    <3>3. QED
      BY <2>a, <2>c, <3>1, <3>2 DEF ChunkInv, CopyInv, Loaded
  <2>4. QED
    BY <2>A, <2>1, <2>2, <2>3 DEF FreadStep
<1>3. QED
  BY <1>1, <1>2

\* Every step keeps the chunk and what was copied true to the file.
LEMMA NextReads ==
  ASSUME IInv, PromiseAssumption => StreamInv, [Next]_vars
  PROVE  PromiseAssumption => StreamInv'
<1> SUFFICES ASSUME PromiseAssumption PROVE StreamInv'
  OBVIOUS
<1>1. LandInv' /\ WaitInv' /\ SizeInv'
  BY NextSizes DEF PromiseAssumption, StreamInv
<1>2. ChunkInv' /\ CopyInv'
  <2>1. CASE Next
    BY <2>1, CallerReads, WritingReads, BodyReads, GetReads, FreadReads DEF Next, Library
  <2>2. CASE UNCHANGED vars
    BY <2>2 DEF vars, StreamInv, ChunkInv, CopyInv, Loaded
  <2>3. QED
    BY <2>1, <2>2
<1>3. QED
  BY <1>1, <1>2 DEF StreamInv

\* Only so_fgetc and so_fread raise the end-of-file indicator.
LEMMA EofRaised ==
  ASSUME IInv, [Next]_vars, f.eof = 0, f'.eof = 1
  PROVE  FgetcLoads \/ FgetcPastBuffer \/ FreadRefills
<1>1. f \in SoFile
  BY FieldTypes
<1>2. f' # f /\ f'.eof # f.eof
  OBVIOUS
<1>3. ASSUME Caller PROVE FALSE
  <2>1. ASSUME NEW m \in Modes, So_fopen(m) PROVE FALSE
    BY <2>1 DEF So_fopen, NewStream
  <2>2. ASSUME NEW c \in Byte, So_fputc(c) PROVE FALSE
    <3>1. f'.eof = f.eof
      BY <1>1, <2>2 DEF So_fputc, Emptied, SoFile
    <3>2. QED
      BY <1>2, <3>1
  <2>3. QED
    BY <1>2, <1>3, <2>1, <2>2 DEF Caller, So_fclose, So_fflush, So_fseek, So_fgetc, So_fread, So_fwrite
<1>4. ASSUME FlushStep PROVE FALSE
  <2>1. CASE SysWriteFails
    BY <1>1, <1>2, <2>1 DEF SysWriteFails, SoFile
  <2>2. CASE FlushDone
    BY <1>1, <1>2, <2>2 DEF FlushDone, Flushed, SoFile
  <2>3. QED
    BY <1>2, <1>4, <2>1, <2>2 DEF FlushStep, SysWrite
<1>5. ASSUME FcloseBody \/ FflushBody PROVE FALSE
  BY <1>2, <1>5 DEF FcloseBody, NewStream, FflushBody
<1>6. ASSUME SeekStep PROVE FALSE
  <2>1. CASE FseekFlushFailed
    BY <1>1, <1>2, <2>1 DEF FseekFlushFailed, SoFile
  <2>2. CASE FseekMoves
    BY <1>1, <1>2, <2>2 DEF FseekMoves, Sought, SoFile
  <2>3. CASE FseekOutOfRange
    BY <1>1, <1>2, <2>3 DEF FseekOutOfRange, SoFile
  <2>4. QED
    BY <1>6, <2>1, <2>2, <2>3 DEF SeekStep
<1>7. ASSUME PutStep PROVE FALSE
  <2>1. ASSUME NEW c \in Byte, FwriteNext(c) PROVE FALSE
    <3>1. f'.eof = f.eof
      BY <1>1, <2>1 DEF FwriteNext, Emptied, SoFile
    <3>2. QED
      BY <1>2, <3>1
  <2>2. CASE FputcFlushFailed
    BY <1>1, <1>2, <2>2 DEF FputcFlushFailed, SoFile
  <2>3. CASE FputcStores
    <3>1. f'.eof = f.eof
      BY <1>1, <2>3 DEF FputcStores, Stored, SoFile
    <3>2. QED
      BY <1>2, <3>1
  <2>4. QED
    BY <1>2, <1>7, <2>1, <2>2, <2>3 DEF PutStep, FwriteReturns
<1>8. ASSUME GetStep PROVE FgetcLoads \/ FgetcPastBuffer
  <2>1. ~FgetcLoadFails
    BY <1>1, <1>2 DEF FgetcLoadFails, SoFile
  <2>2. ~FgetcTakes
    BY <1>1, <1>2 DEF FgetcTakes, SoFile
  <2>3. QED
    BY <1>2, <1>8, <2>1, <2>2 DEF GetStep, FgetcFlushFailed
<1>9. ASSUME FreadStep PROVE FreadRefills
  BY <1>1, <1>2, <1>9 DEF FreadStep, FreadNext, FreadReturns, FreadRefillFails, SoFile
<1>10. QED
  BY <1>2, <1>3, <1>4, <1>5, <1>6, <1>7, <1>8, <1>9 DEF Next, Library, vars

\* A chunk shorter than the buffer, an empty read and the read so_fread makes on its
\* own raise the end-of-file indicator with the cursor at the end of the file.
THEOREM EofTellsTheEnd ==
  ASSUME PromiseAssumption
  PROVE  Spec => EofOnlyAtEnd
<1>1. ASSUME IInv, StreamInv, [Next]_vars, f.eof = 0, f'.eof = 1, ~failed
      PROVE  f'.cursor >= Len(file)
  <2>1. f \in SoFile /\ Len(file) \in Nat /\ f.cursor \in Int
    BY <1>1, FieldTypes
  <2>2. CASE FgetcLoads
    <3>1. f.cursor \in Nat /\ Chunk \in Nat /\ Index \in Nat
      BY <1>1, <2>2, Reading, IndexTypes DEF FgetcLoads, InGetc, Running, Gets
    <3>2. f.cursor = BUFFER_SIZE * Chunk + Index /\ BUFFER_SIZE * Chunk \in Nat
      BY <3>1, CursorInChunk, StreamAssumption
    <3>3. PICK k \in ReadCounts(BUFFER_SIZE * Chunk) :
            f' = [f EXCEPT !.chunk_number = Chunk, !.buffer = Filled(BUFFER_SIZE * Chunk, k),
                           !.buffer_pos = k, !.eof = IF k = 0 THEN 1 ELSE @]
      BY <2>2 DEF FgetcLoads
    <3>4. k = 0 /\ f'.cursor = f.cursor
      BY <1>1, <2>1, <3>3 DEF SoFile
    <3>5. BUFFER_SIZE * Chunk >= Len(file)
      BY <2>1, <3>2, <3>3, <3>4, WholeRead DEF PromiseAssumption
    <3> DEFINE at == BUFFER_SIZE * Chunk
    <3> HIDE DEF at
    <3>6. f.cursor = at + Index /\ at >= Len(file) /\ at \in Nat
      BY <3>2, <3>5 DEF at
    <3>7. QED
      BY <2>1, <3>1, <3>4, <3>6
  <2>3. CASE FgetcPastBuffer
    <3>1. f'.cursor = f.cursor
      BY <2>1, <2>3 DEF FgetcPastBuffer, SoFile
    <3>2. QED
      BY <1>1, <2>3, <3>1, ChunkTells DEF FgetcPastBuffer
  <2>4. CASE FreadRefills
    <3>1. f' = [f EXCEPT !.eof = 1] /\ f.cursor = Len(file)
      BY <1>1, <2>1, <2>4, RefillAtEnd DEF FreadRefills, StreamInv, CopyInv
    <3>2. QED
      BY <2>1, <3>1 DEF SoFile
  <2>5. QED
    BY <1>1, <2>2, <2>3, <2>4, EofRaised
<1>2. Init => IInv /\ StreamInv
  BY InitIInv, InitLand, InitSize, InitReads DEF StreamInv
<1>3. IInv /\ StreamInv /\ [Next]_vars => IInv' /\ StreamInv'
  BY NextKeepsIInv, NextReads
<1>4. IInv /\ StreamInv /\ [Next]_vars
        => [(f.eof = 0 /\ f'.eof = 1 /\ ~failed) => f'.cursor >= Len(file)]_vars
  BY <1>1
<1>5. QED
  BY <1>2, <1>3, <1>4, PTL DEF Spec, EofOnlyAtEnd

-----------------------------------------------------------------------------
(***************************************************************************)
(* The stream as ByteStream sees it, and the bytes of a file.              *)
(***************************************************************************)
\* The position of the caller, and what it has just read: pos and ret of ByteStream.
Position  == IF call.op = "fread" THEN call.start ELSE f.cursor
Delivered == IF pc = "idle" /\ ret.op \in {"fgetc", "fread"}
             THEN [read |-> TRUE, want |-> ret.want, bytes |-> ret.out]
             ELSE [read |-> FALSE, want |-> 0, bytes |-> <<>>]
Nothing   == [read |-> FALSE, want |-> 0, bytes |-> <<>>]

\* The steps of ByteStream, with the state of the stream in place of its variables.
Put(c) ==
  /\ Position >= 0
  /\ Content' = IF Appending THEN Append(Content, c) ELSE Overwrite(Content, Position, <<c>>)
  /\ Position' = Position + 1
  /\ Delivered' = Nothing
  /\ Appending' = Appending /\ failed' = failed

ReadOf(n) ==
  /\ Position >= 0
  /\ Delivered' = [read |-> TRUE, want |-> n, bytes |-> Following(Content, Position, n)]
  /\ Position' = Position + Len(Following(Content, Position, n))
  /\ Content' = Content /\ Appending' = Appending /\ failed' = failed

Move ==
  /\ Position' \in Int
  /\ Delivered' = Nothing
  /\ Content' = Content /\ Appending' = Appending /\ failed' = failed

Same ==
  /\ Position' = Position /\ Delivered' = Delivered
  /\ Content' = Content /\ Appending' = Appending /\ failed' = failed

-----------------------------------------------------------------------------
\* Two sequences of bytes with the same bytes are the same.
LEMMA SameBytes ==
  ASSUME NEW a \in Seq(Byte), NEW b \in Seq(Byte), Len(a) = Len(b),
         \A i \in 1..Len(a) : a[i] = b[i]
  PROVE  a = b
OBVIOUS

\* Where the bytes of two sequences are when one follows the other.
LEMMA Followed ==
  ASSUME NEW p \in Seq(Byte), NEW q \in Seq(Byte)
  PROVE  /\ p \o q \in Seq(Byte) /\ Len(p \o q) = Len(p) + Len(q)
         /\ \A j \in 1..Len(p) : (p \o q)[j] = p[j]
         /\ \A j \in 1..Len(q) : (p \o q)[Len(p) + j] = q[j]
OBVIOUS

\* What write leaves at every place of the file.
LEMMA OverwriteAt ==
  ASSUME NEW s \in Seq(Byte), NEW at \in Nat, NEW bytes \in Seq(Byte)
  PROVE  /\ Overwrite(s, at, bytes) \in Seq(Byte)
         /\ Len(Overwrite(s, at, bytes)) =
              IF bytes = <<>> THEN Len(s) ELSE Larger(Len(s), at + Len(bytes))
         /\ \A i \in 1..Len(Overwrite(s, at, bytes)) :
              Overwrite(s, at, bytes)[i] =
                IF at < i /\ i <= at + Len(bytes) THEN bytes[i - at]
                ELSE IF i <= Len(s) THEN s[i] ELSE 0
<1>1. Overwrite(s, at, bytes) \in Seq(Byte)
  BY OverwriteType
<1>2. Len(Overwrite(s, at, bytes)) =
        IF bytes = <<>> THEN Len(s) ELSE Larger(Len(s), at + Len(bytes))
  BY OverwriteLen
<1>3. CASE bytes = <<>>
  BY <1>1, <1>2, <1>3 DEF Overwrite
<1>4. CASE bytes # <<>>
  <2> DEFINE n == Larger(Len(s), at + Len(bytes))
  <2>1. Overwrite(s, at, bytes) =
          [i \in 1..n |-> IF at < i /\ i <= at + Len(bytes) THEN bytes[i - at]
                          ELSE IF i <= Len(s) THEN s[i] ELSE 0]
    BY <1>4 DEF Overwrite
  <2>2. Len(Overwrite(s, at, bytes)) = n
    BY <1>2, <1>4
  <2> HIDE DEF n
  <2>3. QED
    BY <1>1, <1>2, <2>1, <2>2
<1>5. QED
  BY <1>3, <1>4

\* A write in two parts stores what one write stores.
LEMMA OverwriteTwice ==
  ASSUME NEW s \in Seq(Byte), NEW at \in Nat, NEW p \in Seq(Byte), NEW q \in Seq(Byte)
  PROVE  Overwrite(Overwrite(s, at, p), at + Len(p), q) = Overwrite(s, at, p \o q)
<1> DEFINE r == p \o q
<1>0. /\ r \in Seq(Byte) /\ Len(r) = Len(p) + Len(q)
      /\ \A j \in 1..Len(p) : r[j] = p[j]
      /\ \A j \in 1..Len(q) : r[Len(p) + j] = q[j]
  OBVIOUS
<1> HIDE DEF r
<1>a. Len(p) \in Nat /\ Len(q) \in Nat /\ Len(s) \in Nat /\ Len(r) \in Nat
      /\ Len(r) = Len(p) + Len(q)
  BY <1>0
<1>b. (p = <<>> <=> Len(p) = 0) /\ (q = <<>> <=> Len(q) = 0) /\ (r = <<>> <=> Len(r) = 0)
  BY <1>0
<1> DEFINE one == Overwrite(s, at, p)
           two == Overwrite(one, at + Len(p), q)
           all == Overwrite(s, at, r)
<1>1. /\ one \in Seq(Byte)
      /\ Len(one) = IF p = <<>> THEN Len(s) ELSE Larger(Len(s), at + Len(p))
      /\ \A i \in 1..Len(one) :
           one[i] = IF at < i /\ i <= at + Len(p) THEN p[i - at]
                    ELSE IF i <= Len(s) THEN s[i] ELSE 0
  BY OverwriteAt
<1>2. /\ all \in Seq(Byte)
      /\ Len(all) = IF r = <<>> THEN Len(s) ELSE Larger(Len(s), at + Len(r))
      /\ \A i \in 1..Len(all) :
           all[i] = IF at < i /\ i <= at + Len(r) THEN r[i - at]
                    ELSE IF i <= Len(s) THEN s[i] ELSE 0
  BY <1>0, OverwriteAt
<1> HIDE DEF one, all
<1>3. /\ two \in Seq(Byte)
      /\ Len(two) = IF q = <<>> THEN Len(one) ELSE Larger(Len(one), (at + Len(p)) + Len(q))
      /\ \A i \in 1..Len(two) :
           two[i] = IF at + Len(p) < i /\ i <= (at + Len(p)) + Len(q) THEN q[i - (at + Len(p))]
                    ELSE IF i <= Len(one) THEN one[i] ELSE 0
  <2>1. at + Len(p) \in Nat
    BY <1>a
  <2>2. QED
    BY <1>1, <2>1, OverwriteAt
<1> HIDE DEF two
<1>4. Len(two) = Len(all)
  <2>1. Len(one) = IF Len(p) = 0 THEN Len(s) ELSE Larger(Len(s), at + Len(p))
    BY <1>b, <1>1
  <2>2. Len(two) = IF Len(q) = 0 THEN Len(one) ELSE Larger(Len(one), (at + Len(p)) + Len(q))
    BY <1>b, <1>3
  <2>3. Len(all) = IF Len(r) = 0 THEN Len(s) ELSE Larger(Len(s), at + Len(r))
    BY <1>b, <1>2
  <2>4. Len(r) = Len(p) + Len(q)
    BY <1>a
  <2>5. CASE Len(p) = 0
    BY <1>a, <2>1, <2>2, <2>3, <2>4, <2>5
  <2>6. CASE Len(p) # 0 /\ Len(q) = 0
    BY <1>a, <2>1, <2>2, <2>3, <2>4, <2>6
  <2>7. CASE Len(p) # 0 /\ Len(q) # 0
    <3>1. Len(one) = Larger(Len(s), at + Len(p)) /\ Len(two) = Larger(Len(one), (at + Len(p)) + Len(q))
      BY <2>1, <2>2, <2>7
    <3>2. Len(all) = Larger(Len(s), at + (Len(p) + Len(q)))
      BY <1>a, <2>3, <2>4, <2>7
    <3>3. QED
      BY <1>a, <2>7, <3>1, <3>2 DEF Larger
  <2>8. QED
    BY <2>5, <2>6, <2>7
<1>5. ASSUME NEW i \in 1..Len(two) PROVE two[i] = all[i]
  <2>a. i \in Nat /\ i >= 1 /\ i \in 1..Len(all) /\ Len(one) \in Nat
    BY <1>1, <1>2, <1>3, <1>4
  <2>1. CASE at < i /\ i <= at + Len(p)
    <3>1. i \in 1..Len(one) /\ i - at \in 1..Len(p)
      BY <1>a, <1>b, <1>1, <2>a, <2>1 DEF Larger
    <3>2. one[i] = p[i - at]
      BY <1>1, <2>1, <3>1
    <3>a. ~(at + Len(p) < i) /\ i <= Len(one)
      BY <1>a, <2>a, <2>1, <3>1
    <3>3. two[i] = one[i]
      BY <1>3, <3>a
    <3>4. all[i] = r[i - at]
      BY <1>a, <1>2, <2>a, <2>1
    <3>5. QED
      BY <1>0, <3>1, <3>2, <3>3, <3>4
  <2>2. CASE at + Len(p) < i /\ i <= at + Len(r)
    <3>1. /\ i - (at + Len(p)) \in 1..Len(q) /\ i - at \in Int
          /\ Len(p) + (i - (at + Len(p))) = i - at
      BY <1>a, <2>a, <2>2
    <3>2. two[i] = q[i - (at + Len(p))]
      BY <1>a, <1>3, <2>a, <2>2
    <3>3. all[i] = r[i - at]
      BY <1>a, <1>2, <2>a, <2>2
    <3>4. r[Len(p) + (i - (at + Len(p)))] = q[i - (at + Len(p))]
      BY <1>0, <3>1
    <3>5. QED
      BY <3>1, <3>2, <3>3, <3>4
  <2>3. CASE ~(at < i /\ i <= at + Len(r))
    <3>1. all[i] = IF i <= Len(s) THEN s[i] ELSE 0
      BY <1>2, <2>a, <2>3
    <3>2. two[i] = IF i <= Len(one) THEN one[i] ELSE 0
      BY <1>a, <1>3, <2>a, <2>3
    <3>3. i <= Len(one) => one[i] = IF i <= Len(s) THEN s[i] ELSE 0
      BY <1>a, <1>1, <2>a, <2>3
    <3>4. i > Len(one) => ~(i <= Len(s))
      BY <1>a, <1>1, <2>a DEF Larger
    <3>5. QED
      BY <1>a, <2>a, <3>1, <3>2, <3>3, <3>4
  <2>4. QED
    BY <1>a, <2>a, <2>1, <2>2, <2>3
<1>6. two = all
  BY <1>2, <1>3, <1>4, <1>5, SameBytes
<1>7. QED
  BY <1>6 DEF two, one, all, r

\* A put at the end of the file appends.
LEMMA OverwriteEnd ==
  ASSUME NEW s \in Seq(Byte), NEW c \in Byte
  PROVE  Overwrite(s, Len(s), <<c>>) = Append(s, c)
<1> DEFINE e == <<c>>
           o == Overwrite(s, Len(s), e)
<1>1. Len(s) \in Nat /\ e \in Seq(Byte) /\ Len(e) = 1 /\ e # <<>> /\ e[1] = c
  OBVIOUS
<1> HIDE DEF e
<1>a. /\ o \in Seq(Byte)
      /\ Len(o) = IF e = <<>> THEN Len(s) ELSE Larger(Len(s), Len(s) + Len(e))
      /\ \A i \in 1..Len(o) :
           o[i] = IF Len(s) < i /\ i <= Len(s) + Len(e) THEN e[i - Len(s)]
                  ELSE IF i <= Len(s) THEN s[i] ELSE 0
  BY <1>1, OverwriteAt
<1> HIDE DEF o
<1>2. /\ o \in Seq(Byte)
      /\ Len(o) = Larger(Len(s), Len(s) + 1)
      /\ \A i \in 1..Len(o) : o[i] = IF Len(s) < i /\ i <= Len(s) + 1 THEN e[i - Len(s)]
                                     ELSE IF i <= Len(s) THEN s[i] ELSE 0
  BY <1>1, <1>a
<1>3. Len(o) = Len(s) + 1
  BY <1>1, <1>2 DEF Larger
<1>4. /\ Append(s, c) \in Seq(Byte) /\ Len(Append(s, c)) = Len(s) + 1
      /\ \A i \in 1..Len(s) : Append(s, c)[i] = s[i]
      /\ Append(s, c)[Len(s) + 1] = c
  OBVIOUS
<1>5. ASSUME NEW i \in 1..Len(o) PROVE o[i] = Append(s, c)[i]
  <2>1. CASE i \in 1..Len(s)
    BY <1>1, <1>2, <1>4, <2>1
  <2>2. CASE i = Len(s) + 1
    <3>1. i - Len(s) = 1
      BY <1>1, <2>2
    <3>2. o[i] = e[i - Len(s)]
      BY <1>1, <1>2, <1>3, <2>2
    <3>3. QED
      BY <1>1, <1>4, <2>2, <3>1, <3>2
  <2>3. QED
    BY <1>1, <1>3, <2>1, <2>2
<1>6. o = Append(s, c)
  BY <1>2, <1>3, <1>4, <1>5, SameBytes
<1>7. QED
  BY <1>6 DEF o, e

-----------------------------------------------------------------------------
(***************************************************************************)
(* The steps of the stream are steps of ByteStream.                        *)
(***************************************************************************)
\* What the caller must see of a stream where nothing waits, and of one that flushes.
LEMMA ContentFacts ==
  ASSUME IInv, StreamInv
  PROVE  /\ f.last_op = "r" => Content = file
         /\ f.last_op = "w" => f.buffer_pos \in Nat /\ call.n \in 0..f.buffer_pos
         /\ Content \in Seq(Byte)
<1>1. /\ f.buffer_pos \in Int /\ f.last_op \in {"r", "w"} /\ file \in Seq(Byte)
      /\ call.n \in Nat /\ WriteAt \in Nat
  BY FieldTypes DEF WriteAt
<1>2. f.last_op = "w" => f.buffer_pos \in Nat /\ call.n \in 0..f.buffer_pos
  BY <1>1 DEF IInv, BufferInv, FlushInv
<1>3. f.last_op = "w" => Slice(call.n, f.buffer_pos - call.n) \in Seq(Byte)
  BY <1>1, <1>2, SliceLen
<1>4. QED
  BY <1>1, <1>2, <1>3, OverwriteType DEF Content

\* so_fflush moves bytes from the buffer to the file: the caller sees no change.
LEMMA FlushIsSilent ==
  ASSUME IInv, StreamInv, FlushStep, ~failed'
  PROVE  Same
<1>a. /\ f \in SoFile /\ call \in Call /\ call.n \in Nat /\ f.buffer_pos \in Int
      /\ file \in Seq(Byte) /\ Len(file) \in Nat /\ offset \in Nat /\ WriteAt \in Nat
  BY FieldTypes DEF WriteAt
<1>b. ~SysWriteFails
  BY DEF SysWriteFails
<1>c. pc = "flush" /\ pc' = IF pc' = "flush" THEN "flush" ELSE "body"
  BY <1>b DEF FlushStep, SysWrite, FlushDone
<1>d. f.last_op = "w"
  BY <1>c DEF StreamInv, LandInv, PendingInv
<1>e. f.buffer_pos \in Nat /\ call.n \in 0..f.buffer_pos
  BY <1>d, ContentFacts
<1>1. ASSUME NEW k \in 1..BUFFER_SIZE, SysWrite(k) PROVE Same
  <2> DEFINE left == f.buffer_pos - call.n
  <2>1. /\ k \in 1..left /\ left \in Nat /\ k \in Nat /\ k \in 0..left
    BY <1>1, <1>e, StreamAssumption DEF SysWrite
  <2>2. /\ file' = Overwrite(file, WriteAt, Slice(call.n, k)) /\ offset' = WriteAt + k
        /\ f' = f /\ mode' = mode /\ pc' = pc /\ failed' = failed /\ ret' = ret
        /\ call'.n = call.n + k /\ call'.op = call.op /\ call'.start = call.start
    BY <1>1, <1>a DEF SysWrite, Call
  <2>3. /\ Slice(call.n, k) \in Seq(Byte) /\ Len(Slice(call.n, k)) = k
    BY <2>1, SliceLen
  <2>4. /\ Slice(call.n, left) \in Seq(Byte) /\ Len(Slice(call.n, left)) = left
    BY <2>1, SliceLen
  <2>5. /\ Slice(call.n + k, left - k) \in Seq(Byte) /\ Len(Slice(call.n + k, left - k)) = left - k
    <3> DEFINE rest == Slice(call.n + k, left - k)
    <3>1. left - k \in Nat
      BY <2>1
    <3>2. ASSUME NEW j \in 1..(left - k) PROVE f.buffer[(call.n + k) + j - 1] \in Byte
      <4>1. (call.n + k) + j - 1 \in 0..f.buffer_pos-1
        <5>1. /\ call.n \in Int /\ f.buffer_pos \in Int /\ k \in Int /\ j \in Int
              /\ call.n >= 0 /\ k >= 0 /\ j >= 1 /\ j <= (f.buffer_pos - call.n) - k
          BY <1>a, <2>1
        <5>2. QED
          BY <5>1
      <4>2. QED
        BY <4>1 DEF IInv, BufferInv
    <3>3. rest \in [1..(left - k) -> Byte]
      BY <3>2 DEF Slice
    <3> HIDE DEF left, rest
    <3>4. rest \in Seq(Byte) /\ Len(rest) = left - k
      BY <3>1, <3>3
    <3>5. QED
      BY <3>4 DEF rest
  <2>6. WriteAt' = WriteAt + k
    <3>1. CASE Appending
      <4>1. WriteAt = Len(file) /\ WriteAt' = Len(file')
        BY <2>2, <3>1 DEF WriteAt, Appending
      <4>2. Slice(call.n, k) # <<>>
        BY <2>1, <2>3
      <4>3. Len(file') = Larger(Len(file), WriteAt + k)
        <5>1. Len(Overwrite(file, WriteAt, Slice(call.n, k))) =
                IF Slice(call.n, k) = <<>> THEN Len(file)
                ELSE Larger(Len(file), WriteAt + Len(Slice(call.n, k)))
          BY <1>a, <2>3, OverwriteLen, ZenonT(30)
        <5>2. QED
          BY <2>2, <2>3, <4>2, <5>1
      <4>4. QED
        BY <1>a, <2>1, <4>1, <4>3 DEF Larger
    <3>2. CASE ~Appending
      BY <2>2, <3>2 DEF WriteAt, Appending
    <3>3. QED
      BY <3>1, <3>2
  <2>7. \A j \in 1..k : Slice(call.n, left)[j] = Slice(call.n, k)[j]
    BY <1>a, <2>1 DEF Slice
  <2>8. \A j \in 1..(left - k) : Slice(call.n, left)[k + j] = Slice(call.n + k, left - k)[j]
    <3>1. ASSUME NEW j \in 1..(left - k)
          PROVE  Slice(call.n, left)[k + j] = Slice(call.n + k, left - k)[j]
      <4>1. k + j \in 1..left /\ call.n + (k + j) - 1 = (call.n + k) + j - 1
        BY <1>a, <2>1, <3>1
      <4>2. QED
        BY <4>1 DEF Slice
    <3>2. QED
      BY <3>1
  <2>9. Overwrite(Overwrite(file, WriteAt, Slice(call.n, k)), WriteAt + k, Slice(call.n + k, left - k))
          = Overwrite(file, WriteAt, Slice(call.n, left))
    <3> DEFINE p == Slice(call.n, k)
               q == Slice(call.n + k, left - k)
               r == Slice(call.n, left)
    <3>1. /\ p \in Seq(Byte) /\ q \in Seq(Byte) /\ r \in Seq(Byte) /\ Len(p) = k /\ Len(q) = left - k
          /\ Len(r) = Len(p) + Len(q)
      BY <2>1, <2>3, <2>4, <2>5
    <3>2. (\A j \in 1..Len(p) : r[j] = p[j]) /\ (\A j \in 1..Len(q) : r[Len(p) + j] = q[j])
      BY <2>7, <2>8, <3>1
    <3> HIDE DEF p, q, r
    <3>a. \A j \in 1..Len(q) : (p \o q)[Len(p) + j] = q[j]
      BY <3>1
    <3>3. r = p \o q
      <4>1. ASSUME NEW i \in 1..Len(r) PROVE r[i] = (p \o q)[i]
        <5>1. CASE i \in 1..Len(p)
          BY <3>1, <3>2, <5>1
        <5>2. CASE i \notin 1..Len(p)
          <6>1. i - Len(p) \in 1..Len(q) /\ i = Len(p) + (i - Len(p))
            BY <3>1, <4>1, <5>2
          <6>2. (p \o q)[Len(p) + (i - Len(p))] = q[i - Len(p)]
            BY <3>a, <6>1
          <6>3. r[Len(p) + (i - Len(p))] = q[i - Len(p)]
            BY <3>2, <6>1
          <6>4. QED
            BY <6>1, <6>2, <6>3
        <5>3. QED
          BY <5>1, <5>2
      <4>2. p \o q \in Seq(Byte) /\ Len(p \o q) = Len(r)
        BY <3>1
      <4>3. QED
        BY <3>1, <4>1, <4>2, SameBytes
    <3>4. Overwrite(Overwrite(file, WriteAt, p), WriteAt + Len(p), q) = Overwrite(file, WriteAt, p \o q)
      <4>1. file \in Seq(Byte) /\ WriteAt \in Nat /\ p \in Seq(Byte) /\ q \in Seq(Byte)
        BY <1>a, <3>1
      <4>2. QED
        BY <4>1, OverwriteTwice, ZenonT(30)
    <3>5. QED
      BY <3>1, <3>3, <3>4 DEF p, q, r
  <2>10. Content = Overwrite(file, WriteAt, Slice(call.n, left))
    BY <1>d DEF Content
  <2>11. Content' = Overwrite(file', WriteAt', Slice(call.n + k, left - k))
    <3>1. f'.buffer_pos - call'.n = left - k
      BY <1>a, <2>1, <2>2
    <3>3. QED
      BY <1>d, <2>2, <3>1 DEF Content, Slice
  <2>12. Content' = Content
    BY <2>2, <2>6, <2>9, <2>10, <2>11
  <2>13. QED
    BY <2>2, <2>12 DEF Same, Position, Delivered, Appending
<1>2. CASE FlushDone
  <2>1. /\ f'.last_op = "r" /\ f'.cursor = f.cursor /\ file' = file /\ mode' = mode /\ pc' = "body"
        /\ failed' = failed /\ call'.op = call.op /\ call'.start = call.start /\ call.n = f.buffer_pos
    BY <1>2, <1>a DEF FlushDone, Flushed, SoFile, Call
  <2>2. Slice(call.n, 0) = <<>>
    <3>1. Slice(call.n, 0) \in Seq(Byte) /\ Len(Slice(call.n, 0)) = 0
      BY <1>a, <1>e, SliceLen
    <3>2. QED
      BY <3>1
  <2>3. Content = file
    BY <1>d, <1>e, <2>1, <2>2 DEF Content, Overwrite
  <2>4. Content' = file
    BY <2>1 DEF Content
  <2>5. QED
    BY <1>c, <2>1, <2>3, <2>4 DEF Same, Position, Delivered, Appending
<1>3. QED
  BY <1>b, <1>1, <1>2 DEF FlushStep

\* A call that begins changes nothing the caller sees.
LEMMA CallIsMove ==
  ASSUME IInv, IInv', StreamInv, Caller, pc' # "idle"
  PROVE  Move
<1>a. f \in SoFile /\ call.n \in Nat /\ f.buffer_pos \in Int /\ f.last_op \in {"r", "w"}
  BY FieldTypes
<1>1. Position' \in Int
  BY FieldTypes DEF Position, IInv, TypeOK, SoFile, Call
<1>2. pc = "idle" /\ call.n = 0 /\ file' = file /\ mode' = mode /\ failed' = failed /\ offset' = offset
      /\ call'.n = 0
  <2>1. ASSUME NEW c, NEW next, Begin(c, next), c.n = 0
        PROVE  pc = "idle" /\ call.n = 0 /\ call'.n = 0
    BY <2>1, FieldTypes DEF Begin
  <2>2. ASSUME NEW m \in Modes, So_fopen(m) PROVE FALSE
    BY <2>2 DEF So_fopen
  <2>3. QED
    BY <2>1, <2>2 DEF Caller, So_fclose, So_fflush, So_fseek, So_fgetc, So_fread, So_fputc, So_fwrite,
       NoCall
<1>3. f'.last_op = f.last_op /\ (f.last_op = "w" => f'.buffer_pos = f.buffer_pos) /\ f'.buffer = f.buffer
  <2>1. ASSUME NEW m \in Modes, So_fopen(m) PROVE FALSE
    BY <2>1 DEF So_fopen
  <2>2. f' = f \/ f' = Emptied
    BY <2>1 DEF Caller, So_fclose, So_fflush, So_fseek, So_fgetc, So_fread, So_fputc, So_fwrite
  <2>3. QED
    BY <1>a, <2>2 DEF Emptied, SoFile
<1>4. Content' = Content
  <2>1. CASE f.last_op = "w"
    BY <1>2, <1>3, <2>1 DEF Content, WriteAt, Appending, Slice
  <2>2. CASE f.last_op # "w"
    BY <1>2, <1>3, <2>2 DEF Content
  <2>3. QED
    BY <2>1, <2>2
<1>5. QED
  BY <1>1, <1>2, <1>4 DEF Move, Delivered, Nothing, Appending

\* The calls that end without a put or a read: only the position may change.
LEMMA EndIsMove ==
  ASSUME IInv, IInv', StreamInv, FflushBody \/ SeekStep, ~failed'
  PROVE  Move
<1>a. /\ f \in SoFile /\ failed' = failed /\ file' = file /\ mode' = mode /\ pc' = "idle" /\ ~failed
      /\ call.rc \in {0, -1}
  BY FieldTypes DEF FflushBody, SeekStep, FseekFlushFailed, FseekMoves, FseekOutOfRange, Return
<1>1. call.rc = 0 /\ Running({"fflush", "fseek"})
  BY <1>a DEF FflushBody, SeekStep, FseekFlushFailed, FseekMoves, FseekOutOfRange, Running, StreamInv,
     LandInv, CallInv
<1>2. f.last_op = "r"
  BY <1>1, FieldTypes DEF StreamInv, LandInv, PendingInv, WaitInv, Running
<1>3. f'.last_op = "r"
  BY <1>a, <1>1, <1>2 DEF FflushBody, SeekStep, FseekFlushFailed, FseekMoves, FseekOutOfRange, Sought,
     SoFile
<1>4. Content = file /\ Content' = file
  BY <1>a, <1>2, <1>3 DEF Content
<1>5. ret'.op = call.op /\ call.op \in {"fflush", "fseek"}
  BY <1>1 DEF FflushBody, SeekStep, FseekFlushFailed, FseekMoves, FseekOutOfRange, Return, Running
<1>6. Position' \in Int
  BY FieldTypes DEF Position, IInv, TypeOK, SoFile, Call
<1>7. QED
  BY <1>a, <1>4, <1>5, <1>6 DEF Move, Delivered, Nothing, Appending

\* so_fputc stores one byte where the caller's position is, also for so_fwrite.
LEMMA StoreIsPut ==
  ASSUME IInv, StreamInv, FputcStores, ~failed'
  PROVE  \E c \in Byte : Put(c)
<1>a. /\ f \in SoFile /\ call \in Call /\ f.buffer_pos \in Int /\ f.buffer \in Buffer
      /\ f.cursor \in Int /\ call.op \in Puts /\ pc = "body" /\ call.rc = 0 /\ call.n = 0
      /\ file \in Seq(Byte) /\ Len(file) \in Nat /\ WriteAt \in Nat /\ offset \in Nat
      /\ f.last_op \in {"r", "w"} /\ call.c \in Byte
  BY FieldTypes DEF FputcStores, Running, Puts, WriteAt, Call
<1>b. /\ file' = file /\ offset' = offset /\ mode' = mode /\ failed' = failed /\ ~failed
      /\ f' = Stored /\ AfterPut(0)
  BY DEF FputcStores
<1> DEFINE p == f.buffer_pos
<1>c. p \in 0..BUFFER_SIZE-2
  BY <1>a DEF IInv, BufferInv, Running, Puts
<1>1. /\ f'.last_op = "w" /\ f'.buffer_pos = p + 1 /\ f'.cursor = f.cursor + 1
      /\ f'.buffer = [f.buffer EXCEPT ![p] = call.c]
  BY <1>a, <1>b DEF Stored, SoFile
<1>2. /\ call'.n = 0 /\ call'.op # "fread" /\ Delivered' = Nothing
  <2>1. CASE call.op = "fputc"
    BY <1>b, <2>1 DEF AfterPut, Return, NoCall, Delivered, Nothing
  <2>2. CASE call.op # "fputc"
    BY <1>a, <1>b, <2>2 DEF AfterPut, Call, Delivered, Nothing, Puts
  <2>3. QED
    BY <2>1, <2>2
<1>3. WriteAt' = WriteAt
  BY <1>b DEF WriteAt, Appending
<1>4. /\ f.last_op = "r" => p = 0
      /\ ~Appending => offset + p = f.cursor
  <2>1. f.last_op = "r" => p = 0
    BY <1>a DEF StreamInv, LandInv, PendingInv, Running
  <2>2. phase = "writing"
    BY <1>a DEF StreamInv, LandInv, CallInv
  <2>3. QED
    BY <1>a, <1>b, <2>1, <2>2 DEF StreamInv, LandInv, OffsetInv
<1>5. f.cursor >= 0
  BY <1>a DEF IInv, CursorInv, Puts
<1> DEFINE held == Slice(0, p)
           more == [j \in 1..(p + 1) |-> f'.buffer[0 + j - 1]]
           last == <<call.c>>
<1>6. held \in Seq(Byte) /\ Len(held) = p
  <2>1. p \in 0..(f.buffer_pos - call.n)
    BY <1>a, <1>c
  <2>2. QED
    BY <1>a, <2>1, SliceLen
<1>7. last \in Seq(Byte) /\ Len(last) = 1 /\ last[1] = call.c /\ last # <<>>
  BY <1>a
<1>8. \A j \in 1..p : held[j] = f.buffer[0 + j - 1]
  BY <1>c DEF Slice
<1>9. /\ \A j \in 1..p : f'.buffer[0 + j - 1] = f.buffer[0 + j - 1]
      /\ f'.buffer[p] = call.c
  <2>1. f.buffer \in [0..BUFFER_SIZE-1 -> ByteOrUninit] /\ p \in 0..BUFFER_SIZE-1
    BY <1>a, <1>c, StreamAssumption DEF Buffer
  <2>2. \A j \in 1..p : 0 + j - 1 \in 0..BUFFER_SIZE-1 /\ 0 + j - 1 # p
    BY <1>c, StreamAssumption
  <2>3. QED
    BY <1>1, <2>1, <2>2
<1>10. Content = Overwrite(file, WriteAt, held)
  <2>1. CASE f.last_op = "w"
    <3>1. f.buffer_pos - call.n = p
      BY <1>a
    <3>2. QED
      BY <1>a, <2>1, <3>1 DEF Content
  <2>2. CASE f.last_op = "r"
    <3>1. held = <<>>
      BY <1>4, <1>6, <2>2
    <3>2. QED
      BY <2>2, <3>1 DEF Content, Overwrite
  <2>3. QED
    BY <1>a, <2>1, <2>2
<1>11. Content' = Overwrite(file, WriteAt, more)
  <2>1. f'.buffer_pos - call'.n = p + 1
    BY <1>1, <1>2, <1>c
  <2>2. QED
    BY <1>1, <1>2, <1>3, <1>b, <2>1 DEF Content, Slice
<1>12. more \in Seq(Byte) /\ Len(more) = p + 1
  <2>1. ASSUME NEW j \in 1..(p + 1) PROVE f'.buffer[0 + j - 1] \in Byte
    <3>1. CASE j \in 1..p
      <4>1. 0 + j - 1 \in 0..f.buffer_pos-1
        BY <1>c, <3>1
      <4>2. QED
        BY <1>9, <3>1, <4>1 DEF IInv, BufferInv
    <3>2. CASE j = p + 1
      <4>1. 0 + j - 1 = p
        BY <1>c, <3>2
      <4>2. QED
        BY <1>9, <1>a, <4>1
    <3>3. QED
      BY <1>c, <3>1, <3>2
  <2>2. more \in [1..(p + 1) -> Byte]
    BY <2>1
  <2>3. p + 1 \in Nat
    BY <1>c
  <2> HIDE DEF more, p
  <2>4. QED
    BY <2>2, <2>3
<1>13. \A j \in 1..(p + 1) : more[j] = IF j = p + 1 THEN call.c ELSE held[j]
  <2>1. ASSUME NEW j \in 1..(p + 1)
        PROVE  more[j] = IF j = p + 1 THEN call.c ELSE held[j]
    <3>1. CASE j \in 1..p
      <4>1. j # p + 1
        BY <1>c, <3>1
      <4>2. QED
        BY <1>8, <1>9, <3>1, <4>1
    <3>2. CASE j = p + 1
      <4>1. 0 + j - 1 = p
        BY <1>c, <3>2
      <4>2. QED
        BY <1>9, <3>2, <4>1
    <3>3. QED
      BY <1>c, <3>1, <3>2
  <2>2. QED
    BY <2>1
<1> HIDE DEF held, more, last
<1>14. more = held \o last
  <2>1. /\ held \o last \in Seq(Byte) /\ Len(held \o last) = p + 1
        /\ \A j \in 1..p : (held \o last)[j] = held[j]
    <3>1. /\ held \o last \in Seq(Byte) /\ Len(held \o last) = Len(held) + Len(last)
          /\ \A j \in 1..Len(held) : (held \o last)[j] = held[j]
      BY <1>6, <1>7, Followed, ZenonT(20)
    <3>2. QED
      BY <1>6, <1>7, <3>1
  <2>2. (held \o last)[p + 1] = last[1]
    <3>1. \A j \in 1..Len(last) : (held \o last)[Len(held) + j] = last[j]
      BY <1>6, <1>7, Followed, ZenonT(20)
    <3>2. QED
      BY <1>6, <1>7, <3>1
  <2>3. ASSUME NEW j \in 1..Len(more) PROVE more[j] = (held \o last)[j]
    <3>1. CASE j \in 1..p
      BY <1>c, <1>12, <1>13, <2>1, <3>1, SMTT(20)
    <3>2. CASE j = p + 1
      BY <1>12, <1>13, <1>7, <2>2, <3>2
    <3>3. j \in 1..(p + 1) /\ p \in Nat
      BY <1>12, <1>c
    <3>4. j \in 1..p \/ j = p + 1
      BY <3>3
    <3>5. QED
      BY <3>1, <3>2, <3>4
  <2>4. QED
    BY <1>12, <2>1, <2>3, SameBytes
<1>15. Content' = Overwrite(Content, WriteAt + p, last)
  <2>1. Overwrite(Overwrite(file, WriteAt, held), WriteAt + Len(held), last)
          = Overwrite(file, WriteAt, held \o last)
    BY <1>a, <1>6, <1>7, OverwriteTwice, ZenonT(20)
  <2>2. QED
    BY <1>6, <1>10, <1>11, <1>14, <2>1
<1>16. Content' = IF Appending THEN Append(Content, call.c) ELSE Overwrite(Content, f.cursor, last)
  <2>1. CASE Appending
    <3>1. WriteAt = Len(file)
      BY <2>1 DEF WriteAt
    <3>2. Content \in Seq(Byte) /\ Len(Content) = WriteAt + p
      <4>1. held = <<>> <=> p = 0
        BY <1>6
      <4>2. Len(Content) = IF held = <<>> THEN Len(file) ELSE Larger(Len(file), WriteAt + p)
        <5>1. Len(Overwrite(file, WriteAt, held)) =
                IF held = <<>> THEN Len(file) ELSE Larger(Len(file), WriteAt + Len(held))
          BY <1>a, <1>6, OverwriteLen, ZenonT(20)
        <5>2. QED
          BY <1>6, <1>10, <5>1
      <4>3. QED
        BY <1>a, <1>c, <3>1, <4>1, <4>2, ContentFacts DEF Larger
    <3>3. Overwrite(Content, Len(Content), <<call.c>>) = Append(Content, call.c)
      BY <1>a, <3>2, OverwriteEnd
    <3>4. QED
      BY <1>15, <2>1, <3>2, <3>3 DEF last
  <2>2. CASE ~Appending
    <3>1. WriteAt + p = f.cursor
      BY <1>4, <2>2 DEF WriteAt
    <3>2. QED
      BY <1>15, <2>2, <3>1
  <2>3. QED
    BY <2>1, <2>2
<1>17. Position = f.cursor /\ Position' = f.cursor + 1
  BY <1>a, <1>1, <1>2 DEF Position, Puts
<1>18. Put(call.c)
  BY <1>2, <1>5, <1>16, <1>17, <1>b DEF Put, Appending, last
<1>19. QED
  BY <1>18, <1>a

\* The steps of so_fwrite around its puts change nothing the caller sees.
LEMMA PutIsStep ==
  ASSUME IInv, IInv', StreamInv, PutStep, ~failed'
  PROVE  Same \/ Move \/ \E c \in Byte : Put(c)
<1>a. /\ f \in SoFile /\ call \in Call /\ f.last_op \in {"r", "w"} /\ (pc # "flush" => call.n = 0)
      /\ f.buffer_pos \in Int
  BY FieldTypes
<1>1. ASSUME NEW c \in Byte, FwriteNext(c) PROVE Same
  <2>1. /\ file' = file /\ offset' = offset /\ mode' = mode /\ failed' = failed
        /\ f'.last_op = f.last_op /\ (f.last_op = "w" => f'.buffer_pos = f.buffer_pos)
        /\ f'.buffer = f.buffer /\ f'.cursor = f.cursor
        /\ call.n = 0 /\ call'.n = 0 /\ call'.op = call.op /\ call'.start = call.start
        /\ pc # "idle" /\ pc' # "idle"
    BY <1>1, <1>a DEF FwriteNext, Emptied, Looping, IfFull, SoFile, Call
  <2>2. Content' = Content
    <3>1. CASE f.last_op = "w"
      BY <2>1, <3>1 DEF Content, WriteAt, Appending, Slice
    <3>2. CASE f.last_op # "w"
      BY <2>1, <3>2 DEF Content
    <3>3. QED
      BY <3>1, <3>2
  <2>3. QED
    BY <2>1, <2>2 DEF Same, Position, Delivered, Appending
<1>2. CASE FwriteReturns
  <2>1. /\ file' = file /\ offset' = offset /\ mode' = mode /\ failed' = failed /\ f' = f
        /\ call.n = 0 /\ call'.n = 0 /\ ret'.op = "fwrite"
    BY <1>2, <1>a DEF FwriteReturns, Looping, Return, NoCall
  <2>2. Content' = Content
    BY <2>1 DEF Content, WriteAt, Appending, Slice
  <2>3. Position' \in Int
    BY FieldTypes DEF Position, IInv, TypeOK, SoFile, Call
  <2>4. QED
    BY <2>1, <2>2, <2>3 DEF Move, Delivered, Nothing, Appending
<1>3. CASE FputcStores
  BY <1>3, StoreIsPut
<1>4. ~FputcFlushFailed
  BY DEF FputcFlushFailed, StreamInv, LandInv, CallInv
<1>5. QED
  BY <1>1, <1>2, <1>3, <1>4 DEF PutStep

-----------------------------------------------------------------------------
\* A read delivers the bytes that follow its position, as many as there are.
LEMMA FollowingIs ==
  ASSUME NEW s \in Seq(Byte), NEW at \in Nat, NEW n \in Nat, NEW out \in Seq(Byte),
         Len(out) = Smaller(n, Len(s) - at), at <= Len(s),
         \A j \in 1..Len(out) : out[j] = s[at + j]
  PROVE  Following(s, at, n) = out
<1> DEFINE last == Smaller(at + n, Len(s))
<1>1. /\ last \in Int /\ last = at + Len(out) /\ Len(out) \in Nat /\ last <= Len(s) /\ Len(s) \in Nat
  BY DEF Smaller
<1> HIDE DEF last
<1>2. at + 1 \in 1..(Len(s) + 1) /\ last \in ((at + 1) - 1)..Len(s)
  BY <1>1
<1> DEFINE part == SubSeq(s, at + 1, last)
<1>3. /\ part \in Seq(Byte)
      /\ Len(part) = last - (at + 1) + 1
      /\ \A j \in 1..(last - (at + 1) + 1) : part[j] = s[(at + 1) + j - 1]
  BY <1>2, SubSeqProperties
<1> HIDE DEF part
<1>4. last - (at + 1) + 1 = Len(out)
  BY <1>1
<1>5. \A j \in 1..Len(out) : (at + 1) + j - 1 = at + j
  OBVIOUS
<1>6. \A j \in 1..Len(out) : part[j] = out[j]
  BY <1>3, <1>4, <1>5
<1>7. part = out
  BY <1>3, <1>4, <1>6, SameBytes
<1>8. QED
  BY <1>7 DEF Following, last, part

\* Nothing follows the end of the file.
LEMMA FollowingEnds ==
  ASSUME NEW s \in Seq(Byte), NEW at \in Nat, NEW n \in Nat, at >= Len(s)
  PROVE  Following(s, at, n) = <<>>
BY DEF Following, Smaller

\* One byte follows a position before the end.
LEMMA FollowingOne ==
  ASSUME NEW s \in Seq(Byte), NEW at \in Nat, at < Len(s)
  PROVE  Following(s, at, 1) = <<s[at + 1]>>
<1> DEFINE out == <<s[at + 1]>>
<1>1. out \in Seq(Byte) /\ Len(out) = 1 /\ out[1] = s[at + 1] /\ Len(s) \in Nat
  OBVIOUS
<1> HIDE DEF out
<1>2. /\ Len(out) = Smaller(1, Len(s) - at) /\ at <= Len(s)
      /\ \A j \in 1..Len(out) : out[j] = s[at + j]
  BY <1>1 DEF Smaller
<1>3. Following(s, at, 1) = out
  BY <1>1, <1>2, FollowingIs
<1>4. QED
  BY <1>3 DEF out

\* While the caller reads, what it must see is the file, and no step of a read changes it.
LEMMA ReadsLeaveContent ==
  ASSUME IInv, StreamInv, GetStep \/ FreadStep, ~failed'
  PROVE  /\ ~failed /\ failed' = failed /\ file' = file /\ mode' = mode /\ Content = file /\ Content' = file
         /\ call.op \in Gets /\ pc # "idle" /\ f.cursor \in Nat
         /\ ~FgetcFlushFailed /\ ~FgetcLoadFails /\ ~FreadRefillFails
         /\ f.err_ind # -2 /\ f.last_op = "r"
<1>a. f \in SoFile
  BY FieldTypes
<1>1. ~FgetcLoadFails /\ ~FreadRefillFails
  BY DEF FgetcLoadFails, FreadRefillFails
<1>2. ~failed /\ failed' = failed /\ file' = file /\ mode' = mode /\ call.op \in Gets /\ pc # "idle"
  <2>1. CASE FgetcFlushFailed
    BY <2>1 DEF FgetcFlushFailed, Running, Gets
  <2>2. CASE FgetcLoads
    BY <2>2 DEF FgetcLoads, InGetc, Running, Gets
  <2>3. CASE FgetcPastBuffer
    BY <2>3 DEF FgetcPastBuffer, InGetc, Running, Gets
  <2>4. CASE FgetcTakes
    BY <2>4 DEF FgetcTakes, InGetc, Running, Gets
  <2>5. CASE FreadNext \/ FreadReturns
    BY <2>5 DEF FreadNext, FreadReturns, Looping, Gets
  <2>6. CASE FreadRefills
    BY <2>6 DEF FreadRefills, IInv, GetInv, Gets
  <2>7. QED
    BY <1>1, <2>1, <2>2, <2>3, <2>4, <2>5, <2>6 DEF GetStep, FreadStep
<1>3. f.last_op = "r" /\ call.rc = 0 /\ f.cursor \in Nat /\ f.err_ind # -2
  BY <1>2, Reading
<1>4. ~FgetcFlushFailed
  BY <1>3 DEF FgetcFlushFailed
<1>5. f'.last_op = "r"
  BY <1>a, <1>1, <1>3, <1>4 DEF GetStep, FreadStep, FgetcLoads, FgetcPastBuffer, FgetcTakes,
     FreadNext, FreadReturns, FreadRefills, SoFile
<1>6. Content = file /\ Content' = file
  BY <1>2, <1>3, <1>5 DEF Content
<1>7. QED
  BY <1>1, <1>2, <1>3, <1>4, <1>6

\* so_fgetc returns the byte at the position, or SO_EOF at the end of the file.
LEMMA GetIsRead ==
  ASSUME PromiseAssumption, IInv, StreamInv, GetStep, ~failed'
  PROVE  Same \/ \E n \in 1..MaxRequest : ReadOf(n)
<1>a. /\ f \in SoFile /\ call \in Call /\ file \in Seq(Byte) /\ Len(file) \in Nat
      /\ call.start \in Int
  BY FieldTypes
<1>b. /\ ~failed /\ failed' = failed /\ file' = file /\ mode' = mode /\ Content = file /\ Content' = file
      /\ call.op \in Gets /\ pc = "body" /\ f.cursor \in Nat /\ ~FgetcFlushFailed /\ ~FgetcLoadFails
      /\ f.err_ind # -2
  BY ReadsLeaveContent DEF GetStep, FgetcFlushFailed, FgetcLoadFails, FgetcLoads, FgetcPastBuffer,
     FgetcTakes, InGetc, Running
<1>c. call.op = "fgetc" => call.want = 1
  BY <1>b DEF StreamInv, CopyInv
<1>d. 1 \in 1..MaxRequest
  BY StreamAssumption DEF PromiseAssumption
<1>1. ASSUME f.cursor >= Len(file), f'.cursor = f.cursor, NEW g, GetcEof(g), g.err_ind # -2
      PROVE  Same \/ ReadOf(1)
  <2>1. CASE call.op = "fgetc"
    <3>1. Return(SO_EOF, <<>>)
      BY <1>1, <2>1 DEF GetcEof
    <3>2. Following(file, f.cursor, 1) = <<>>
      BY <1>1, <1>a, <1>b, FollowingEnds
    <3>3. Len(<<>>) = 0
      OBVIOUS
    <3>4. /\ Delivered' = [read |-> TRUE, want |-> 1, bytes |-> <<>>]
          /\ Position = f.cursor /\ Position' = f.cursor
      BY <1>1, <1>c, <2>1, <3>1 DEF Return, Delivered, Position, NoCall
    <3>5. Following(Content, Position, 1) = <<>>
      BY <1>b, <3>2, <3>4
    <3>6. Position >= 0 /\ Position' = Position + Len(<<>>)
      BY <1>b, <3>3, <3>4
    <3>7. ReadOf(1)
      BY <1>b, <3>4, <3>5, <3>6, Zenon DEF ReadOf, Appending
    <3>8. QED
      BY <3>7
  <2>2. CASE call.op = "fread"
    <3>1. pc' = "refill" /\ call'.op = "fread" /\ call'.start = call.start
      BY <1>1, <1>b, <2>2, EndOfData DEF Running
    <3>2. QED
      BY <1>b, <2>2, <3>1 DEF Same, Position, Delivered, Appending
  <2>3. QED
    BY <1>b, <2>1, <2>2 DEF Gets
<1>2. CASE FgetcLoads
  <2> DEFINE at == BUFFER_SIZE * Chunk
  <2>1. PICK k \in ReadCounts(at) :
          /\ f' = [f EXCEPT !.chunk_number = Chunk, !.buffer = Filled(at, k),
                            !.buffer_pos = k, !.eof = IF k = 0 THEN 1 ELSE @]
          /\ IF k = 0 THEN GetcEof(f') ELSE UNCHANGED <<pc, call, ret>>
    BY <1>2 DEF FgetcLoads
  <2>2. f'.cursor = f.cursor /\ f'.err_ind = f.err_ind
    BY <1>a, <2>1 DEF SoFile
  <2>3. CASE k # 0
    BY <1>b, <2>1, <2>2, <2>3 DEF Same, Position, Delivered, Appending
  <2>4. CASE k = 0
    <3>1. Chunk \in Nat /\ at \in Nat /\ Index \in Nat
      BY <1>b, IndexTypes DEF Running, Gets
    <3>2. f.cursor = at + Index
      BY <1>b, CursorInChunk
    <3> HIDE DEF at
    <3>3. at >= Len(file)
      BY <1>a, <2>1, <2>4, <3>1, WholeRead DEF PromiseAssumption
    <3>4. f.cursor >= Len(file)
      BY <1>a, <3>1, <3>2, <3>3
    <3>5. GetcEof(f')
      BY <2>1, <2>4
    <3>6. QED
      BY <1>1, <1>b, <1>d, <2>2, <3>4, <3>5
  <2>5. QED
    BY <2>3, <2>4
<1>3. CASE FgetcPastBuffer
  <2>1. f.cursor >= Len(file)
    BY <1>3, <1>b, ChunkTells DEF FgetcPastBuffer
  <2>2. f'.cursor = f.cursor /\ f'.err_ind # -2 /\ GetcEof(f')
    BY <1>3, <1>a DEF FgetcPastBuffer, SoFile, SO_EOF
  <2>3. QED
    BY <1>1, <1>d, <2>1, <2>2
<1>4. CASE FgetcTakes
  <2>1. f.cursor < Len(file) /\ f.buffer[Index] = file[f.cursor + 1]
    BY <1>4, <1>b, ChunkTells DEF FgetcTakes
  <2>2. f'.cursor = f.cursor + 1
    BY <1>4, <1>a DEF FgetcTakes, SoFile
  <2>3. CASE call.op = "fgetc"
    <3> DEFINE got == <<f.buffer[Index]>>
    <3>1. Return(0, got)
      BY <1>4, <2>3 DEF FgetcTakes
    <3>2. Following(file, f.cursor, 1) = got
      BY <1>a, <1>b, <2>1, FollowingOne
    <3>3. Len(got) = 1
      OBVIOUS
    <3> HIDE DEF got
    <3>4. /\ Delivered' = [read |-> TRUE, want |-> 1, bytes |-> got]
          /\ Position = f.cursor /\ Position' = f.cursor + 1
      BY <1>c, <2>2, <2>3, <3>1 DEF Return, Delivered, Position, NoCall
    <3>5. Following(Content, Position, 1) = got
      BY <1>b, <3>2, <3>4
    <3>6. Position >= 0 /\ Position' = Position + Len(got)
      BY <1>b, <3>3, <3>4
    <3>7. ReadOf(1)
      BY <1>b, <3>4, <3>5, <3>6, Zenon DEF ReadOf, Appending
    <3>8. QED
      BY <1>d, <3>7
  <2>4. CASE call.op # "fgetc"
    <3>1. call'.op = call.op /\ call'.start = call.start /\ pc' = "loop" /\ call.op = "fread"
      BY <1>4, <1>a, <1>b, <2>4 DEF FgetcTakes, Call, Gets
    <3>2. QED
      BY <1>b, <3>1 DEF Same, Position, Delivered, Appending
  <2>5. QED
    BY <2>3, <2>4
<1>5. QED
  BY <1>b, <1>2, <1>3, <1>4 DEF GetStep

\* so_fread returns what follows the position it began at.
LEMMA FreadIsRead ==
  ASSUME PromiseAssumption, IInv, StreamInv, FreadStep, ~failed'
  PROVE  Same \/ \E n \in 1..MaxRequest : ReadOf(n)
<1>a. /\ f \in SoFile /\ call \in Call /\ file \in Seq(Byte) /\ Len(file) \in Nat
      /\ call.start \in Int /\ call.out \in Seq(Byte) /\ Len(call.out) \in Nat /\ call.want \in Nat
  BY FieldTypes
<1>b. /\ ~failed /\ failed' = failed /\ file' = file /\ mode' = mode /\ Content = file /\ Content' = file
      /\ pc # "idle" /\ f.cursor \in Nat /\ ~FreadRefillFails
  BY ReadsLeaveContent
<1>c. call.op = "fread"
  BY <1>b DEF FreadStep, FreadNext, FreadReturns, FreadRefills, Looping, IInv, GetInv
<1>d. /\ call.start \in Nat /\ call.want \in 1..MaxRequest
      /\ f.cursor = call.start + Len(call.out) /\ f.cursor <= Len(file)
      /\ \A j \in 1..Len(call.out) : call.out[j] = file[call.start + j]
  BY <1>b, <1>c DEF StreamInv, CopyInv
<1>1. ASSUME Len(call.out) = Smaller(call.want, Len(file) - call.start),
             Delivered' = [read |-> TRUE, want |-> call.want, bytes |-> call.out],
             Position' = f.cursor
      PROVE  ReadOf(call.want)
  <2>1. Following(file, call.start, call.want) = call.out
    <3>1. call.start <= Len(file)
      BY <1>a, <1>d
    <3>2. QED
      BY <1>1, <1>a, <1>d, <3>1, FollowingIs, ZenonT(20)
  <2>2. Position = call.start
    BY <1>c DEF Position
  <2>3. Following(Content, Position, call.want) = call.out
    BY <1>b, <2>1, <2>2
  <2>4. Position >= 0 /\ Position' = Position + Len(call.out)
    BY <1>1, <1>a, <1>d, <2>2
  <2>5. QED
    BY <1>1, <1>b, <2>3, <2>4, Zenon DEF ReadOf, Appending
<1>2. CASE FreadNext
  <2>1. pc' # "idle" /\ call' = call /\ f' = f
    BY <1>2 DEF FreadNext, IfDirty
  <2>2. QED
    BY <1>b, <2>1 DEF Same, Position, Delivered, Appending
<1>3. CASE FreadReturns
  <2>1. Len(call.out) = call.want /\ f' = f /\ Return(call.want, call.out)
    BY <1>3 DEF FreadReturns
  <2>2. Len(call.out) = Smaller(call.want, Len(file) - call.start)
    BY <1>a, <1>d, <2>1 DEF Smaller
  <2>3. /\ Delivered' = [read |-> TRUE, want |-> call.want, bytes |-> call.out]
        /\ Position' = f.cursor
    BY <1>c, <2>1 DEF Return, Delivered, Position, NoCall
  <2>4. QED
    BY <1>1, <1>d, <2>2, <2>3
<1>4. CASE FreadRefills
  <2>1. pc = "refill"
    BY <1>4 DEF FreadRefills
  <2>2. call.start = 0 /\ Len(call.out) = Len(file) /\ ReadCounts(Len(call.out)) = {0}
    BY <1>b, <2>1, RefillAtEnd
  <2>3. f' = [f EXCEPT !.eof = 1] /\ Return(Len(call.out), call.out)
    BY <1>4, <2>2 DEF FreadRefills
  <2>4. Len(call.out) < call.want
    BY <1>c, <2>1 DEF IInv, GetInv
  <2>5. Len(call.out) = Smaller(call.want, Len(file) - call.start)
    BY <1>a, <2>2, <2>4 DEF Smaller
  <2>6. f'.cursor = f.cursor
    BY <1>a, <2>3 DEF SoFile
  <2>7. /\ Delivered' = [read |-> TRUE, want |-> call.want, bytes |-> call.out]
        /\ Position' = f.cursor
    BY <1>c, <2>3, <2>6 DEF Return, Delivered, Position, NoCall
  <2>8. QED
    BY <1>1, <1>d, <2>5, <2>7
<1>5. QED
  BY <1>b, <1>2, <1>3, <1>4 DEF FreadStep

\* so_fopen and so_fclose start the position again and forget what was read.
LEMMA OpenIsOpen ==
  ASSUME IInv, StreamInv, NEW m \in Modes, So_fopen(m)
  PROVE  /\ Content' \in {Content, <<>>} /\ Position' = 0 /\ Appending' \in BOOLEAN
         /\ failed' = FALSE /\ Delivered' = Nothing
<1>1. Content = file
  BY DEF So_fopen, StreamInv, WaitInv, Content
<1>2. /\ file' \in {file, <<>>} /\ f'.last_op = "r" /\ f'.cursor = 0 /\ failed' = FALSE
      /\ call'.op = "none" /\ ret'.op = "none"
  BY DEF So_fopen, NewStream, NoRet, StreamInv, LandInv, CallInv, NoCall
<1>3. QED
  BY <1>1, <1>2 DEF Content, Position, Appending, Delivered, Nothing

\* so_fclose leaves a file that holds every byte that was put.
LEMMA CloseIsClose ==
  ASSUME IInv, StreamInv, FcloseBody, ~failed'
  PROVE  /\ Content' = Content /\ Position' = 0 /\ Appending' = FALSE
         /\ failed' = failed /\ Delivered' = Nothing
<1>1. call.rc \in {0, -1} /\ Running({"fclose"}) /\ failed' = failed
  BY FieldTypes DEF FcloseBody
<1>2. call.rc = 0
  BY <1>1 DEF StreamInv, LandInv, CallInv
<1>3. f.last_op = "r"
  BY <1>1, <1>2 DEF StreamInv, WaitInv, Running
<1>4. /\ file' = file /\ f'.last_op = "r" /\ f'.cursor = 0 /\ mode' = "closed"
      /\ call'.op = "none" /\ ret'.op = "fclose"
  BY <1>1 DEF FcloseBody, NewStream, Return, NoCall, Running
<1>5. QED
  BY <1>1, <1>3, <1>4 DEF Content, Position, Appending, Delivered, Nothing

\* Without short reads, and with a caller that seeks or flushes between puts and
\* reads and does not read across the end of the file from its middle, a stream
\* keeps the promise of ByteStream: no byte is lost, doubled or misplaced.
THEOREM ImplementsByteStream ==
  ASSUME PromiseAssumption
  PROVE  Spec => KeepsPromise
<1>1. Init => Promise!Init
  <2> SUFFICES ASSUME Init PROVE Promise!Init
    OBVIOUS
  <2>1. /\ file \in Seq(Byte) /\ f.last_op = "r" /\ f.cursor = 0 /\ call.op = "none"
        /\ ret.op = "none" /\ mode = "closed" /\ failed = FALSE
    BY StreamAssumption DEF Init, NewStream, NoCall, NoRet
  <2>2. QED
    BY <2>1 DEF Promise!Init, Promise!NoRead, Content, Appending
<1>2. ASSUME IInv, IInv', StreamInv, [Next]_vars
      PROVE  [Promise!Next]_(Promise!vars)
  <2>1. Same => UNCHANGED Promise!vars
    BY DEF Same, Position, Delivered, Promise!vars
  <2>2. Move /\ ~failed => Promise!Next
    BY DEF Move, Position, Delivered, Nothing, Promise!Next, Promise!Move, Promise!NoRead
  <2>3. ASSUME NEW c \in Byte, Put(c), ~failed PROVE Promise!Next
    <3>1. Promise!Put(c)
      BY <2>3 DEF Put, Position, Delivered, Nothing, Promise!Put, Promise!NoRead, Promise!Overwrite,
         Promise!Larger, Overwrite, Larger
    <3>2. QED
      BY <2>3, <3>1 DEF Promise!Next
  <2>4. ASSUME NEW n \in 1..MaxRequest, ReadOf(n), ~failed PROVE Promise!Next
    <3>1. Promise!Read(n)
      BY <2>4 DEF ReadOf, Position, Delivered, Promise!Read, Promise!Following, Promise!Smaller,
         Following, Smaller
    <3>2. QED
      BY <2>4, <3>1 DEF Promise!Next
  <2>5. CASE failed'
    BY <2>5 DEF Promise!Next, Promise!Fail
  <2>6. ASSUME NEW m \in Modes, So_fopen(m) PROVE Promise!Next
    BY <1>2, <2>6, OpenIsOpen DEF Position, Delivered, Nothing, Promise!Next, Promise!Open,
       Promise!NoRead
  <2>7. CASE ~failed' /\ Caller
    <3>1. CASE pc' = "idle"
      <4>1. \E m \in Modes : So_fopen(m)
        BY <2>7, <3>1 DEF Caller, So_fclose, So_fflush, So_fseek, So_fgetc, So_fread, So_fputc,
           So_fwrite, Begin, IfDirty, IfFull
      <4>2. QED
        BY <2>6, <4>1
    <3>2. CASE pc' # "idle"
      <4>1. Move
        BY <1>2, <2>7, <3>2, CallIsMove
      <4>2. failed' = failed
        BY <4>1 DEF Move
      <4>3. QED
        BY <2>2, <2>7, <4>1, <4>2
    <3>3. QED
      BY <3>1, <3>2
  <2>8. CASE ~failed' /\ FlushStep
    BY <1>2, <2>1, <2>8, FlushIsSilent
  <2>9. CASE ~failed' /\ FcloseBody
    <3>1. Promise!Close
      BY <1>2, <2>9, CloseIsClose DEF Position, Delivered, Nothing, Promise!Close, Promise!NoRead
    <3>2. ~failed
      BY <1>2, <2>9, CloseIsClose
    <3>3. QED
      BY <3>1, <3>2 DEF Promise!Next
  <2>10. CASE ~failed' /\ (FflushBody \/ SeekStep)
    <3>1. Move
      BY <1>2, <2>10, EndIsMove
    <3>2. failed' = failed
      BY <3>1 DEF Move
    <3>3. QED
      BY <2>2, <2>10, <3>1, <3>2
  <2>11. CASE ~failed' /\ PutStep
    <3>1. Same \/ Move \/ \E c \in Byte : Put(c)
      BY <1>2, <2>11, PutIsStep
    <3>2. ~failed
      BY <2>11, <3>1 DEF Same, Move, Put
    <3>3. QED
      BY <2>1, <2>2, <2>3, <3>1, <3>2
  <2>12. CASE ~failed' /\ (GetStep \/ FreadStep)
    <3>1. Same \/ \E n \in 1..MaxRequest : ReadOf(n)
      BY <1>2, <2>12, GetIsRead, FreadIsRead
    <3>2. ~failed
      BY <2>12, <3>1 DEF Same, ReadOf
    <3>3. QED
      BY <2>1, <2>4, <3>1, <3>2
  <2>13. CASE UNCHANGED vars
    BY <2>13 DEF vars, Promise!vars, Content, WriteAt, Slice, Appending
  <2>14. QED
    BY <1>2, <2>5, <2>7, <2>8, <2>9, <2>10, <2>11, <2>12, <2>13 DEF Next, Library
<1>3. Init => IInv /\ StreamInv
  BY InitIInv, InitLand, InitSize, InitReads DEF StreamInv
<1>4. IInv /\ StreamInv /\ [Next]_vars => IInv' /\ StreamInv'
  BY NextKeepsIInv, NextReads
<1>5. QED
  BY <1>1, <1>2, <1>3, <1>4, PTL DEF Spec, KeepsPromise, Promise!Spec
=============================================================================
