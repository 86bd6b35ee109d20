---------------------------- MODULE SoStdioProps ----------------------------
(***************************************************************************)
(* What a stream of libso_stdio.c must guarantee.                          *)
(***************************************************************************)
EXTENDS SoStdio

ByteOrUninit == Byte \cup {Uninit}
Buffer == [0..BUFFER_SIZE-1 -> ByteOrUninit]
Bytes  == Seq(Byte)

SoFile ==
  [cursor : Int, buffer : Buffer, buffer_pos : Int, size : Nat,
   eof : {0, 1}, err_ind : {0, -1, -2}, chunk_number : Int, last_op : {"r", "w"}]
Operation == AllOps \cup {"fclose", "none"}
Call ==
  [op : Operation, n : Nat, rc : {0, -1}, c : Byte, want : Nat, cnt : Nat,
   start : Int, target : Int, out : Bytes]
Result == [op : Operation, rc : Int, out : Bytes, want : Nat]

\* Every field of the SO_FILE and of the call in progress has its C type, and the
\* file and what reads deliver are bytes: neither write nor so_fgetc ever takes
\* from the buffer what read or so_fputc did not put there.
TypeOK ==
  /\ file \in Seq(Byte)
  /\ offset \in Nat
  /\ mode \in AllModes \cup {"closed"}
  /\ f \in SoFile
  /\ pc \in {"idle", "flush", "body", "loop", "refill"}
  /\ call \in Call
  /\ phase \in {"fresh", "reading", "writing", "lost"}
  /\ failed \in BOOLEAN
  /\ ret \in Result

\* The store of so_fputc and the loads of so_fgetc (whose index is negative for a
\* negative cursor) and write stay inside the buffer, and every byte they take was
\* stored there before: the two uses of buffer_pos, valid bytes of a chunk and
\* bytes not yet written, never mix.
BufferUsedInBounds ==
  /\ f.buffer_pos \in -1..BUFFER_SIZE
  /\ \A i \in 0..f.buffer_pos-1 : f.buffer[i] \in Byte
  /\ (Running({"fputc", "fwrite"}) /\ call.rc = 0) => f.buffer_pos \in 0..BUFFER_SIZE-1
  /\ InGetc => f.cursor >= 0

\* The file as the caller must see it: with the bytes of the buffer that
\* so_fflush has not written yet.
Content ==
  IF f.last_op = "w" THEN Overwrite(file, WriteAt, Slice(call.n, f.buffer_pos - call.n))
  ELSE file

\* The bytes so_fputc buffers will be written where the cursor was when they were
\* put, however so_fflush splits them: the kernel's offset plus the bytes still to
\* write is the cursor, although so_fgetc leaves the offset at the end of a chunk.
WritesLandWherePut ==
  (f.last_op = "w" /\ ~Appending /\ ~failed)
     => offset + (f.buffer_pos - call.n) = f.cursor

\* A read or write that failed is never forgotten: so_ferror tells the caller even
\* when so_fwrite and so_fread ignored it.
FailureIsReported ==
  (failed /\ mode # "closed") => f.err_ind # 0

\* so_fseek refuses positions past size, so size must cover the whole file or a
\* legal seek would be refused.
SizeCoversContent == (mode # "closed" /\ ~failed) => f.size >= Len(Content)

\* Until a system call fails - the chunk of a failed read counts as empty - the
\* end-of-file indicator goes up only when a read was tried at the end.
EofOnlyAtEnd ==
  [][(f.eof = 0 /\ f'.eof = 1 /\ ~failed) => f'.cursor >= Len(file)]_vars

\* Every library call the program makes returns.
CallsReturn == (pc # "idle") ~> (pc = "idle")

\* Every read delivers the bytes of the file that follow the position it began at
\* and every put byte lands at the position it was put at: the stream implements
\* ByteStream, whatever mix of calls, splits of write and failures.
Promise == INSTANCE ByteStream WITH
  content <- Content,
  pos     <- IF call.op = "fread" THEN call.start ELSE f.cursor,
  app     <- Appending,
  err     <- failed,
  ret     <- IF pc = "idle" /\ ret.op \in {"fgetc", "fread"}
             THEN [read |-> TRUE, want |-> ret.want, bytes |-> ret.out]
             ELSE [read |-> FALSE, want |-> 0, bytes |-> <<>>]

\* Spec => KeepsPromise is the refinement.
KeepsPromise == Promise!Spec
=============================================================================
