----------------------------- MODULE ByteStream -----------------------------
(***************************************************************************)
(* What a buffered stream on a regular file promises its caller, with no   *)
(* buffer, no chunks and no kernel offset: a file is a sequence of bytes   *)
(* and a position, a put stores one byte at the position (at the end of    *)
(* the file in append mode), a read delivers the bytes that follow the     *)
(* position.  Once a system call made for the stream has failed nothing is *)
(* promised until the file is opened again.  SoStdio implements it.        *)
(***************************************************************************)
EXTENDS FileBytes

CONSTANTS
  Byte,        \* the values a byte of a file can have; 0 fills a hole
  MaxRequest   \* the most bytes one read asks for

VARIABLES
  content,     \* the file as the caller must see it: a sequence of bytes
  pos,         \* the position the next read or put applies to
  app,         \* opened with O_APPEND
  err,         \* a system call failed since the stream was opened
  ret          \* the bytes the last read delivered

vars == <<content, pos, app, err, ret>>

NoRead == [read |-> FALSE, want |-> 0, bytes |-> <<>>]

Init ==
  /\ content \in Seq(Byte)
  /\ pos = 0
  /\ app = FALSE
  /\ err = FALSE
  /\ ret = NoRead

Open ==
  /\ content' \in {content, <<>>}
  /\ pos' = 0
  /\ app' \in BOOLEAN
  /\ err' = FALSE
  /\ ret' = NoRead

Close ==
  /\ pos' = 0
  /\ app' = FALSE
  /\ ret' = NoRead
  /\ UNCHANGED <<content, err>>

Put(c) ==
  /\ pos >= 0
  /\ content' = IF app THEN Append(content, c) ELSE Overwrite(content, pos, <<c>>)
  /\ pos' = pos + 1
  /\ ret' = NoRead
  /\ UNCHANGED <<app, err>>

Read(n) ==
  /\ pos >= 0
  /\ ret' = [read |-> TRUE, want |-> n, bytes |-> Following(content, pos, n)]
  /\ pos' = pos + Len(ret'.bytes)
  /\ UNCHANGED <<content, app, err>>

\* A seek, a flush or the start of a call: no byte of the file changes.
Move ==
  /\ pos' \in Int
  /\ ret' = NoRead
  /\ UNCHANGED <<content, app, err>>

\* After a failure everything is possible until the next Open.
Fail == err' = TRUE

Next ==
  \/ Open
  \/ Fail
  \/ /\ ~err
     /\ \/ \E c \in Byte : Put(c)
        \/ \E n \in 1..MaxRequest : Read(n)
        \/ Close
        \/ Move

Spec == Init /\ [][Next]_vars
=============================================================================
