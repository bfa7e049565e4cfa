------------------------------- MODULE Buffer -------------------------------
(***************************************************************************)
(* input.Buffer (input/buffer.go): Next reads stdin into a growable slice  *)
(* until the slice holds the delimiter, returns the bytes before it and    *)
(* keeps those after it for the next call.                                 *)
(*                                                                         *)
(* The slice is its contents `buf` and its capacity `cap`; a nil slice,    *)
(* which Next leaves behind once it has returned the last message, is      *)
(* live = FALSE.  Cutting a message off the front moves the slice's start, *)
(* so its capacity shrinks by what was cut.                                *)
(*                                                                         *)
(* External: the process that writes to the pipe, byte by byte and at any  *)
(* moment, and os.File.Read, which blocks while there is nothing to read,  *)
(* returns any non-empty part of what is there, and returns (0, nil) at    *)
(* once for an empty slice.                                                *)
(***************************************************************************)
EXTENDS Search

CONSTANTS Bytes,     \* the values a byte of the stream takes
          Delim,     \* NewBuffer's delim
          MaxSz,     \* NewBuffer's maxSz (config.Cfg.MsgSize)
          InitCap,   \* capacity of the slice NewBuffer makes (4096)
          MaxInput   \* bound of the model: the writer stops after so many bytes

ASSUME BufferAssumption ==
  /\ Delim \in Seq(Bytes) /\ Delim # <<>>
  /\ MaxSz \in Nat /\ InitCap \in 1..MaxSz
  /\ MaxInput \in Nat

VARIABLES input,   \* what has been written to stdin so far
          closed,  \* the writer has closed its end
          rd,      \* how many bytes of input Read has returned
          buf,     \* b.buf[:len(b.buf)]
          cap,     \* cap(b.buf)
          live,    \* b.buf # nil
          pc,      \* "idle", or "reading" inside Next's loop
          taken,   \* history: bytes of input the returned messages and their
                   \* delimiters make up
          out,     \* history: the messages returned so far
          result   \* how the last call ended, as in Splitter

vars == <<input, closed, rd, buf, cap, live, pc, taken, out, result>>

Results == {"none", "data", "rest", "end", "error"}

TypeOK == /\ input \in Seq(Bytes) /\ closed \in BOOLEAN
          /\ rd \in 0..Len(input)
          /\ buf \in Seq(Bytes) /\ cap \in Nat /\ live \in BOOLEAN
          /\ pc \in {"idle", "reading"} /\ taken \in Nat
          /\ out \in Seq(Seq(Bytes)) /\ result \in Results

Init == /\ input = <<>> /\ closed = FALSE /\ rd = 0
        /\ buf = <<>> /\ cap = InitCap /\ live = TRUE
        /\ pc = "idle" /\ taken = 0 /\ out = <<>> /\ result = "none"

-----------------------------------------------------------------------------
(***************************************************************************)
(* The writer's end of the pipe.                                           *)
(***************************************************************************)
Write == /\ ~closed /\ Len(input) < MaxInput
         /\ \E b \in Bytes : input' = Append(input, b)
         /\ UNCHANGED <<closed, rd, buf, cap, live, pc, taken, out, result>>

Close == /\ ~closed
         /\ closed' = TRUE
         /\ UNCHANGED <<input, rd, buf, cap, live, pc, taken, out, result>>

-----------------------------------------------------------------------------
(***************************************************************************)
(* The capacity of the slice that Read is given: while there is less room  *)
(* than maxSz allows, the slice is replaced by one twice as large, at most *)
(* maxSz, and larger than its contents in any case.                        *)
(***************************************************************************)
NewCapUnclamped(len, c) == IF 2 * c <= len THEN len + 1 ELSE 2 * c  \* mutant

NewCapNoSpare(len, c) == IF 2 * c > MaxSz THEN MaxSz ELSE 2 * c     \* mutant

NewCap(len, c) == LET doubled == IF 2 * c > MaxSz THEN MaxSz ELSE 2 * c
                  IN IF doubled <= len THEN len + 1 ELSE doubled

Ensured == IF cap - Len(buf) < MaxSz - Len(buf) THEN NewCap(Len(buf), cap)
                                                ELSE cap

RoomFromStart == Ensured  \* mutant: reads into b.buf[0:cap]

Room == Ensured - Len(buf)

Unread == Len(input) - rd

(***************************************************************************)
(* What Read can return into Room bytes: how many, and with which error.   *)
(***************************************************************************)
ReadResults ==
  {r \in [n : 0..Unread, err : {"nil", "EOF", "failed"}] :
     IF r.n > 0 \/ Room = 0
     THEN r.n <= Room /\ r.err = "nil"
     ELSE \/ r.err = "EOF" /\ closed /\ Unread = 0
          \/ r.err = "failed"}

(***************************************************************************)
(* The loop's first check.  Next's other outcomes come after it.           *)
(***************************************************************************)
Oversize == MaxSz - Len(buf) < 0

Filled(n) == buf \o SubSeq(input, rd + 1, rd + n)

(***************************************************************************)
(* The search covers the whole slice, not just what Read added to it.      *)
(***************************************************************************)
FoundInChunk(n) ==  \* mutant: looks at the new bytes only
  LET idx == Index(SubSeq(input, rd + 1, rd + n), Delim)
  IN IF idx = NotFound THEN NotFound ELSE Len(buf) + idx

Found(n) == Index(Filled(n), Delim)

(***************************************************************************)
(* What stays in the slice b when a message of idx bytes is cut off.       *)
(***************************************************************************)
KeptFromNextByte(b, idx) == SubSeq(b, idx + 2, Len(b))  \* mutant

Kept(b, idx) == SubSeq(b, idx + Len(Delim) + 1, Len(b))

(***************************************************************************)
(* One iteration of the loop in which Read returned r.                     *)
(***************************************************************************)
Iteration(r) == /\ pc = "reading" /\ ~Oversize
                /\ r \in ReadResults
                /\ rd' = rd + r.n
                /\ UNCHANGED <<input, closed>>

ReturnFrom(kind) == pc' = "idle" /\ result' = kind

(***************************************************************************)
(* The delimiter is in the slice: whatever Read's error, Next returns the  *)
(* bytes before the first one and keeps those after it.                    *)
(***************************************************************************)
NextMessage ==
  \E r \in ReadResults :
    LET b   == Filled(r.n)
        idx == Found(r.n)
        cut == idx + Len(Delim)
    IN /\ Iteration(r)
       /\ idx # NotFound
       /\ out' = Append(out, SubSeq(b, 1, idx))
       /\ taken' = taken + cut
       /\ buf' = Kept(b, idx)
       /\ cap' = Ensured - cut
       /\ ReturnFrom("data")
       /\ UNCHANGED live

(***************************************************************************)
(* End of file: what is in the slice is the last message, if anything is,  *)
(* and the slice becomes nil.                                              *)
(***************************************************************************)
NextEOF ==
  \E r \in ReadResults :
    LET b == Filled(r.n) IN
    /\ Iteration(r)
    /\ r.err = "EOF" /\ Found(r.n) = NotFound
    /\ out' = IF b = <<>> THEN out ELSE Append(out, b)
    /\ taken' = taken + Len(b)
    /\ buf' = <<>> /\ cap' = 0 /\ live' = FALSE
    /\ ReturnFrom(IF b = <<>> THEN "end" ELSE "rest")

(***************************************************************************)
(* Any other error of Read, or a slice longer than maxSz.                  *)
(***************************************************************************)
NextError ==
  IF Oversize
  THEN /\ pc = "reading" /\ ReturnFrom("error")
       /\ UNCHANGED <<input, closed, rd, buf, cap, live, taken, out>>
  ELSE \E r \in ReadResults :
         /\ Iteration(r)
         /\ r.err = "failed" /\ Found(r.n) = NotFound
         /\ buf' = Filled(r.n) /\ cap' = Ensured
         /\ ReturnFrom("error")
         /\ UNCHANGED <<live, taken, out>>

(***************************************************************************)
(* No delimiter yet and no error: once more round the loop.                *)
(***************************************************************************)
ReadOn ==
  \E r \in ReadResults :
    /\ Iteration(r)
    /\ r.err = "nil" /\ Found(r.n) = NotFound
    /\ buf' = Filled(r.n) /\ cap' = Ensured
    /\ UNCHANGED <<live, pc, taken, out, result>>

(***************************************************************************)
(* Next is called: it enters the loop, or returns at once when an earlier  *)
(* call has left the slice nil.  The one caller, produceFromStdin, calls   *)
(* again after "data" and "rest" only.                                     *)
(***************************************************************************)
Call == /\ pc = "idle" /\ result \in {"none", "data", "rest"}
        /\ IF live THEN pc' = "reading" /\ UNCHANGED result
                   ELSE result' = "end" /\ UNCHANGED pc
        /\ UNCHANGED <<input, closed, rd, buf, cap, live, taken, out>>

-----------------------------------------------------------------------------
Reader == Call \/ NextMessage \/ NextEOF \/ NextError \/ ReadOn

Next == Write \/ Close \/ Call \/ NextMessage \/ NextEOF \/ NextError \/ ReadOn

Spec == Init /\ [][Next]_vars

(***************************************************************************)
(* The reader runs whenever Read can return; nothing makes the writer      *)
(* write or close.                                                         *)
(***************************************************************************)
FairSpec == Spec /\ WF_vars(Reader)

-----------------------------------------------------------------------------
(***************************************************************************)
(* The capacity arithmetic of lines 144-161: the slice never outgrows its  *)
(* capacity nor the capacity maxSz, so `remaining` is never negative and   *)
(* the "exceeded max size" return of line 146 is never taken.              *)
(***************************************************************************)
CapacityBound == /\ Len(buf) <= cap /\ cap <= MaxSz
                 /\ ~Oversize

(***************************************************************************)
(* No byte is lost, repeated or reordered between Read and the caller: the *)
(* slice holds exactly the bytes read and not yet returned, and is nil     *)
(* only when the closed stream has been returned to its last byte.         *)
(***************************************************************************)
HoldsUnreturned ==
  /\ taken + Len(buf) = rd
  /\ buf = SubSeq(input, taken + 1, rd)
  /\ ~live => closed /\ taken = Len(input)

(***************************************************************************)
(* The messages do not depend on how Read cuts the stream up: Next         *)
(* implements Splitter, which has no reads.                                *)
(***************************************************************************)
Split == INSTANCE Splitter
SplitterSpec == Split!Spec

(***************************************************************************)
(* The slice is full, holds no delimiter, and cannot grow any more.        *)
(***************************************************************************)
Full == Len(buf) = MaxSz /\ Index(buf, Delim) = NotFound

(***************************************************************************)
(* Once the writer has closed the stream the caller is told of the end (or *)
(* of a read error), however small the capacity left after earlier cuts:   *)
(* the one way to be stuck is a message that fills maxSz.                  *)
(***************************************************************************)
EndsUnlessFull == closed ~> (result \in {"end", "error"} \/ Full)

(***************************************************************************)
(* "exceeded max size", buffer.go:146: a message that does not fit is      *)
(* reported as an error.  REFUTED: Read into the full slice returns (0,    *)
(* nil) and the loop spins.                                                *)
(***************************************************************************)
OversizeReported == Full ~> result = "error"

=============================================================================
