------------------------------ MODULE Splitter ------------------------------
(***************************************************************************)
(* What input.Buffer promises its caller: a byte stream is cut into the    *)
(* messages between delimiters, in order, each once, and what is left when *)
(* the stream ends is one last message.  There are no reads, no buffer and *)
(* no capacity here; module Buffer has those and implements this one.      *)
(***************************************************************************)
EXTENDS Search

CONSTANTS Bytes,   \* the values a byte of the stream takes
          Delim    \* the delimiter, a non-empty sequence of Bytes

VARIABLES input,   \* what has been written to the stream so far
          closed,  \* the writer has closed the stream
          taken,   \* how much of input the returned messages account for
          out,     \* the messages returned so far
          result   \* how the last call of Next ended

vars == <<input, closed, taken, out, result>>

(***************************************************************************)
(* The (data, more, eof) triples of Next: (data, true, false) is "data",   *)
(* (data, true, true) is "rest", (nil, false, true) is "end" and           *)
(* (nil, false, false) is "error".  "none": no call has returned yet.      *)
(***************************************************************************)
Results == {"none", "data", "rest", "end", "error"}

Pending == SubSeq(input, taken + 1, Len(input))

Init == /\ input = <<>> /\ closed = FALSE
        /\ taken = 0 /\ out = <<>> /\ result = "none"

Write == /\ ~closed
         /\ \E b \in Bytes : input' = Append(input, b)
         /\ UNCHANGED <<closed, taken, out, result>>

Close == /\ ~closed
         /\ closed' = TRUE
         /\ UNCHANGED <<input, taken, out, result>>

Return(message, size, kind) ==
  /\ out' = Append(out, message)
  /\ taken' = taken + size
  /\ result' = kind
  /\ UNCHANGED <<input, closed>>

Message == LET i == Index(Pending, Delim) IN
           /\ i # NotFound
           /\ Return(SubSeq(Pending, 1, i), i + Len(Delim), "data")

Rest == /\ closed
        /\ Pending # <<>> /\ Index(Pending, Delim) = NotFound
        /\ Return(Pending, Len(Pending), "rest")

End == /\ closed /\ Pending = <<>>
       /\ result' = "end"
       /\ UNCHANGED <<input, closed, taken, out>>

Fail == /\ result' = "error"
        /\ UNCHANGED <<input, closed, taken, out>>

Next == Write \/ Close \/ Message \/ Rest \/ End \/ Fail

Spec == Init /\ [][Next]_vars

=============================================================================
