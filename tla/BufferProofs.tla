---------------------------- MODULE BufferProofs ----------------------------
(***************************************************************************)
(* Proofs about module Buffer for every alphabet, non-empty delimiter,     *)
(* maximum size and initial capacity, and every way the writer and Read    *)
(* cut the stream into pieces.                                             *)
(***************************************************************************)
EXTENDS Buffer, SearchProofs

(***************************************************************************)
(* The inductive invariant.  HoldsUnreturned gives the refinement,         *)
(* CapacityBound keeps the slice within its capacity, and a call is in     *)
(* the loop only while the slice is there.                                 *)
(***************************************************************************)
ReadingIsLive == pc = "reading" => live

IInv == TypeOK /\ CapacityBound /\ HoldsUnreturned /\ ReadingIsLive

-----------------------------------------------------------------------------
(***************************************************************************)
(* The slice handed to Read has room for its contents and stays within     *)
(* maxSz.                                                                  *)
(***************************************************************************)
LEMMA EnsuredBounds ==
  ASSUME TypeOK, CapacityBound
  PROVE  Ensured \in Nat /\ Len(buf) <= Ensured /\ Ensured <= MaxSz
<1>1. Len(buf) \in Nat /\ cap \in Nat /\ MaxSz \in Nat /\ MaxSz > 0
  BY BufferAssumption, LenProperties DEF TypeOK
<1>2. Len(buf) <= cap /\ cap <= MaxSz
  BY DEF CapacityBound
<1>3. CASE cap - Len(buf) < MaxSz - Len(buf)
  <2>1. Ensured = NewCap(Len(buf), cap)
    BY <1>3 DEF Ensured
  <2> QED
    BY <2>1, <1>1, <1>2, <1>3 DEF NewCap
<1>4. CASE ~(cap - Len(buf) < MaxSz - Len(buf))
  BY <1>1, <1>2, <1>4 DEF Ensured
<1> QED
  BY <1>3, <1>4

(***************************************************************************)
(* What Read can return: never more than there is and than there is room   *)
(* for, and end of file only when everything has been read.                *)
(***************************************************************************)
LEMMA ReadResultsBounds ==
  ASSUME TypeOK, CapacityBound, NEW r \in ReadResults
  PROVE  /\ r.n \in Nat /\ rd + r.n <= Len(input)
         /\ Len(buf) + r.n <= Ensured
         /\ r.err = "EOF" => closed /\ r.n = 0 /\ rd = Len(input)
<1>1. /\ Len(buf) \in Nat /\ Len(input) \in Nat /\ rd \in Nat /\ rd <= Len(input)
      /\ Ensured \in Nat /\ Len(buf) <= Ensured
  BY EnsuredBounds, LenProperties DEF TypeOK
<1>2. /\ r \in [n : 0..Unread, err : {"nil", "EOF", "failed"}]
      /\ IF r.n > 0 \/ Room = 0
         THEN r.n <= Room /\ r.err = "nil"
         ELSE \/ r.err = "EOF" /\ closed /\ Unread = 0
              \/ r.err = "failed"
  BY DEF ReadResults
<1>3. r.n \in 0..(Len(input) - rd)
  BY <1>2 DEF Unread
<1>4. r.n <= Ensured - Len(buf)
  BY <1>1, <1>2, <1>3 DEF Room
<1>5. r.err = "EOF" => closed /\ r.n = 0 /\ rd = Len(input)
  BY <1>1, <1>2, <1>3 DEF Unread
<1> QED
  BY <1>1, <1>3, <1>4, <1>5

(***************************************************************************)
(* With n more bytes the slice is the input from the first unreturned byte *)
(* up to the last byte read.                                               *)
(***************************************************************************)
LEMMA FilledIsPending ==
  ASSUME TypeOK, HoldsUnreturned, NEW n \in Nat, rd + n <= Len(input)
  PROVE  /\ Filled(n) \in Seq(Bytes)
         /\ Len(Filled(n)) = Len(buf) + n
         /\ \A k \in 1..Len(Filled(n)) : Filled(n)[k] = input[taken + k]
         /\ Filled(n) = SubSeq(input, taken + 1, rd + n)
<1>1. /\ input \in Seq(Bytes) /\ Len(input) \in Nat
      /\ buf \in Seq(Bytes) /\ Len(buf) \in Nat
      /\ rd \in Nat /\ rd <= Len(input)
      /\ taken \in Nat /\ taken + Len(buf) = rd
  BY LenProperties DEF TypeOK, HoldsUnreturned
<1> DEFINE old == SubSeq(input, taken + 1, rd)
           new == SubSeq(input, rd + 1, rd + n)
           all == SubSeq(input, taken + 1, rd + n)
<1>2. /\ new \in Seq(Bytes) /\ Len(new) = n
      /\ \A k \in 1..n : new[k] = input[rd + k]
  <2>1. \A i \in (rd + 1)..(rd + n) : input[i] \in Bytes
    BY <1>1
  <2>2. /\ new \in Seq(Bytes)
        /\ Len(new) = IF rd + 1 <= rd + n THEN (rd + n) - (rd + 1) + 1 ELSE 0
        /\ \A k \in 1..((rd + n) - (rd + 1) + 1) : new[k] = input[(rd + 1) + k - 1]
    BY <1>1, <2>1, SubSeqProperties
  <2> HIDE DEF new
  <2> QED
    BY <1>1, <2>2
<1>3. \A k \in 1..(rd - taken) : old[k] = input[taken + k]
  BY <1>1
<1>4. /\ all \in Seq(Bytes) /\ Len(all) = Len(buf) + n
      /\ \A k \in 1..(Len(buf) + n) : all[k] = input[taken + k]
  BY <1>1
<1>5. buf = old /\ Filled(n) = buf \o new
  BY DEF HoldsUnreturned, Filled
<1> HIDE DEF old, new, all
<1>6. /\ Filled(n) \in Seq(Bytes)
      /\ Len(Filled(n)) = Len(buf) + n
      /\ \A k \in 1..(Len(buf) + n) :
           Filled(n)[k] = IF k <= Len(buf) THEN buf[k] ELSE new[k - Len(buf)]
  <2>1. /\ buf \o new \in Seq(Bytes)
        /\ Len(buf \o new) = Len(buf) + Len(new)
        /\ \A k \in 1..(Len(buf) + Len(new)) :
             (buf \o new)[k] = IF k <= Len(buf) THEN buf[k] ELSE new[k - Len(buf)]
    BY <1>1, <1>2, ConcatProperties
  <2> QED
    BY <1>2, <1>5, <2>1
<1>7. ASSUME NEW k \in 1..(Len(buf) + n)
      PROVE  Filled(n)[k] = input[taken + k]
  <2>1. CASE k <= Len(buf)
    BY <1>1, <1>3, <1>5, <1>6, <2>1
  <2>2. CASE k > Len(buf)
    <3>1. k - Len(buf) \in 1..n /\ rd + (k - Len(buf)) = taken + k
      BY <1>1, <2>2
    <3>2. Filled(n)[k] = new[k - Len(buf)]
      BY <1>1, <1>6, <2>2
    <3> QED
      BY <1>2, <3>1, <3>2
  <2> QED
    BY <1>1, <2>1, <2>2
<1>8. Filled(n) = all
  BY <1>1, <1>4, <1>6, <1>7, SeqEqual
<1> QED
  BY <1>6, <1>7, <1>8 DEF all

(***************************************************************************)
(* Cutting a message and its delimiter off the front leaves the input from *)
(* the first byte after the delimiter on.                                  *)
(***************************************************************************)
LEMMA CutIsPending ==
  ASSUME TypeOK, HoldsUnreturned, NEW n \in Nat, rd + n <= Len(input),
         Found(n) # NotFound
  PROVE  LET idx == Found(n) IN
         /\ idx \in Nat /\ idx + Len(Delim) <= Len(buf) + n
         /\ Len(Delim) \in Nat /\ Len(Delim) > 0
         /\ SubSeq(Filled(n), 1, idx) \in Seq(Bytes)
         /\ SubSeq(Filled(n), 1, idx) = SubSeq(input, taken + 1, taken + idx)
         /\ Kept(Filled(n), idx) \in Seq(Bytes)
         /\ Len(Kept(Filled(n), idx)) = Len(buf) + n - (idx + Len(Delim))
         /\ Kept(Filled(n), idx)
              = SubSeq(input, taken + idx + Len(Delim) + 1, rd + n)
<1> DEFINE idx == Found(n)
           b == Filled(n)
           d == Len(Delim)
           lb == Len(b)
           li == Len(input)
           hi == rd + n
           cut == idx + d
<1>1. /\ input \in Seq(Bytes) /\ li \in Nat
      /\ Len(buf) \in Nat /\ rd \in Nat /\ rd <= li
      /\ taken \in Nat /\ taken + Len(buf) = rd
  BY LenProperties DEF TypeOK, HoldsUnreturned
<1>2. b \in Seq(Bytes) /\ lb = Len(buf) + n /\ b = SubSeq(input, taken + 1, hi)
  BY FilledIsPending
<1>3. Delim \in Seq(Bytes) /\ Delim # <<>> /\ d \in Nat /\ d > 0
  BY BufferAssumption, EmptySeq
<1>4. idx = Index(b, Delim) /\ idx # NotFound
  BY DEF Found
<1> HIDE DEF idx
<1>5. idx \in Nat /\ idx + d <= lb
  <2> HIDE DEF b
  <2> QED
    BY <1>2, <1>3, <1>4, IndexInBounds
<1>6. /\ lb \in Nat /\ hi \in Nat /\ taken <= hi /\ hi <= li
      /\ hi - taken = lb /\ cut \in Nat /\ idx <= lb
      /\ idx <= hi - taken /\ cut <= hi - taken
  <2>1. lb = Len(buf) + n /\ Len(buf) \in Nat /\ rd \in Nat /\ taken \in Nat
        /\ taken + Len(buf) = rd /\ d \in Nat /\ idx \in Nat /\ idx + d <= lb
    BY <1>1, <1>2, <1>3, <1>5
  <2> HIDE DEF b, d, lb, li
  <2> QED
    BY <2>1 DEF li
<1> HIDE DEF b, d, lb, li, hi, cut
<1>7. SubSeq(b, 1, idx) = SubSeq(input, taken + 1, taken + idx)
  <2>1. SubSeq(SubSeq(input, taken + 1, hi), 1, idx)
          = SubSeq(input, taken + 1, taken + idx)
    BY <1>1, <1>5, <1>6, StretchOfStretch DEF li
  <2> QED
    BY <1>2, <2>1
<1>8. SubSeq(b, cut + 1, lb) = SubSeq(input, taken + cut + 1, hi)
  <2>1. SubSeq(SubSeq(input, taken + 1, hi), cut + 1, hi - taken)
          = SubSeq(input, taken + cut + 1, hi)
    BY <1>1, <1>5, <1>6, StretchOfStretch DEF li
  <2> QED
    BY <1>2, <1>6, <2>1
<1>9. SubSeq(b, 0 + 1, idx) \in Seq(Bytes)
  BY <1>2, <1>5, <1>6, Stretch DEF lb
<1>10. /\ SubSeq(b, cut + 1, lb) \in Seq(Bytes)
       /\ Len(SubSeq(b, cut + 1, lb)) = lb - cut
  BY <1>2, <1>5, <1>6, Stretch, SMTT(30) DEF lb
<1>11. Kept(b, idx) = SubSeq(b, cut + 1, lb)
  BY DEF Kept, d, lb, cut
<1>12. taken + cut + 1 = taken + idx + d + 1
  BY <1>1, <1>3, <1>5 DEF cut
<1>13. lb - cut = Len(buf) + n - (idx + d) /\ 0 + 1 = 1
  BY <1>1, <1>2, <1>3, <1>5 DEF cut
<1>14. /\ SubSeq(b, 1, idx) \in Seq(Bytes)
       /\ Kept(b, idx) \in Seq(Bytes)
       /\ Len(Kept(b, idx)) = Len(buf) + n - (idx + d)
       /\ Kept(b, idx) = SubSeq(input, taken + idx + d + 1, hi)
  BY <1>2, <1>8, <1>9, <1>10, <1>11, <1>12, <1>13
<1> QED
  BY <1>2, <1>3, <1>5, <1>7, <1>14 DEF idx, b, d, hi

-----------------------------------------------------------------------------
(***************************************************************************)
(* NewBuffer establishes the invariant.                                    *)
(***************************************************************************)
LEMMA InitInv == Init => IInv
<1> SUFFICES ASSUME Init PROVE IInv
  OBVIOUS
<1>1. TypeOK
  <2>1. <<>> \in Seq(Bytes) /\ <<>> \in Seq(Seq(Bytes)) /\ Len(input) = 0
    BY DEF Init
  <2>2. rd \in 0..Len(input) /\ cap \in Nat /\ taken \in Nat
    BY <2>1, BufferAssumption DEF Init
  <2>3. pc \in {"idle", "reading"} /\ result \in Results
    BY DEF Init, Results
  <2>4. closed \in BOOLEAN /\ live \in BOOLEAN
    BY DEF Init
  <2> QED
    BY <2>1, <2>2, <2>3, <2>4 DEF Init, TypeOK
<1>2. CapacityBound
  BY BufferAssumption DEF Init, CapacityBound, Oversize
<1>3. HoldsUnreturned
  BY DEF Init, HoldsUnreturned
<1>4. ReadingIsLive
  BY DEF Init, ReadingIsLive
<1> QED
  BY <1>1, <1>2, <1>3, <1>4 DEF IInv

(***************************************************************************)
(* Bytes written after the last one read change nothing in the slice.      *)
(***************************************************************************)
LEMMA WriteInv ==
  ASSUME IInv, Write
  PROVE  IInv'
<1> PICK x \in Bytes : input' = Append(input, x)
  BY DEF Write
<1>1. UNCHANGED <<closed, rd, buf, cap, live, pc, taken, out, result>> /\ ~closed
  BY DEF Write
<1>2. /\ input \in Seq(Bytes) /\ Len(input) \in Nat
      /\ rd \in Nat /\ rd <= Len(input) /\ taken \in Nat
      /\ Len(buf) \in Nat /\ taken + Len(buf) = rd /\ taken <= rd
      /\ buf \in Seq(Bytes) /\ buf = SubSeq(input, taken + 1, rd) /\ live
  BY <1>1, LenProperties DEF IInv, TypeOK, HoldsUnreturned
<1>3. /\ input' \in Seq(Bytes) /\ Len(input') = Len(input) + 1
      /\ \A k \in 1..Len(input) : input'[k] = input[k]
  BY <1>2, AppendProperties
<1>4. TypeOK'
  BY <1>1, <1>2, <1>3 DEF IInv, TypeOK
<1>5. CapacityBound'
  BY <1>1 DEF IInv, CapacityBound, Oversize
<1>6. SubSeq(input', taken + 1, rd) = SubSeq(input, taken + 1, rd)
  <2> DEFINE new == SubSeq(input', taken + 1, rd)
             old == SubSeq(input, taken + 1, rd)
  <2>1. /\ new \in Seq(Bytes) /\ Len(new) = rd - taken
        /\ \A k \in 1..(rd - taken) : new[k] = input'[taken + k]
    BY <1>2, <1>3, Stretch
  <2>2. /\ old \in Seq(Bytes) /\ Len(old) = rd - taken
        /\ \A k \in 1..(rd - taken) : old[k] = input[taken + k]
    BY <1>2, Stretch
  <2> HIDE DEF new, old
  <2>3. \A k \in 1..(rd - taken) : taken + k \in 1..Len(input)
    BY <1>2
  <2>4. \A k \in 1..(rd - taken) : new[k] = old[k]
    BY <1>3, <2>1, <2>2, <2>3
  <2>5. new = old
    BY <2>1, <2>2, <2>4, SeqEqual
  <2> QED
    BY <2>5 DEF new, old
<1>7. HoldsUnreturned'
  BY <1>1, <1>2, <1>6 DEF HoldsUnreturned
<1>8. ReadingIsLive'
  BY <1>1 DEF IInv, ReadingIsLive
<1> QED
  BY <1>4, <1>5, <1>7, <1>8 DEF IInv

(***************************************************************************)
(* A message is cut off the front of the slice.                            *)
(***************************************************************************)
LEMMA NextMessageInv ==
  ASSUME IInv, NextMessage
  PROVE  IInv'
<1>1. PICK r \in ReadResults :
      /\ Iteration(r)
      /\ Found(r.n) # NotFound
      /\ out' = Append(out, SubSeq(Filled(r.n), 1, Found(r.n)))
      /\ taken' = taken + (Found(r.n) + Len(Delim))
      /\ buf' = Kept(Filled(r.n), Found(r.n))
      /\ cap' = Ensured - (Found(r.n) + Len(Delim))
      /\ ReturnFrom("data")
      /\ UNCHANGED live
  BY DEF NextMessage
<1> DEFINE n == r.n
           idx == Found(n)
           cut == idx + Len(Delim)
<1>2. /\ pc = "reading" /\ rd' = rd + n /\ UNCHANGED <<input, closed, live>>
      /\ taken' = taken + cut /\ cap' = Ensured - cut
      /\ buf' = Kept(Filled(n), idx)
      /\ out' = Append(out, SubSeq(Filled(n), 1, idx))
      /\ pc' = "idle" /\ result' = "data"
  BY <1>1 DEF Iteration, ReturnFrom
<1>3. n \in Nat /\ rd + n <= Len(input) /\ Len(buf) + n <= Ensured
  BY ReadResultsBounds DEF IInv
<1>4. /\ Ensured \in Nat /\ Ensured <= MaxSz
      /\ Len(buf) \in Nat /\ Len(input) \in Nat /\ rd \in Nat /\ taken \in Nat
      /\ taken + Len(buf) = rd /\ MaxSz \in Nat
  BY EnsuredBounds, LenProperties, BufferAssumption DEF IInv, TypeOK, HoldsUnreturned
<1>5. idx # NotFound
  BY <1>1
<1> HIDE DEF n
<1>6. /\ idx \in Nat /\ Len(Delim) \in Nat /\ cut <= Len(buf) + n
      /\ SubSeq(Filled(n), 1, idx) \in Seq(Bytes)
      /\ Kept(Filled(n), idx) \in Seq(Bytes)
      /\ Len(Kept(Filled(n), idx)) = Len(buf) + n - cut
      /\ Kept(Filled(n), idx) = SubSeq(input, taken + idx + Len(Delim) + 1, rd + n)
  BY <1>3, <1>5, CutIsPending DEF IInv
<1>7. /\ cut \in Nat /\ cut <= Len(buf) + n
      /\ taken + idx + Len(Delim) + 1 = (taken + cut) + 1
  BY <1>4, <1>6, SMTT(30)
<1> HIDE DEF idx, cut
<1>8. Len(buf') = Len(buf) + n - cut /\ buf' \in Seq(Bytes)
  BY <1>2, <1>6
<1>9. /\ Len(buf') \in Nat /\ Len(buf') <= cap' /\ cap' \in Nat /\ cap' <= MaxSz
      /\ taken' \in Nat /\ taken' + Len(buf') = rd' /\ rd' \in 0..Len(input)
  <2> DEFINE lb == Len(buf)
             left == Len(buf')
             E == Ensured
  <2>1. /\ left = lb + n - cut /\ cut <= lb + n /\ lb + n <= E
        /\ cut \in Nat /\ lb \in Nat /\ n \in Nat /\ E \in Nat /\ E <= MaxSz
        /\ MaxSz \in Nat /\ cap' = E - cut
    BY <1>2, <1>3, <1>4, <1>7, <1>8
  <2>2. /\ taken + lb = rd /\ taken' = taken + cut /\ rd' = rd + n
        /\ taken \in Nat /\ rd \in Nat /\ rd + n <= Len(input) /\ Len(input) \in Nat
    BY <1>2, <1>3, <1>4
  <2> HIDE DEF lb, left, E
  <2>3. left \in Nat /\ left <= cap' /\ cap' \in Nat /\ cap' <= MaxSz
    BY <2>1
  <2>4. taken' \in Nat /\ taken' + left = rd' /\ rd' \in 0..Len(input)
    BY <2>1, <2>2
  <2> QED
    BY <2>3, <2>4 DEF left
<1>10. TypeOK'
  <2>1. out' \in Seq(Seq(Bytes))
    BY <1>2, <1>6, AppendProperties DEF IInv, TypeOK
  <2>2. /\ input' \in Seq(Bytes) /\ closed' \in BOOLEAN /\ live' \in BOOLEAN
        /\ rd' \in 0..Len(input')
    BY <1>2, <1>9 DEF IInv, TypeOK
  <2> QED
    BY <1>2, <1>8, <1>9, <2>1, <2>2 DEF TypeOK, Results
<1>11. CapacityBound'
  BY <1>4, <1>9 DEF CapacityBound, Oversize
<1>12. live
  BY <1>2 DEF IInv, ReadingIsLive
<1>13. HoldsUnreturned'
  <2>1. buf' = SubSeq(input', taken' + 1, rd')
    BY <1>2, <1>6, <1>7
  <2> QED
    BY <1>2, <1>9, <1>12, <2>1 DEF HoldsUnreturned
<1>14. ReadingIsLive'
  BY <1>2 DEF ReadingIsLive
<1> QED
  BY <1>10, <1>11, <1>13, <1>14 DEF IInv

(***************************************************************************)
(* The last message is returned, or the end, and the slice becomes nil.    *)
(***************************************************************************)
LEMMA NextEOFInv ==
  ASSUME IInv, NextEOF
  PROVE  IInv'
<1>1. PICK r \in ReadResults :
      /\ Iteration(r)
      /\ r.err = "EOF"
      /\ out' = IF Filled(r.n) = <<>> THEN out ELSE Append(out, Filled(r.n))
      /\ taken' = taken + Len(Filled(r.n))
      /\ buf' = <<>> /\ cap' = 0 /\ live' = FALSE
      /\ ReturnFrom(IF Filled(r.n) = <<>> THEN "end" ELSE "rest")
  BY DEF NextEOF
<1> DEFINE n == r.n
<1>2. /\ UNCHANGED <<input, closed>> /\ rd' = rd + n
      /\ pc' = "idle" /\ result' \in Results
  BY <1>1 DEF Iteration, ReturnFrom, Results
<1>3. n = 0 /\ closed /\ rd = Len(input)
  BY <1>1, ReadResultsBounds DEF IInv
<1>4. /\ input \in Seq(Bytes) /\ Len(input) \in Nat /\ taken \in Nat
      /\ Len(buf) \in Nat /\ taken + Len(buf) = rd /\ MaxSz \in Nat
      /\ out \in Seq(Seq(Bytes)) /\ closed \in BOOLEAN
  BY LenProperties, BufferAssumption DEF IInv, TypeOK, HoldsUnreturned
<1>5. Filled(n) \in Seq(Bytes) /\ Len(Filled(n)) = Len(buf) + n
  BY <1>3, <1>4, FilledIsPending DEF IInv
<1>6. taken' = rd /\ rd' = rd
  <2>1. taken' = taken + Len(Filled(n)) /\ Len(Filled(n)) = Len(buf)
    BY <1>1, <1>3, <1>4, <1>5
  <2> QED
    BY <2>1, <1>2, <1>3, <1>4
<1>7. TypeOK'
  <2>1. out' \in Seq(Seq(Bytes))
    BY <1>1, <1>4, <1>5, AppendProperties
  <2>2. buf' \in Seq(Bytes) /\ cap' \in Nat
    BY <1>1, EmptySeq
  <2>3. live' \in BOOLEAN
    BY <1>1
  <2> QED
    BY <1>2, <1>3, <1>4, <1>6, <2>1, <2>2, <2>3 DEF TypeOK
<1>8. Len(buf') = 0
  BY <1>1
<1>9. CapacityBound'
  BY <1>1, <1>4, <1>8 DEF CapacityBound, Oversize
<1>10. HoldsUnreturned'
  <2>1. SubSeq(input', taken' + 1, rd') = <<>>
    BY <1>2, <1>3, <1>4, <1>6, SubSeqEmpty
  <2> QED
    BY <1>1, <1>2, <1>3, <1>4, <1>6, <1>8, <2>1 DEF HoldsUnreturned
<1>11. ReadingIsLive'
  BY <1>2 DEF ReadingIsLive
<1> QED
  BY <1>7, <1>9, <1>10, <1>11 DEF IInv

(***************************************************************************)
(* What was read stays in the slice, whether the loop goes on or the call  *)
(* ends with an error.                                                     *)
(***************************************************************************)
LEMMA KeepInv ==
  ASSUME IInv, NEW r \in ReadResults, Iteration(r),
         buf' = Filled(r.n), cap' = Ensured, UNCHANGED <<live, taken, out>>,
         pc' \in {"idle", "reading"}, result' \in Results
  PROVE  IInv'
<1> DEFINE n == r.n
<1>1. UNCHANGED <<input, closed>> /\ rd' = rd + n /\ pc = "reading"
  BY DEF Iteration
<1>2. n \in Nat /\ rd + n <= Len(input) /\ Len(buf) + n <= Ensured
  BY ReadResultsBounds DEF IInv
<1>3. /\ input \in Seq(Bytes) /\ Len(input) \in Nat
      /\ taken \in Nat /\ rd \in Nat /\ Len(buf) \in Nat /\ taken + Len(buf) = rd
      /\ MaxSz \in Nat /\ Ensured \in Nat /\ Ensured <= MaxSz
  BY LenProperties, BufferAssumption, EnsuredBounds
     DEF IInv, TypeOK, HoldsUnreturned
<1>4. live
  BY <1>1 DEF IInv, ReadingIsLive
<1>5. /\ buf' \in Seq(Bytes) /\ Len(buf') = Len(buf) + n
      /\ buf' = SubSeq(input', taken' + 1, rd')
  BY <1>1, <1>2, FilledIsPending DEF IInv
<1> HIDE DEF n
<1>6. TypeOK'
  <2>1. rd' \in 0..Len(input')
    BY <1>1, <1>2, <1>3
  <2> QED
    BY <1>1, <1>3, <1>5, <2>1 DEF IInv, TypeOK
<1>7. CapacityBound'
  BY <1>2, <1>3, <1>5 DEF CapacityBound, Oversize
<1>8. taken' + Len(buf') = rd'
  BY <1>1, <1>2, <1>3, <1>5, SMTT(30)
<1>9. HoldsUnreturned'
  BY <1>4, <1>5, <1>8 DEF HoldsUnreturned
<1>10. ReadingIsLive'
  BY <1>4 DEF ReadingIsLive
<1> QED
  BY <1>6, <1>7, <1>9, <1>10 DEF IInv

(***************************************************************************)
(* Every step preserves the invariant.                                     *)
(***************************************************************************)
LEMMA StepInv == IInv /\ [Next]_vars => IInv'
<1> SUFFICES ASSUME IInv, [Next]_vars PROVE IInv'
  OBVIOUS
<1>1. CASE Write
  BY <1>1, WriteInv
<1>2. CASE Close
  <2>1. /\ UNCHANGED <<input, rd, buf, cap, live, pc, taken, out, result>>
        /\ ~closed /\ closed' = TRUE
    BY <1>2 DEF Close
  <2> QED
    BY <2>1 DEF IInv, TypeOK, CapacityBound, Oversize, HoldsUnreturned, ReadingIsLive
<1>3. CASE Call
  <2>1. UNCHANGED <<input, closed, rd, buf, cap, live, taken, out>>
    BY <1>3 DEF Call
  <2>2. /\ pc' \in {"idle", "reading"} /\ result' \in Results
        /\ pc' = "reading" => live
    BY <1>3 DEF Call, Results, IInv, TypeOK
  <2> QED
    BY <2>1, <2>2
       DEF IInv, TypeOK, CapacityBound, Oversize, HoldsUnreturned, ReadingIsLive
<1>4. CASE NextMessage
  BY <1>4, NextMessageInv
<1>5. CASE NextEOF
  BY <1>5, NextEOFInv
<1>6. CASE NextError
  <2>1. ~Oversize
    BY DEF IInv, CapacityBound
  <2>2. PICK r \in ReadResults :
          /\ Iteration(r) /\ buf' = Filled(r.n) /\ cap' = Ensured
          /\ ReturnFrom("error") /\ UNCHANGED <<live, taken, out>>
    BY <1>6, <2>1 DEF NextError
  <2>3. pc' = "idle" /\ result' \in Results
    BY <2>2 DEF ReturnFrom, Results
  <2> QED
    BY <2>2, <2>3, KeepInv
<1>7. CASE ReadOn
  <2>1. PICK r \in ReadResults :
          /\ Iteration(r) /\ buf' = Filled(r.n) /\ cap' = Ensured
          /\ UNCHANGED <<live, pc, taken, out, result>>
    BY <1>7 DEF ReadOn
  <2>2. pc' \in {"idle", "reading"} /\ result' \in Results
    BY <2>1 DEF IInv, TypeOK
  <2> QED
    BY <2>1, <2>2, KeepInv
<1>8. CASE UNCHANGED vars
  BY <1>8
     DEF vars, IInv, TypeOK, CapacityBound, Oversize, HoldsUnreturned, ReadingIsLive
<1> QED
  BY <1>1, <1>2, <1>3, <1>4, <1>5, <1>6, <1>7, <1>8 DEF Next

(***************************************************************************)
(* In every behaviour of input.Buffer the invariant holds in every state.  *)
(***************************************************************************)
THEOREM Invariance == Spec => []IInv
BY InitInv, StepInv, PTL DEF Spec

(***************************************************************************)
(* Type correctness of input.Buffer.                                       *)
(***************************************************************************)
THEOREM TypeCorrect == Spec => []TypeOK
<1>1. IInv => TypeOK
  BY DEF IInv
<1> QED
  BY <1>1, Invariance, PTL

(***************************************************************************)
(* buffer.go 144-161: whatever messages of whatever sizes were cut off the *)
(* slice before, its contents fit its capacity and its capacity fits       *)
(* maxSz; the "exceeded max size" return is dead code.                     *)
(***************************************************************************)
THEOREM CapacityNeverExceeded == Spec => []CapacityBound
<1>1. IInv => CapacityBound
  BY DEF IInv
<1> QED
  BY <1>1, Invariance, PTL

(***************************************************************************)
(* buffer.go 163-190: between Read and the caller no byte is lost,         *)
(* repeated or reordered.                                                  *)
(***************************************************************************)
THEOREM NothingLost == Spec => []HoldsUnreturned
<1>1. IInv => HoldsUnreturned
  BY DEF IInv
<1> QED
  BY <1>1, Invariance, PTL

-----------------------------------------------------------------------------
(***************************************************************************)
(* What Splitter calls pending: the input not yet returned.  The slice is  *)
(* a prefix of it.                                                         *)
(***************************************************************************)
LEMMA FilledIsPrefix ==
  ASSUME IInv, NEW n \in Nat, rd + n <= Len(input)
  PROVE  /\ Split!Pending \in Seq(Bytes)
         /\ Len(Split!Pending) = Len(input) - taken
         /\ Filled(n) \in Seq(Bytes) /\ Len(Filled(n)) <= Len(Split!Pending)
         /\ \A k \in 1..Len(Filled(n)) : Filled(n)[k] = Split!Pending[k]
         /\ rd + n = Len(input) => Filled(n) = Split!Pending
<1> DEFINE p == Split!Pending
<1>1. /\ input \in Seq(Bytes) /\ Len(input) \in Nat /\ rd \in Nat /\ taken \in Nat
      /\ Len(buf) \in Nat /\ taken + Len(buf) = rd /\ taken <= Len(input)
  BY LenProperties DEF IInv, TypeOK, HoldsUnreturned
<1>2. p = SubSeq(input, taken + 1, Len(input))
  BY DEF Split!Pending
<1>3. /\ p \in Seq(Bytes) /\ Len(p) = Len(input) - taken
      /\ \A k \in 1..(Len(input) - taken) : p[k] = input[taken + k]
  BY <1>1, <1>2, Stretch
<1>4. /\ Filled(n) \in Seq(Bytes) /\ Len(Filled(n)) = Len(buf) + n
      /\ \A k \in 1..Len(Filled(n)) : Filled(n)[k] = input[taken + k]
      /\ Filled(n) = SubSeq(input, taken + 1, rd + n)
  BY FilledIsPending DEF IInv
<1> HIDE DEF p
<1>5. Len(buf) + n <= Len(input) - taken
  BY <1>1
<1>6. \A k \in 1..Len(Filled(n)) : k \in 1..(Len(input) - taken)
  BY <1>1, <1>4, <1>5
<1>7. \A k \in 1..Len(Filled(n)) : Filled(n)[k] = p[k]
  BY <1>3, <1>4, <1>6
<1>8. Len(Filled(n)) <= Len(p)
  BY <1>3, <1>4, <1>5
<1>9. rd + n = Len(input) => Filled(n) = p
  BY <1>2, <1>4
<1> QED
  BY <1>3, <1>4, <1>7, <1>8, <1>9 DEF p

(***************************************************************************)
(* Splitter searches as Buffer does.                                       *)
(***************************************************************************)
LEMMA SplitIndex ==
  ASSUME NEW b, NEW d
  PROVE  Split!Index(b, d) = Index(b, d) /\ Split!NotFound = NotFound
BY DEF Index, IndexBM, BytesIndex, FirstMatch, Matches, MatchesAt, NotFound, Min,
       Split!Index, Split!IndexBM, Split!BytesIndex, Split!FirstMatch,
       Split!Matches, Split!MatchesAt, Split!NotFound, Split!Min

(***************************************************************************)
(* The delimiter found in the slice is the first one of the pending input, *)
(* so the message Next returns is the one Splitter returns.                *)
(***************************************************************************)
LEMMA MessageImplements ==
  ASSUME IInv, NextMessage
  PROVE  Split!Message
<1>1. PICK r \in ReadResults :
      /\ Iteration(r)
      /\ Found(r.n) # NotFound
      /\ out' = Append(out, SubSeq(Filled(r.n), 1, Found(r.n)))
      /\ taken' = taken + (Found(r.n) + Len(Delim))
      /\ ReturnFrom("data")
  BY DEF NextMessage
<1> DEFINE n == r.n
           idx == Found(n)
           p == Split!Pending
<1>2. n \in Nat /\ rd + n <= Len(input)
  BY ReadResultsBounds DEF IInv
<1>3. /\ UNCHANGED <<input, closed>> /\ result' = "data"
      /\ taken' = taken + (idx + Len(Delim))
      /\ out' = Append(out, SubSeq(Filled(n), 1, idx))
  BY <1>1 DEF Iteration, ReturnFrom
<1>4. idx # NotFound
  BY <1>1
<1> HIDE DEF n
<1>5. Index(p, Delim) = idx
  <2>1. /\ p \in Seq(Bytes) /\ Filled(n) \in Seq(Bytes)
        /\ Len(Filled(n)) <= Len(p)
        /\ \A k \in 1..Len(Filled(n)) : Filled(n)[k] = p[k]
    BY <1>2, FilledIsPrefix
  <2>2. Delim \in Seq(Bytes) /\ Delim # <<>>
    BY BufferAssumption
  <2>3. Index(Filled(n), Delim) # NotFound
    BY <1>4 DEF Found
  <2> HIDE DEF p
  <2>4. Index(p, Delim) = Index(Filled(n), Delim)
    BY <2>1, <2>2, <2>3, IndexOfPrefix
  <2> QED
    BY <2>4 DEF Found
<1>6. SubSeq(p, 1, idx) = SubSeq(Filled(n), 1, idx)
  <2>1. /\ idx \in Nat /\ Len(Delim) \in Nat /\ idx + Len(Delim) <= Len(buf) + n
        /\ SubSeq(Filled(n), 1, idx) = SubSeq(input, taken + 1, taken + idx)
    <3> HIDE DEF p
    <3>1. TypeOK /\ HoldsUnreturned /\ Found(n) # NotFound
      BY <1>4 DEF IInv
    <3> QED
      BY <1>2, <3>1, CutIsPending
  <2>2. /\ input \in Seq(Bytes) /\ Len(input) \in Nat /\ rd \in Nat /\ taken \in Nat
        /\ Len(buf) \in Nat /\ taken + Len(buf) = rd
    BY LenProperties DEF IInv, TypeOK, HoldsUnreturned
  <2> HIDE DEF idx
  <2>3. taken <= Len(input) /\ idx <= Len(input) - taken
    BY <1>2, <2>1, <2>2
  <2>4. SubSeq(SubSeq(input, taken + 1, Len(input)), 1, idx)
          = SubSeq(input, taken + 1, taken + idx)
    BY <2>1, <2>2, <2>3, StretchOfStretch
  <2> QED
    BY <2>1, <2>4 DEF Split!Pending
<1>7. Split!Return(SubSeq(p, 1, Index(p, Delim)), Index(p, Delim) + Len(Delim), "data")
  <2> HIDE DEF p, idx
  <2> QED
    BY <1>3, <1>5, <1>6 DEF Split!Return
<1>8. Index(p, Delim) # NotFound
  BY <1>4, <1>5
<1> QED
  BY <1>7, <1>8, SplitIndex DEF Split!Message

(***************************************************************************)
(* At end of file the slice is all of the pending input.                   *)
(***************************************************************************)
LEMMA EOFImplements ==
  ASSUME IInv, NextEOF
  PROVE  Split!Rest \/ Split!End
<1>1. PICK r \in ReadResults :
      /\ Iteration(r)
      /\ r.err = "EOF" /\ Found(r.n) = NotFound
      /\ out' = IF Filled(r.n) = <<>> THEN out ELSE Append(out, Filled(r.n))
      /\ taken' = taken + Len(Filled(r.n))
      /\ ReturnFrom(IF Filled(r.n) = <<>> THEN "end" ELSE "rest")
  BY DEF NextEOF
<1> DEFINE n == r.n
           p == Split!Pending
<1>2. n = 0 /\ closed /\ rd = Len(input) /\ rd \in Nat
  BY <1>1, ReadResultsBounds, LenProperties DEF IInv, TypeOK
<1>3. Filled(n) = p
  BY <1>2, FilledIsPrefix
<1>4. /\ UNCHANGED <<input, closed>> /\ Index(p, Delim) = NotFound
      /\ result' = IF p = <<>> THEN "end" ELSE "rest"
      /\ out' = IF p = <<>> THEN out ELSE Append(out, p)
      /\ taken' = taken + Len(p)
  BY <1>1, <1>3 DEF Iteration, ReturnFrom, Found
<1> HIDE DEF p
<1>5. CASE p = <<>>
  <2>1. taken' = taken
    BY <1>4, <1>5 DEF IInv, TypeOK
  <2> QED
    BY <1>2, <1>4, <1>5, <2>1 DEF Split!End, p
<1>6. CASE p # <<>>
  <2>1. Split!Return(p, Len(p), "rest")
    BY <1>4, <1>6 DEF Split!Return
  <2> QED
    BY <1>2, <1>4, <1>6, <2>1, SplitIndex DEF Split!Rest, p
<1> QED
  BY <1>5, <1>6

(***************************************************************************)
(* Every step of Buffer is one of Splitter's or changes nothing Splitter   *)
(* sees.                                                                   *)
(***************************************************************************)
LEMMA StepImplements == IInv /\ [Next]_vars => [Split!Next]_(Split!vars)
<1> SUFFICES ASSUME IInv, [Next]_vars PROVE [Split!Next]_(Split!vars)
  OBVIOUS
<1> USE DEF Split!Next, Split!vars
<1>1. CASE Write
  BY <1>1 DEF Write, Split!Write
<1>2. CASE Close
  BY <1>2 DEF Close, Split!Close
<1>3. CASE Call
  <2>1. CASE live
    BY <1>3, <2>1 DEF Call
  <2>2. CASE ~live
    <3>1. closed /\ taken = Len(input)
      BY <2>2 DEF IInv, HoldsUnreturned
    <3>2. Split!Pending = <<>>
      BY <3>1, SubSeqEmpty DEF IInv, TypeOK, Split!Pending
    <3> QED
      BY <1>3, <2>2, <3>1, <3>2 DEF Call, Split!End
  <2> QED
    BY <2>1, <2>2
<1>4. CASE NextMessage
  BY <1>4, MessageImplements
<1>5. CASE NextEOF
  BY <1>5, EOFImplements
<1>6. CASE NextError
  <2>1. ~Oversize
    BY DEF IInv, CapacityBound
  <2>2. PICK r \in ReadResults :
          /\ Iteration(r) /\ ReturnFrom("error") /\ UNCHANGED <<live, taken, out>>
    BY <1>6, <2>1 DEF NextError
  <2> QED
    BY <2>2 DEF Iteration, ReturnFrom, Split!Fail
<1>7. CASE ReadOn
  <2>1. PICK r \in ReadResults :
          /\ Iteration(r) /\ UNCHANGED <<live, pc, taken, out, result>>
    BY <1>7 DEF ReadOn
  <2> QED
    BY <2>1 DEF Iteration
<1>8. CASE UNCHANGED vars
  BY <1>8 DEF vars
<1> QED
  BY <1>1, <1>2, <1>3, <1>4, <1>5, <1>6, <1>7, <1>8 DEF Next

(***************************************************************************)
(* input.Buffer implements the byte-stream splitter: the messages that     *)
(* Next returns, and their order, depend on the stream alone and not on    *)
(* how Read cuts it up or how the slice grows and shrinks.                 *)
(***************************************************************************)
THEOREM Implementation == Spec => SplitterSpec
<1>1. Init => Split!Init
  BY DEF Init, Split!Init
<1> QED
  BY <1>1, StepImplements, Invariance, PTL DEF Spec, SplitterSpec, Split!Spec

=============================================================================
