---------------------------- MODULE SearchInput -----------------------------
(***************************************************************************)
(* A pattern searched for in an input that arrives byte by byte, as stdin  *)
(* does: Buffer.Next searches again after every Read, and a line that is   *)
(* complete is searched once for its key delimiter.  Every input is the    *)
(* state of some behaviour, so the invariants compare the searchers with a *)
(* reference on all of them, and the action property says what another     *)
(* byte can change.                                                        *)
(***************************************************************************)
EXTENDS Search, SequencesExt

CONSTANTS Bytes,       \* alphabet
          MaxPattern,  \* bounds on the lengths of pattern and input
          MaxInput

ASSUME SearchInputAssumption == MaxPattern \in Nat /\ MaxInput \in Nat

VARIABLES pattern, input

searchVars == <<pattern, input>>

SearchInit ==
  /\ pattern \in UNION {[1..n -> Bytes] : n \in 1..MaxPattern}
  /\ input = <<>>

Read ==
  /\ Len(input) < MaxInput
  /\ \E b \in Bytes : input' = Append(input, b)
  /\ UNCHANGED pattern

SearchSpec == SearchInit /\ [][Read]_searchVars

-----------------------------------------------------------------------------
(***************************************************************************)
(* Reference: the text before an occurrence of n in h is a prefix p of h   *)
(* such that p followed by n is a prefix of h too; an occurrence at p is   *)
(* the first one when no shorter such text exists.                         *)
(***************************************************************************)
Before(h, n) == {p \in Prefixes(h) : IsPrefix(p \o n, h)}

FirstOccurrence(h, n) ==
  IF Before(h, n) = {} THEN NotFound
  ELSE CHOOSE k \in {Len(p) : p \in Before(h, n)} :
         \A p \in Before(h, n) : k <= Len(p)

(***************************************************************************)
(* Index and package input's Strnstr (buffer.go 79-112, 212-236) return    *)
(* the offset of the first occurrence, -1 exactly when there is none.      *)
(***************************************************************************)
IndexIsFirstOccurrence ==
  /\ Index(input, pattern) = FirstOccurrence(input, pattern)
  /\ InputStrnstr(input, pattern) = FirstOccurrence(input, pattern)

(***************************************************************************)
(* Buffer.Next searches again after every Read (buffer.go 169-180): a      *)
(* match, once found, does not move when more bytes arrive, and a byte     *)
(* that completes a match ends it.  This is why the messages do not        *)
(* depend on how Read cuts the input up, whatever overlaps a multi-byte    *)
(* delimiter has with itself.                                              *)
(***************************************************************************)
GrowthKeepsMatch ==
  [][LET before == Index(input, pattern)
         after  == Index(input', pattern)
     IN IF before # NotFound
        THEN after = before
        ELSE after \in {NotFound, Len(input') - Len(pattern)}]_searchVars

(***************************************************************************)
(* util.Strnstr (strnstr.go 5-31), used to split a key from its value,     *)
(* never reports a wrong offset, and can miss the first occurrence only    *)
(* when fewer than Len(pattern) - 1 bytes follow it.                       *)
(***************************************************************************)
StrnstrMissesOnlyNearEnd ==
  LET k == FirstOccurrence(input, pattern) IN
  /\ Strnstr(input, pattern) \in {NotFound, k}
  /\ k # NotFound /\ Len(input) - (k + Len(pattern)) >= Len(pattern) - 1
       => Strnstr(input, pattern) = k

(***************************************************************************)
(* What strnstr.go:3-4 says of util.Strnstr, and main.go:456 tests: the    *)
(* offset of the first occurrence in the haystack, -1 if not found.        *)
(* REFUTED: a delimiter of two or more bytes at the end is not found.      *)
(***************************************************************************)
StrnstrFindsNeedle == Strnstr(input, pattern) = FirstOccurrence(input, pattern)

=============================================================================
