------------------------------- MODULE Search -------------------------------
(***************************************************************************)
(* Substring search as the three searchers of kcat-go do it:               *)
(*                                                                         *)
(*   input/buffer.go     Index, IndexBM   splits stdin at the -D delimiter *)
(*   input/buffer.go     Strnstr          the same loop, not called        *)
(*   util/strnstr.go     Strnstr          splits key from value at -K      *)
(*                                                                         *)
(* Offsets are the code's: 0-based, -1 for "no match".  A byte string is a *)
(* TLA+ sequence, so the byte at offset i is element i + 1.  The order in  *)
(* which one candidate's bytes are compared (right to left) cannot be      *)
(* observed and is left out; the range of candidates can, and is kept.     *)
(***************************************************************************)
EXTENDS Integers, Sequences, FiniteSetsExt

NotFound == -1

(***************************************************************************)
(* The comparison loop over j: sep occurs in buf at offset i.              *)
(***************************************************************************)
MatchesAt(buf, sep, i) == \A j \in 1..Len(sep) : buf[i + j] = sep[j]

(***************************************************************************)
(* The candidates the outer loop visits, up to and including offset        *)
(* `last`, at which sep matches.                                           *)
(***************************************************************************)
Matches(buf, sep, last) == {i \in 0..last : MatchesAt(buf, sep, i)}

(***************************************************************************)
(* The loop starts at the lowest candidate and returns the first match.    *)
(***************************************************************************)
LastMatch(buf, sep, last) ==  \* mutant: returns the last match
  IF Matches(buf, sep, last) = {} THEN NotFound
                                  ELSE Max(Matches(buf, sep, last))

FirstMatch(buf, sep, last) ==
  IF Matches(buf, sep, last) = {} THEN NotFound
                                  ELSE Min(Matches(buf, sep, last))

IndexBM(buf, sep) ==
  IF sep = <<>> THEN 0 ELSE FirstMatch(buf, sep, Len(buf) - Len(sep))

(***************************************************************************)
(* bytes.Index from the standard library, as Index uses it for one byte.   *)
(***************************************************************************)
BytesIndex(buf, sep) == FirstMatch(buf, sep, Len(buf) - Len(sep))

Index(buf, sep) ==
  IF Len(sep) = 1 THEN BytesIndex(buf, sep) ELSE IndexBM(buf, sep)

(***************************************************************************)
(* Strnstr of package input: the loop of IndexBM once more.                *)
(***************************************************************************)
InputStrnstr(haystack, needle) ==
  IF needle = <<>> THEN 0
  ELSE FirstMatch(haystack, needle, Len(haystack) - Len(needle))

(***************************************************************************)
(* util.Strnstr.  Its loop variable runs over the offset of the needle's   *)
(* LAST byte, from nlast up, but stops at hlen - nlen, the bound for the   *)
(* FIRST byte: the candidate offsets end nlast short of the haystack's     *)
(* end.                                                                    *)
(***************************************************************************)
StrnstrShort(haystack, needle) ==  \* mutant: nlast one too large
  LET nlast == Len(needle) IN
  IF needle = <<>> THEN 0
  ELSE FirstMatch(haystack, needle, Len(haystack) - Len(needle) - nlast)

Strnstr(haystack, needle) ==
  LET nlast == Len(needle) - 1 IN
  IF needle = <<>> THEN 0
  ELSE FirstMatch(haystack, needle, Len(haystack) - Len(needle) - nlast)

=============================================================================
