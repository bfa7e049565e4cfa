---------------------------- MODULE SearchProofs ----------------------------
(***************************************************************************)
(* Lemmas about the searchers of module Search, for byte strings of any    *)
(* length over any alphabet.                                               *)
(***************************************************************************)
EXTENDS Search, FiniteSetTheorems, SequenceTheorems, TLAPS

(***************************************************************************)
(* A stretch of a stretch of s: the first m elements of s[lo+1 .. hi] and  *)
(* those after them.                                                       *)
(***************************************************************************)
LEMMA Stretch ==
  ASSUME NEW S, NEW s \in Seq(S), NEW lo \in Nat, NEW hi \in Nat,
         lo <= hi, hi <= Len(s)
  PROVE  /\ SubSeq(s, lo + 1, hi) \in Seq(S)
         /\ Len(SubSeq(s, lo + 1, hi)) = hi - lo
         /\ \A k \in 1..(hi - lo) : SubSeq(s, lo + 1, hi)[k] = s[lo + k]
<1>1. \A i \in (lo + 1)..hi : s[i] \in S
  BY ElementOfSeq
<1>2. /\ SubSeq(s, lo + 1, hi) \in Seq(S)
      /\ Len(SubSeq(s, lo + 1, hi)) = IF lo + 1 <= hi THEN hi - (lo + 1) + 1 ELSE 0
      /\ \A k \in 1..(hi - (lo + 1) + 1) : SubSeq(s, lo + 1, hi)[k] = s[(lo + 1) + k - 1]
  BY <1>1, SubSeqProperties
<1> QED
  BY <1>2

LEMMA StretchOfStretch ==
  ASSUME NEW S, NEW s \in Seq(S), NEW lo \in Nat, NEW hi \in Nat,
         lo <= hi, hi <= Len(s), NEW m \in Nat, m <= hi - lo
  PROVE  /\ SubSeq(SubSeq(s, lo + 1, hi), 1, m) = SubSeq(s, lo + 1, lo + m)
         /\ SubSeq(SubSeq(s, lo + 1, hi), m + 1, hi - lo) = SubSeq(s, lo + m + 1, hi)
<1> DEFINE b == SubSeq(s, lo + 1, hi)
           front == SubSeq(b, 0 + 1, m)
           kept == SubSeq(b, m + 1, hi - lo)
           msg == SubSeq(s, lo + 1, lo + m)
           tail == SubSeq(s, (lo + m) + 1, hi)
<1>1. b \in Seq(S) /\ Len(b) = hi - lo /\ \A k \in 1..(hi - lo) : b[k] = s[lo + k]
  BY Stretch
<1> HIDE DEF b
<1>2. front \in Seq(S) /\ Len(front) = m /\ \A k \in 1..m : front[k] = b[k]
  BY <1>1, Stretch
<1>3. msg \in Seq(S) /\ Len(msg) = m /\ \A k \in 1..m : msg[k] = s[lo + k]
  BY Stretch
<1>4. /\ kept \in Seq(S) /\ Len(kept) = (hi - lo) - m
      /\ \A k \in 1..((hi - lo) - m) : kept[k] = b[m + k]
  BY <1>1, Stretch
<1>5. /\ tail \in Seq(S) /\ Len(tail) = hi - (lo + m)
      /\ \A k \in 1..(hi - (lo + m)) : tail[k] = s[(lo + m) + k]
  BY Stretch
<1> HIDE DEF front, kept, msg, tail
<1>6. front = msg
  <2>1. \A k \in 1..m : front[k] = msg[k]
    BY <1>1, <1>2, <1>3
  <2> QED
    BY <2>1, <1>2, <1>3, SeqEqual
<1>7. kept = tail
  <2>1. ASSUME NEW k \in 1..((hi - lo) - m)
        PROVE  kept[k] = tail[k]
    <3>1. m + k \in 1..(hi - lo) /\ lo + (m + k) = (lo + m) + k
      OBVIOUS
    <3> QED
      BY <3>1, <1>1, <1>4, <1>5
  <2> QED
    BY <2>1, <1>4, <1>5, SeqEqual
<1> QED
  BY <1>6, <1>7 DEF front, kept, msg, tail, b

(***************************************************************************)
(* Every non-empty set of natural numbers has a least element, and Min     *)
(* returns it.                                                             *)
(***************************************************************************)
LEMMA MinOfNat ==
  ASSUME NEW S \in SUBSET Nat, S # {}
  PROVE  Min(S) \in S /\ \A k \in S : Min(S) <= k
<1> DEFINE Below(n) == 0..(n-1)
           F == {Below(n) : n \in S}
           Smaller == StrictSubsetOrdering(Nat)
<1>1. F \subseteq FiniteSubsetsOf(Nat) /\ F # {}
  <2>1. ASSUME NEW n \in S
        PROVE  Below(n) \in FiniteSubsetsOf(Nat)
    <3>1. IsFiniteSet(0..(n-1))
      BY FS_Interval
    <3> QED
      BY <3>1 DEF FiniteSubsetsOf
  <2> QED
    BY <2>1
<1>2. PICK X \in F : \A Y \in F : ~ (<<Y, X>> \in Smaller)
  <2>1. IsWellFoundedOn(Smaller, FiniteSubsetsOf(Nat))
    BY FS_StrictSubsetOrderingWellFounded
  <2> HIDE DEF F, Smaller
  <2> QED
    BY <1>1, <2>1, WFMin
<1>3. PICK m \in S : X = Below(m)
  BY <1>2
<1>4. ASSUME NEW k \in S
      PROVE  m <= k
  <2>1. SUFFICES ASSUME k < m
                 PROVE  FALSE
    BY <1>4
  <2>2. Below(k) \in SUBSET Nat /\ Below(m) \in SUBSET Nat
    OBVIOUS
  <2>3. Below(k) \subseteq Below(m) /\ k \in Below(m) /\ k \notin Below(k)
    BY <2>1
  <2>4. <<Below(k), Below(m)>> \in Smaller
    BY <2>2, <2>3 DEF StrictSubsetOrdering
  <2> QED
    BY <1>2, <1>3, <2>4
<1> QED
  BY <1>4 DEF Min

(***************************************************************************)
(* FirstMatch returns -1 exactly when no candidate matches, and otherwise  *)
(* the least candidate that does.                                          *)
(***************************************************************************)
LEMMA FirstMatchIsFirst ==
  ASSUME NEW buf, NEW sep, NEW last \in Int
  PROVE  LET i == FirstMatch(buf, sep, last) IN
         /\ i \in Nat \cup {NotFound}
         /\ i # NotFound => /\ i <= last /\ MatchesAt(buf, sep, i)
                            /\ \A k \in 0..last : MatchesAt(buf, sep, k) => i <= k
         /\ i = NotFound => \A k \in 0..last : ~MatchesAt(buf, sep, k)
<1> DEFINE M == Matches(buf, sep, last)
<1>1. M \in SUBSET Nat
  BY DEF Matches
<1>2. CASE M = {}
  <2>1. FirstMatch(buf, sep, last) = NotFound
    BY <1>2 DEF FirstMatch
  <2>2. \A k \in 0..last : ~MatchesAt(buf, sep, k)
    BY <1>2 DEF Matches
  <2> QED
    BY <2>1, <2>2
<1>3. CASE M # {}
  <2>1. FirstMatch(buf, sep, last) = Min(M)
    BY <1>3 DEF FirstMatch
  <2>2. Min(M) \in M /\ \A k \in M : Min(M) <= k
    BY <1>1, <1>3, MinOfNat
  <2> QED
    BY <2>1, <2>2, <1>1 DEF Matches, NotFound
<1> QED
  BY <1>2, <1>3

(***************************************************************************)
(* Index is one search whatever the delimiter's length: the searcher it    *)
(* picks for one byte and the one it picks for more agree.                 *)
(***************************************************************************)
LEMMA IndexIsFirstMatch ==
  ASSUME NEW buf, NEW sep, sep # <<>>
  PROVE  Index(buf, sep) = FirstMatch(buf, sep, Len(buf) - Len(sep))
BY DEF Index, IndexBM, BytesIndex

(***************************************************************************)
(* An offset that Index returns leaves room for the whole delimiter.       *)
(***************************************************************************)
LEMMA IndexInBounds ==
  ASSUME NEW S, NEW buf \in Seq(S), NEW sep \in Seq(S), sep # <<>>
  PROVE  /\ Index(buf, sep) \in Nat \cup {NotFound}
         /\ Index(buf, sep) # NotFound => Index(buf, sep) + Len(sep) <= Len(buf)
BY IndexIsFirstMatch, FirstMatchIsFirst

(***************************************************************************)
(* A match found in a prefix is the match in the whole: searching what has *)
(* been read so far never returns another message than searching the       *)
(* complete input would.                                                   *)
(***************************************************************************)
LEMMA IndexOfPrefix ==
  ASSUME NEW S, NEW s \in Seq(S), NEW p \in Seq(S),
         NEW sep \in Seq(S), sep # <<>>,
         Len(p) <= Len(s), \A k \in 1..Len(p) : p[k] = s[k],
         Index(p, sep) # NotFound
  PROVE  Index(s, sep) = Index(p, sep)
<1> DEFINE lastp == Len(p) - Len(sep)
           lasts == Len(s) - Len(sep)
           i == Index(p, sep)
<1>1. i = FirstMatch(p, sep, lastp) /\ Index(s, sep) = FirstMatch(s, sep, lasts)
  BY IndexIsFirstMatch
<1>2. lastp \in Int /\ lasts \in Int /\ lastp <= lasts
  OBVIOUS
<1>3. /\ i \in Nat /\ i <= lastp /\ MatchesAt(p, sep, i)
      /\ \A k \in 0..lastp : MatchesAt(p, sep, k) => i <= k
  BY <1>1, <1>2, FirstMatchIsFirst
<1>4. ASSUME NEW k \in 0..lastp
      PROVE  MatchesAt(p, sep, k) <=> MatchesAt(s, sep, k)
  <2>1. \A j \in 1..Len(sep) : k + j \in 1..Len(p)
    OBVIOUS
  <2> QED
    BY <2>1 DEF MatchesAt
<1>5. MatchesAt(s, sep, i) /\ \A k \in 0..lasts : MatchesAt(s, sep, k) => i <= k
  <2>1. MatchesAt(s, sep, i)
    BY <1>3, <1>4
  <2>2. ASSUME NEW k \in 0..lasts, MatchesAt(s, sep, k)
        PROVE  i <= k
    <3>1. CASE k <= lastp
      BY <1>3, <1>4, <2>2, <3>1
    <3>2. CASE k > lastp
      BY <1>3, <3>2, <1>2
    <3> QED
      BY <3>1, <3>2
  <2> QED
    BY <2>1, <2>2
<1> DEFINE f == FirstMatch(s, sep, lasts)
<1>6. /\ f \in Nat \cup {NotFound}
      /\ f # NotFound => /\ f <= lasts /\ MatchesAt(s, sep, f)
                         /\ \A k \in 0..lasts : MatchesAt(s, sep, k) => f <= k
      /\ f = NotFound => \A k \in 0..lasts : ~MatchesAt(s, sep, k)
  BY <1>2, FirstMatchIsFirst
<1>7. i \in 0..lasts
  BY <1>2, <1>3
<1>8. f # NotFound /\ f \in Nat /\ f <= i /\ i <= f
  BY <1>5, <1>6, <1>7
<1> QED
  BY <1>1, <1>3, <1>8

(***************************************************************************)
(* util.Strnstr is sound: an offset it reports is that of the first        *)
(* occurrence, so a key and value split at it are split where Index would  *)
(* split them.                                                             *)
(***************************************************************************)
THEOREM StrnstrSound ==
  ASSUME NEW S, NEW hay \in Seq(S), NEW needle \in Seq(S), needle # <<>>
  PROVE  Strnstr(hay, needle) \in {NotFound, Index(hay, needle)}
<1> DEFINE short == Len(hay) - Len(needle) - (Len(needle) - 1)
           last == Len(hay) - Len(needle)
           a == FirstMatch(hay, needle, short)
           b == FirstMatch(hay, needle, last)
<1>1. short \in Int /\ last \in Int /\ short <= last
  BY EmptySeq
<1>2. Strnstr(hay, needle) = a /\ Index(hay, needle) = b
  BY IndexIsFirstMatch DEF Strnstr
<1>3. /\ a \in Nat \cup {NotFound}
      /\ a # NotFound => /\ a <= short /\ MatchesAt(hay, needle, a)
                         /\ \A k \in 0..short : MatchesAt(hay, needle, k) => a <= k
  BY <1>1, FirstMatchIsFirst
<1>4. /\ b \in Nat \cup {NotFound}
      /\ b # NotFound => /\ b <= last /\ MatchesAt(hay, needle, b)
                         /\ \A k \in 0..last : MatchesAt(hay, needle, k) => b <= k
      /\ b = NotFound => \A k \in 0..last : ~MatchesAt(hay, needle, k)
  BY <1>1, FirstMatchIsFirst
<1>5. a # NotFound => a = b
  <2> SUFFICES ASSUME a # NotFound PROVE a = b
    OBVIOUS
  <2> HIDE DEF a, b, short, last
  <2>1. a \in 0..last
    BY <1>1, <1>3
  <2>2. b # NotFound /\ b <= a
    BY <1>3, <1>4, <2>1
  <2>3. b \in 0..short
    BY <1>1, <1>3, <1>4, <2>2
  <2> QED
    BY <1>3, <1>4, <2>2, <2>3
<1> QED
  BY <1>2, <1>5

(***************************************************************************)
(* What lies before an occurrence of sep, sep itself and what lies behind  *)
(* it are the whole text.                                                  *)
(***************************************************************************)
LEMMA CutAtMatch ==
  ASSUME NEW S, NEW s \in Seq(S), NEW sep \in Seq(S), NEW i \in Nat,
         i + Len(sep) <= Len(s), MatchesAt(s, sep, i)
  PROVE  LET front == SubSeq(s, 1, i)
             back  == SubSeq(s, i + Len(sep) + 1, Len(s))
         IN /\ front \in Seq(S) /\ back \in Seq(S)
            /\ front \o sep \o back = s
            /\ front = <<>> => sep \o back = s
<1> DEFINE n == Len(sep)
           front == SubSeq(s, 0 + 1, i)
           back == SubSeq(s, (i + n) + 1, Len(s))
           most == front \o sep
           all == most \o back
<1>1. n \in Nat /\ Len(s) \in Nat /\ i + n <= Len(s)
  BY LenProperties
<1>2. /\ front \in Seq(S) /\ Len(front) = i
      /\ \A k \in 1..i : front[k] = s[k]
  <2>1. /\ front \in Seq(S) /\ Len(front) = i - 0
        /\ \A k \in 1..(i - 0) : front[k] = s[0 + k]
    BY <1>1, Stretch
  <2> HIDE DEF front
  <2> QED
    BY <2>1
<1>3. /\ back \in Seq(S) /\ Len(back) = Len(s) - (i + n)
      /\ \A k \in 1..(Len(s) - (i + n)) : back[k] = s[(i + n) + k]
  BY <1>1, Stretch
<1> HIDE DEF n, front, back
<1>4. /\ most \in Seq(S) /\ Len(most) = i + n
      /\ \A k \in 1..(i + n) : most[k] = IF k <= i THEN front[k] ELSE sep[k - i]
  BY <1>2, ConcatProperties DEF n
<1> HIDE DEF most
<1>5. \A k \in 1..(i + n) : most[k] = s[k]
  <2> SUFFICES ASSUME NEW k \in 1..(i + n) PROVE most[k] = s[k]
    OBVIOUS
  <2>1. CASE k <= i
    BY <1>2, <1>4, <2>1
  <2>2. CASE k > i
    <3>1. k - i \in 1..n /\ i + (k - i) = k
      BY <1>1, <2>2
    <3>2. s[i + (k - i)] = sep[k - i]
      BY <3>1 DEF MatchesAt, n
    <3> QED
      BY <1>4, <2>2, <3>1, <3>2
  <2> QED
    BY <2>1, <2>2
<1>6. /\ all \in Seq(S) /\ Len(all) = Len(most) + Len(back)
      /\ \A k \in 1..(Len(most) + Len(back)) :
           all[k] = IF k <= Len(most) THEN most[k] ELSE back[k - Len(most)]
  BY <1>3, <1>4, ConcatProperties
<1> HIDE DEF all
<1>7. /\ Len(all) = Len(s)
      /\ \A k \in 1..Len(s) : all[k] = IF k <= i + n THEN most[k] ELSE back[k - (i + n)]
  <2>1. Len(most) + Len(back) = Len(s)
    BY <1>1, <1>3, <1>4
  <2> QED
    BY <1>4, <1>6, <2>1
<1>8. \A k \in 1..Len(s) : all[k] = s[k]
  <2> SUFFICES ASSUME NEW k \in 1..Len(s) PROVE all[k] = s[k]
    OBVIOUS
  <2>1. CASE k <= i + n
    BY <1>1, <1>5, <1>7, <2>1
  <2>2. CASE k > i + n
    <3>1. k - (i + n) \in 1..(Len(s) - (i + n)) /\ (i + n) + (k - (i + n)) = k
      BY <1>1, <2>2
    <3>2. all[k] = back[k - (i + n)]
      BY <1>1, <1>7, <2>2
    <3> QED
      BY <1>3, <3>1, <3>2
  <2> QED
    BY <1>1, <2>1, <2>2
<1>9. all = s
  BY <1>6, <1>7, <1>8, SeqEqual
<1>10. front = <<>> => most = sep
  BY ConcatEmptySeq DEF most
<1>11. SubSeq(s, 1, i) = front /\ SubSeq(s, i + Len(sep) + 1, Len(s)) = back
  BY DEF front, back, n
<1>12. most \o back = s /\ (front = <<>> => sep \o back = s)
  BY <1>9, <1>10 DEF all
<1> QED
  BY <1>2, <1>3, <1>11, <1>12 DEF most

(***************************************************************************)
(* An offset that util.Strnstr reports is one of an occurrence.            *)
(***************************************************************************)
LEMMA StrnstrMatches ==
  ASSUME NEW S, NEW hay \in Seq(S), NEW needle \in Seq(S), needle # <<>>,
         Strnstr(hay, needle) # NotFound
  PROVE  LET i == Strnstr(hay, needle) IN
         i \in Nat /\ i + Len(needle) <= Len(hay) /\ MatchesAt(hay, needle, i)
<1> DEFINE short == Len(hay) - Len(needle) - (Len(needle) - 1)
           i == FirstMatch(hay, needle, short)
<1>1. short \in Int /\ Len(hay) \in Nat /\ Len(needle) \in Nat \ {0}
  BY EmptySeq, LenProperties
<1>2. Strnstr(hay, needle) = i
  BY DEF Strnstr
<1>3. i \in Nat /\ i <= short /\ MatchesAt(hay, needle, i)
  BY <1>1, <1>2, FirstMatchIsFirst
<1> HIDE DEF i
<1>4. i + Len(needle) <= Len(hay)
  BY <1>1, <1>3
<1> QED
  BY <1>2, <1>3, <1>4

=============================================================================
