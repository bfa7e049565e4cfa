----------------------------- MODULE TextProofs -----------------------------
(***************************************************************************)
(* The conversions of texts that need no long argument, each proved for    *)
(* every text: the searchers, -Q and the unpacking of a value.             *)
(*                                                                         *)
(* For the searchers the invariant is only that pattern and input are      *)
(* sequences of bytes and the pattern is not empty; the work is in the     *)
(* lemmas, which say that the reference FirstOccurrence, stated with       *)
(* prefixes, is the least candidate at which the loop finds a match.       *)
(***************************************************************************)
EXTENDS SearchInput, QueryInput, Pack, SearchProofs

SearchIInv == pattern \in Seq(Bytes) \ {<<>>} /\ input \in Seq(Bytes)

(***************************************************************************)
(* A prefix of h of length i, followed by n, is a prefix of h exactly when *)
(* n fits and matches at i.                                                *)
(***************************************************************************)
LEMMA PrefixIsMatch ==
  ASSUME NEW S, NEW h \in Seq(S), NEW n \in Seq(S), NEW i \in 0..Len(h)
  PROVE  LET p == SubSeq(h, 1, i) IN
         /\ Len(p) = i
         /\ IsPrefix(p \o n, h) <=> i + Len(n) <= Len(h) /\ MatchesAt(h, n, i)
<1> DEFINE p == SubSeq(h, 1, i)
           q == p \o n
<1>1. /\ p \in Seq(S) /\ Len(p) = i
      /\ \A k \in 1..i : p[k] = h[k]
  <2>1. /\ SubSeq(h, 0 + 1, i) \in Seq(S)
        /\ Len(SubSeq(h, 0 + 1, i)) = i - 0
        /\ \A k \in 1..(i - 0) : SubSeq(h, 0 + 1, i)[k] = h[0 + k]
    <3>1. i \in Nat /\ Len(h) \in Nat /\ 0 <= i /\ i <= Len(h)
      BY LenProperties
    <3> QED
      BY <3>1, Stretch
  <2> QED
    BY <2>1
<1> HIDE DEF p
<1>2. /\ q \in Seq(S) /\ Len(q) = i + Len(n)
      /\ \A k \in 1..Len(q) : q[k] = IF k <= i THEN p[k] ELSE n[k - i]
  <2>1. /\ p \o n \in Seq(S) /\ Len(p \o n) = Len(p) + Len(n)
        /\ \A k \in 1..(Len(p) + Len(n)) :
             (p \o n)[k] = IF k <= Len(p) THEN p[k] ELSE n[k - Len(p)]
    BY <1>1, ConcatProperties
  <2> QED
    BY <2>1, <1>1
<1> HIDE DEF q
<1>3. Len(n) \in Nat /\ Len(h) \in Nat
  BY LenProperties
<1>4. CASE i + Len(n) <= Len(h)
  <2> DEFINE r == SubSeq(h, 1, Len(q))
             t == SubSeq(q, 1, Len(q))
  <2>1. r \in Seq(S) /\ Len(r) = Len(q) /\ \A k \in 1..Len(q) : r[k] = h[k]
    <3>1. /\ SubSeq(h, 0 + 1, Len(q)) \in Seq(S)
          /\ Len(SubSeq(h, 0 + 1, Len(q))) = Len(q) - 0
          /\ \A k \in 1..(Len(q) - 0) : SubSeq(h, 0 + 1, Len(q))[k] = h[0 + k]
      BY <1>2, <1>3, <1>4, Stretch
    <3> QED
      BY <3>1, <1>2
  <2>2. t \in Seq(S) /\ Len(t) = Len(q) /\ \A k \in 1..Len(q) : t[k] = q[k]
    <3>1. /\ SubSeq(q, 0 + 1, Len(q)) \in Seq(S)
          /\ Len(SubSeq(q, 0 + 1, Len(q))) = Len(q) - 0
          /\ \A k \in 1..(Len(q) - 0) : SubSeq(q, 0 + 1, Len(q))[k] = q[0 + k]
      BY <1>2, <1>3, Stretch
    <3> QED
      BY <3>1, <1>2, <1>3
  <2> HIDE DEF r, t
  <2>3. ASSUME t = r
        PROVE  MatchesAt(h, n, i)
    <3>1. ASSUME NEW j \in 1..Len(n)
          PROVE  h[i + j] = n[j]
      <4>1. i + j \in 1..Len(q) /\ ~(i + j <= i) /\ (i + j) - i = j
        BY <1>2, <1>3
      <4>2. q[i + j] = n[j]
        BY <4>1, <1>2
      <4>3. r[i + j] = h[i + j] /\ t[i + j] = q[i + j]
        BY <4>1, <2>1, <2>2
      <4> QED
        BY <4>2, <4>3, <2>3
    <3> QED
      BY <3>1 DEF MatchesAt
  <2>4. ASSUME MatchesAt(h, n, i)
        PROVE  t = r
    <3>1. ASSUME NEW k \in 1..Len(q)
          PROVE  q[k] = h[k]
      <4>1. CASE k <= i
        BY <4>1, <1>1, <1>2
      <4>2. CASE k > i
        <5>1. k - i \in 1..Len(n) /\ i + (k - i) = k
          BY <4>2, <1>2, <1>3
        <5>2. h[i + (k - i)] = n[k - i]
          BY <5>1, <2>4 DEF MatchesAt
        <5> QED
          BY <5>1, <5>2, <4>2, <1>2
      <4> QED
        BY <4>1, <4>2, <1>2, <1>3
    <3>2. \A k \in 1..Len(q) : t[k] = r[k]
      BY <3>1, <2>1, <2>2
    <3> QED
      BY <3>2, <2>1, <2>2, SeqEqual
  <2>5. IsPrefix(q, h) <=> t = r
    BY <1>2, <1>4 DEF IsPrefix, t, r
  <2> QED
    BY <2>3, <2>4, <2>5, <1>1, <1>4 DEF p, q
<1>5. CASE ~(i + Len(n) <= Len(h))
  <2>1. ~IsPrefix(q, h)
    BY <1>2, <1>3, <1>5 DEF IsPrefix
  <2> QED
    BY <2>1, <1>1, <1>5 DEF p, q
<1> QED
  BY <1>4, <1>5

(***************************************************************************)
(* The texts before an occurrence have the lengths that the loop counts.   *)
(***************************************************************************)
LEMMA BeforeIsMatches ==
  ASSUME NEW S, NEW h \in Seq(S), NEW n \in Seq(S)
  PROVE  {Len(p) : p \in Before(h, n)} = Matches(h, n, Len(h) - Len(n))
<1> DEFINE P(l) == SubSeq(h, 1, l)
           M == Matches(h, n, Len(h) - Len(n))
           L == {Len(p) : p \in Before(h, n)}
<1>1. Len(h) \in Nat /\ Len(n) \in Nat
  BY LenProperties
<1>2. \A l \in 0..Len(h) : /\ Len(P(l)) = l
                           /\ IsPrefix(P(l) \o n, h)
                                <=> l + Len(n) <= Len(h) /\ MatchesAt(h, n, l)
  BY PrefixIsMatch
<1>3. Before(h, n) = {p \in {P(l) : l \in 0..Len(h)} : IsPrefix(p \o n, h)}
  BY DEF Before, Prefixes
<1> HIDE DEF P
<1>4. ASSUME NEW k \in L
      PROVE  k \in M
  <2>1. PICK p \in Before(h, n) : k = Len(p)
    OBVIOUS
  <2>2. PICK l \in 0..Len(h) : p = P(l) /\ IsPrefix(P(l) \o n, h)
    BY <1>3
  <2>3. k = l /\ l + Len(n) <= Len(h) /\ MatchesAt(h, n, l)
    BY <1>2, <2>1, <2>2
  <2> QED
    BY <2>3, <1>1 DEF Matches
<1>5. ASSUME NEW k \in M
      PROVE  k \in L
  <2>1. k \in 0..(Len(h) - Len(n)) /\ MatchesAt(h, n, k)
    BY DEF Matches
  <2>2. k \in 0..Len(h) /\ k + Len(n) <= Len(h)
    BY <2>1, <1>1
  <2>3. Len(P(k)) = k /\ IsPrefix(P(k) \o n, h)
    BY <2>1, <2>2, <1>2
  <2>4. P(k) \in Before(h, n)
    BY <2>2, <2>3, <1>3
  <2> QED
    BY <2>3, <2>4
<1> QED
  BY <1>4, <1>5

(***************************************************************************)
(* The reference and the loop agree.                                       *)
(***************************************************************************)
LEMMA FirstOccurrenceIsFirstMatch ==
  ASSUME NEW S, NEW h \in Seq(S), NEW n \in Seq(S)
  PROVE  FirstOccurrence(h, n) = FirstMatch(h, n, Len(h) - Len(n))
<1> DEFINE M == Matches(h, n, Len(h) - Len(n))
           B == Before(h, n)
           L == {Len(p) : p \in B}
<1>1. L = M
  BY BeforeIsMatches
<1>2. M \in SUBSET Nat
  BY DEF Matches
<1>3. FirstOccurrence(h, n) =
        IF B = {} THEN NotFound ELSE CHOOSE k \in L : \A p \in B : k <= Len(p)
  BY DEF FirstOccurrence
<1>4. FirstMatch(h, n, Len(h) - Len(n)) = IF M = {} THEN NotFound ELSE Min(M)
  BY DEF FirstMatch
<1> HIDE DEF M, B
<1>5. B = {} <=> M = {}
  BY <1>1
<1>6. CASE M # {}
  <2>1. Min(M) \in M /\ \A k \in M : Min(M) <= k
    BY <1>2, <1>6, MinOfNat
  <2>2. \A k : (\A p \in B : k <= Len(p)) <=> \A l \in L : k <= l
    OBVIOUS
  <2>3. \A k \in L : (\A p \in B : k <= Len(p)) => k = Min(M)
    BY <1>1, <1>2, <2>1, <2>2
  <2>4. Min(M) \in L /\ \A p \in B : Min(M) <= Len(p)
    BY <1>1, <2>1, <2>2
  <2>5. (CHOOSE k \in L : \A p \in B : k <= Len(p)) = Min(M)
    BY <2>3, <2>4
  <2> QED
    BY <2>5, <1>3, <1>4, <1>5, <1>6
<1> QED
  BY <1>3, <1>4, <1>5, <1>6

-----------------------------------------------------------------------------
(***************************************************************************)
(* Pattern and input are sequences of bytes, whatever is read.             *)
(***************************************************************************)
THEOREM SearchInvariance == SearchSpec => []SearchIInv
<1>1. SearchInit => SearchIInv
  <2> SUFFICES ASSUME SearchInit PROVE SearchIInv
    OBVIOUS
  <2>1. PICK n \in 1..MaxPattern : pattern \in [1..n -> Bytes]
    BY DEF SearchInit
  <2>2. n \in Nat \ {0}
    BY SearchInputAssumption
  <2>3. pattern \in Seq(Bytes) /\ Len(pattern) = n
    BY <2>1, <2>2
  <2>4. pattern # <<>>
    BY <2>2, <2>3, EmptySeq
  <2>5. input \in Seq(Bytes)
    BY EmptySeq DEF SearchInit
  <2> QED
    BY <2>3, <2>4, <2>5 DEF SearchIInv
<1>2. SearchIInv /\ [Read]_searchVars => SearchIInv'
  <2> SUFFICES ASSUME SearchIInv, [Read]_searchVars PROVE SearchIInv'
    OBVIOUS
  <2>1. CASE Read
    <3>1. PICK b \in Bytes : input' = Append(input, b)
      BY <2>1 DEF Read
    <3>2. input' \in Seq(Bytes)
      BY <3>1, AppendProperties DEF SearchIInv
    <3> QED
      BY <3>2, <2>1 DEF SearchIInv, Read
  <2>2. CASE UNCHANGED searchVars
    BY <2>2 DEF SearchIInv, searchVars
  <2> QED
    BY <2>1, <2>2
<1> QED
  BY <1>1, <1>2, PTL DEF SearchSpec

(***************************************************************************)
(* The two searchers of buffer.go return the first occurrence, and -1      *)
(* exactly when there is none, for every pattern and input.                *)
(***************************************************************************)
THEOREM IndexAlwaysFirst == SearchSpec => []IndexIsFirstOccurrence
<1>1. SearchIInv => IndexIsFirstOccurrence
  <2> SUFFICES ASSUME SearchIInv PROVE IndexIsFirstOccurrence
    OBVIOUS
  <2>1. FirstOccurrence(input, pattern)
          = FirstMatch(input, pattern, Len(input) - Len(pattern))
    BY FirstOccurrenceIsFirstMatch DEF SearchIInv
  <2>2. Index(input, pattern)
          = FirstMatch(input, pattern, Len(input) - Len(pattern))
    BY IndexIsFirstMatch DEF SearchIInv
  <2>3. InputStrnstr(input, pattern)
          = FirstMatch(input, pattern, Len(input) - Len(pattern))
    BY DEF SearchIInv, InputStrnstr
  <2> QED
    BY <2>1, <2>2, <2>3 DEF IndexIsFirstOccurrence
<1> QED
  BY <1>1, SearchInvariance, PTL

(***************************************************************************)
(* The key search misses the first occurrence only near the end.           *)
(***************************************************************************)
THEOREM StrnstrAlwaysMissesOnlyNearEnd == SearchSpec => []StrnstrMissesOnlyNearEnd
<1>1. SearchIInv => StrnstrMissesOnlyNearEnd
  <2> SUFFICES ASSUME SearchIInv PROVE StrnstrMissesOnlyNearEnd
    OBVIOUS
  <2> DEFINE last == Len(input) - Len(pattern)
             short == Len(input) - Len(pattern) - (Len(pattern) - 1)
             k == FirstMatch(input, pattern, last)
             a == FirstMatch(input, pattern, short)
  <2>1. FirstOccurrence(input, pattern) = k
    BY FirstOccurrenceIsFirstMatch DEF SearchIInv
  <2>2. Index(input, pattern) = k
    BY IndexIsFirstMatch DEF SearchIInv
  <2>3. Strnstr(input, pattern) = a
    BY DEF SearchIInv, Strnstr
  <2>4. Strnstr(input, pattern) \in {NotFound, k}
    BY <2>2, StrnstrSound DEF SearchIInv
  <2>5. Len(input) \in Nat /\ Len(pattern) \in Nat
    BY LenProperties DEF SearchIInv
  <2>6. k \in Nat \cup {NotFound} /\ (k # NotFound => MatchesAt(input, pattern, k))
    BY <2>5, FirstMatchIsFirst
  <2>7. a = NotFound => \A i \in 0..short : ~MatchesAt(input, pattern, i)
    BY <2>5, FirstMatchIsFirst
  <2> HIDE DEF k, a
  <2>8. ASSUME k # NotFound, Len(input) - (k + Len(pattern)) >= Len(pattern) - 1
        PROVE  a = k
    <3>1. k \in 0..short
      BY <2>5, <2>6, <2>8
    <3> QED
      BY <3>1, <2>3, <2>4, <2>6, <2>7, <2>8
  <2> QED
    BY <2>1, <2>3, <2>4, <2>8 DEF StrnstrMissesOnlyNearEnd
<1> QED
  BY <1>1, SearchInvariance, PTL

(***************************************************************************)
(* A match stays where it is while the input grows, and a new one ends at  *)
(* the byte that was read.                                                 *)
(***************************************************************************)
THEOREM MatchesStay == SearchSpec => GrowthKeepsMatch
<1> DEFINE before == Index(input, pattern)
           after == Index(input', pattern)
           Kept == IF before # NotFound
                   THEN after = before
                   ELSE after \in {NotFound, Len(input') - Len(pattern)}
<1>1. SearchIInv /\ SearchIInv' /\ [Read]_searchVars => [Kept]_searchVars
  <2> SUFFICES ASSUME SearchIInv, SearchIInv', Read PROVE Kept
    OBVIOUS
  <2>1. PICK b \in Bytes : input' = Append(input, b)
    BY DEF Read
  <2>2. /\ Len(input') = Len(input) + 1
        /\ \A i \in 1..Len(input) : input'[i] = input[i]
    BY <2>1, AppendProperties DEF SearchIInv
  <2>3. Len(input) \in Nat /\ Len(pattern) \in Nat
    BY LenProperties DEF SearchIInv
  <2>4. ASSUME before # NotFound
        PROVE  after = before
    BY <2>2, <2>3, <2>4, IndexOfPrefix DEF SearchIInv
  <2>5. ASSUME before = NotFound, after # NotFound
        PROVE  after = Len(input') - Len(pattern)
    <3> DEFINE last == Len(input) - Len(pattern)
               old == FirstMatch(input, pattern, last)
               new == FirstMatch(input', pattern, Len(input') - Len(pattern))
    <3>1. before = old /\ after = new
      BY IndexIsFirstMatch DEF SearchIInv
    <3>2. old = NotFound => \A i \in 0..last : ~MatchesAt(input, pattern, i)
      BY <2>3, FirstMatchIsFirst
    <3>3. /\ new \in Nat \cup {NotFound}
          /\ new # NotFound => /\ new <= Len(input') - Len(pattern)
                             /\ MatchesAt(input', pattern, new)
      <4>1. Len(input') - Len(pattern) \in Int
        BY <2>2, <2>3
      <4> QED
        BY <4>1, FirstMatchIsFirst
    <3> HIDE DEF old, new
    <3>4. new \in Nat /\ new <= last + 1 /\ MatchesAt(input', pattern, new)
      BY <2>2, <2>3, <2>5, <3>1, <3>3
    <3>5. ASSUME new <= last
          PROVE  MatchesAt(input, pattern, new)
      <4>1. \A j \in 1..Len(pattern) : new + j \in 1..Len(input)
        BY <2>3, <3>4, <3>5
      <4> QED
        BY <4>1, <2>2, <3>4 DEF MatchesAt
    <3>6. ~(new <= last)
      BY <2>3, <2>5, <3>1, <3>2, <3>4, <3>5
    <3> QED
      BY <2>2, <2>3, <3>1, <3>4, <3>6
  <2> QED
    BY <2>4, <2>5
<1> QED
  BY <1>1, SearchInvariance, PTL DEF SearchSpec, GrowthKeepsMatch

-----------------------------------------------------------------------------
(***************************************************************************)
(* What -Q prints, for every list of arguments and every broker.  The      *)
(* requests of all arguments go out together and come back grouped by      *)
(* topic and partition, so the proof goes from one argument to the record  *)
(* of its partition, and from there to the set of times that any of the    *)
(* arguments asked for.                                                    *)
(***************************************************************************)
QueryIInv == cluster \in Brokers /\ args \in Seq(Args)

(***************************************************************************)
(* The requests of a list of arguments.                                    *)
(***************************************************************************)
Requests(as) == [i \in DOMAIN as |-> ParseToppar(as[i])]

(***************************************************************************)
(* A request asks for the argument's partition, at the time of Truth:      *)
(* never at -1, the code of the end, since that too is below 0.            *)
(***************************************************************************)
LEMMA RequestAsks ==
  ASSUME NEW arg \in Args, Accepted(arg)
  PROVE  LET req == ParseToppar(arg) IN
         /\ req.topic = arg[1]
         /\ req.partition = PartitionOf(arg)
         /\ req.time = IF Beginning(arg) THEN OffsetBeginning ELSE Max({arg[3], 0})
         /\ req.time = OffsetBeginning <=> Beginning(arg)
         /\ req.time # LastOffset
<1> DEFINE t == arg[3]
           u == IF t = NaN THEN 0 ELSE t
<1>1. t \in Int
  BY QueryAssumption
<1>2. ASSUME NEW n \in Int
      PROVE  Max({n, 0}) = IF n >= 0 THEN n ELSE 0
  <2> DEFINE m == IF n >= 0 THEN n ELSE 0
  <2>1. m \in {n, 0} /\ \A y \in {n, 0} : m >= y
    OBVIOUS
  <2>2. \A x \in {n, 0} : (\A y \in {n, 0} : x >= y) => x = m
    OBVIOUS
  <2> HIDE DEF m
  <2>3. Max({n, 0}) = m
    BY <2>1, <2>2 DEF Max
  <2> QED
    BY <2>3 DEF m
<1>3. ParseToppar(arg) = [topic |-> arg[1], partition |-> PartitionOf(arg),
                          time |-> TimeAsked(u)]
  BY DEF ParseToppar, PartitionOf, ParsedInt
<1>4. /\ TimeAsked(u) = IF u >= 0 THEN u ELSE OffsetBeginning
      /\ Beginning(arg) <=> t < 0 /\ t # NaN
  BY DEF TimeAsked, Beginning
<1> HIDE DEF t
<1>5. Max({t, 0}) = IF t >= 0 THEN t ELSE 0
  BY <1>1, <1>2
<1>6. CASE Beginning(arg)
  <2>1. TimeAsked(u) = OffsetBeginning /\ OffsetBeginning # LastOffset
    BY <1>1, <1>4, <1>6 DEF OffsetBeginning, LastOffset
  <2> QED
    BY <1>3, <1>6, <2>1
<1>7. CASE ~Beginning(arg)
  <2>1. TimeAsked(u) = Max({t, 0})
    BY <1>1, <1>4, <1>5, <1>7 DEF NaN
  <2>2. Max({t, 0}) \in Nat
    BY <1>1, <1>5
  <2>3. TimeAsked(u) # OffsetBeginning /\ TimeAsked(u) # LastOffset
    BY <2>1, <2>2 DEF OffsetBeginning, LastOffset
  <2> QED
    BY <1>3, <1>7, <2>1, <2>3 DEF t
<1> QED
  BY <1>6, <1>7

(***************************************************************************)
(* However many arguments ask for a topic, a line comes from the one       *)
(* record of its own partition.                                            *)
(***************************************************************************)
LEMMA OneRecord ==
  ASSUME NEW broker, NEW reqs, NEW i \in DOMAIN reqs
  PROVE  Lines(ListOffsets(broker, reqs), reqs[i])
           = Printable(PartitionOffsets(broker, reqs, reqs[i].topic, reqs[i].partition))
<1> DEFINE t == reqs[i].topic
           p == reqs[i].partition
           PO(q) == PartitionOffsets(broker, reqs, t, q)
           Asked == {reqs[k].partition : k \in {l \in DOMAIN reqs : reqs[l].topic = t}}
           resp == ListOffsets(broker, reqs)
<1>1. resp[t] = {PO(q) : q \in Asked}
  BY DEF ListOffsets
<1>2. \A q : PO(q).partition = q
  BY DEF PartitionOffsets
<1>3. p \in Asked
  OBVIOUS
<1> HIDE DEF PO, Asked, resp
<1>4. Answering(resp, reqs[i]) = {PO(p)}
  BY <1>1, <1>2, <1>3 DEF Answering
<1>5. Lines(resp, reqs[i]) = Printable(PO(p))
  BY <1>4 DEF Lines
<1> QED
  BY <1>5 DEF PO, resp

-----------------------------------------------------------------------------
(***************************************************************************)
(* The line of one argument among others.                                  *)
(***************************************************************************)
LEMMA LineAnswers ==
  ASSUME NEW broker \in Brokers, NEW as \in Seq(Args),
         \A j \in DOMAIN as : Accepted(as[j]), NEW i \in DOMAIN as
  PROVE  LET rivals == {j \in DOMAIN as : Same(as[i], as[j])}
             first  == {j \in rivals : Beginning(as[j])}
         IN RunQuery(broker, Requests(as))[i] =
              {Truth(broker, as[j]) : j \in IF first = {} THEN rivals ELSE first}
<1> DEFINE reqs == Requests(as)
           rivals == {j \in DOMAIN as : Same(as[i], as[j])}
           first  == {j \in rivals : Beginning(as[j])}
           t == as[i][1]
           p == PartitionOf(as[i])
           asked == Times(reqs, t, p)
           Time(j) == IF Beginning(as[j]) THEN OffsetBeginning
                      ELSE Max({as[j][3], 0})
           Lone(j) == Truth(broker, as[j])
           Wanted == {Lone(j) : j \in IF first = {} THEN rivals ELSE first}
<1>1. DOMAIN reqs = DOMAIN as /\ \A j \in DOMAIN as : reqs[j] = ParseToppar(as[j])
  BY DEF Requests
<1> HIDE DEF reqs
<1>2. \A j \in DOMAIN as : as[j] \in Args
  BY ElementOfSeq, LenProperties
<1>3. \A j \in DOMAIN as : /\ reqs[j].topic = as[j][1]
                           /\ reqs[j].partition = PartitionOf(as[j])
                           /\ reqs[j].time = Time(j)
                           /\ reqs[j].time = OffsetBeginning <=> Beginning(as[j])
                           /\ reqs[j].time # LastOffset
  BY <1>1, <1>2, RequestAsks, Zenon
<1>4. RunQuery(broker, reqs)[i] = Printable(PartitionOffsets(broker, reqs, t, p))
  <2>1. RunQuery(broker, reqs)[i] = Lines(ListOffsets(broker, reqs), reqs[i])
    BY <1>1 DEF RunQuery
  <2>2. reqs[i].topic = t /\ reqs[i].partition = p
    BY <1>3
  <2>3. Lines(ListOffsets(broker, reqs), reqs[i])
          = Printable(PartitionOffsets(broker, reqs, reqs[i].topic, reqs[i].partition))
    BY <1>1, OneRecord
  <2> QED
    BY <2>1, <2>2, <2>3
<1>5. asked = {Time(j) : j \in rivals}
  <2>1. {k \in DOMAIN reqs : reqs[k].topic = t /\ reqs[k].partition = p} = rivals
    BY <1>1, <1>3 DEF Same
  <2>2. asked = {reqs[j].time : j \in rivals}
    BY <2>1 DEF Times
  <2> QED
    BY <2>2, <1>3, Zenon
<1>6. i \in rivals
  BY DEF Same
<1>7. \A j \in rivals : as[j][1] = t /\ PartitionOf(as[j]) = p
  BY DEF Same
<1>8. \A j \in rivals : /\ Time(j) = OffsetBeginning <=> Beginning(as[j])
                        /\ Time(j) # LastOffset
  BY <1>3
<1> DEFINE record == PartitionOffsets(broker, reqs, t, p)
           answer == broker[t][p]
<1>9. ASSUME ~Known(broker, t, p)
      PROVE  Printable(record) = Wanted
  <2>1. record.error = TRUE
    BY <1>9 DEF PartitionOffsets
  <2>2. Printable(record) = {Unknown}
    BY <2>1 DEF Printable
  <2>3. \A j \in rivals : Lone(j) = Unknown
    BY <1>7, <1>9 DEF Truth
  <2>4. \A j \in first : j \in rivals
    OBVIOUS
  <2> HIDE DEF record, rivals, first, Lone
  <2>5. {Lone(j) : j \in IF first = {} THEN rivals ELSE first} = {Unknown}
    <3>1. CASE first = {}
      BY <1>6, <2>3, <3>1
    <3>2. CASE first # {}
      BY <2>3, <2>4, <3>2
    <3> QED
      BY <3>1, <3>2
  <2> QED
    BY <2>2, <2>5
<1>10. ASSUME Known(broker, t, p)
       PROVE  Printable(record) = Wanted
  <2>1. /\ record.error = FALSE
        /\ record.first = OneOf(asked, OffsetBeginning, answer)
        /\ record.last = OneOf(asked, LastOffset, answer)
        /\ record.offsets = {answer[s] : s \in asked \ {OffsetBeginning, LastOffset}}
    BY <1>10 DEF PartitionOffsets
  <2>2. \A j \in rivals : Lone(j) = answer[Time(j)]
    BY <1>7, <1>10 DEF Truth
  <2>3. answer[OffsetBeginning] # Unknown
    BY <1>10, QueryAssumption DEF Known
  <2>4. /\ \A j \in first : j \in rivals /\ Time(j) = OffsetBeginning
        /\ \A j \in rivals : j \notin first => Time(j) # OffsetBeginning
    BY <1>8
  <2> HIDE DEF record, rivals, first, Lone, Time, asked, answer
  <2>5. CASE first # {}
    <3>1. OffsetBeginning \in asked
      BY <1>5, <2>4, <2>5
    <3>2. record.first = answer[OffsetBeginning]
      BY <2>1, <3>1 DEF OneOf
    <3>3. Printable(record) = {answer[OffsetBeginning]}
      BY <2>1, <2>3, <3>2 DEF Printable
    <3>4. {Lone(j) : j \in first} = {answer[OffsetBeginning]}
      BY <2>2, <2>4, <2>5
    <3> QED
      BY <2>5, <3>3, <3>4
  <2>6. CASE first = {}
    <3>1. OffsetBeginning \notin asked /\ LastOffset \notin asked
      BY <1>5, <1>8, <2>4, <2>6
    <3>2. record.first = Unknown /\ record.last = Unknown
      BY <2>1, <3>1 DEF OneOf
    <3>3. record.offsets = {answer[s] : s \in asked}
      BY <2>1, <3>1
    <3>4. record.offsets = {answer[Time(j)] : j \in rivals}
      BY <3>3, <1>5
    <3>5. record.offsets # {}
      BY <3>4, <1>6
    <3>6. Printable(record) = record.offsets
      BY <2>1, <3>2, <3>5 DEF Printable
    <3>7. {Lone(j) : j \in rivals} = {answer[Time(j)] : j \in rivals}
      BY <2>2
    <3> QED
      BY <2>6, <3>4, <3>6, <3>7
  <2> QED
    BY <2>5, <2>6
<1>11. RunQuery(broker, reqs)[i] = Wanted
  BY <1>4, <1>9, <1>10
<1> QED
  BY <1>11 DEF reqs

(***************************************************************************)
(* The broker stays, and the arguments are arguments.                      *)
(***************************************************************************)
THEOREM QueryInvariance == QuerySpec => []QueryIInv
<1>1. QueryInit => QueryIInv
  <2>1. <<>> \in Seq(Args)
    BY EmptySeq
  <2> QED
    BY <2>1 DEF QueryInit, QueryIInv
<1>2. QueryIInv /\ [AddArg]_queryVars => QueryIInv'
  <2> SUFFICES ASSUME QueryIInv, [AddArg]_queryVars PROVE QueryIInv'
    OBVIOUS
  <2>1. CASE AddArg
    <3>1. PICK arg \in Args : args' = Append(args, arg)
      BY <2>1 DEF AddArg
    <3>2. args' \in Seq(Args)
      BY <3>1, AppendProperties DEF QueryIInv
    <3> QED
      BY <3>2, <2>1 DEF QueryIInv, AddArg
  <2>2. CASE UNCHANGED queryVars
    BY <2>2 DEF QueryIInv, queryVars
  <2> QED
    BY <2>1, <2>2
<1> QED
  BY <1>1, <1>2, PTL DEF QuerySpec

(***************************************************************************)
(* Each line of -Q is the answer to its own argument, but for those that   *)
(* ask for one partition at several times.                                 *)
(***************************************************************************)
THEOREM QueryAlwaysAnswers == QuerySpec => []QueryAnswers
<1>1. QueryIInv => QueryAnswers
  <2> SUFFICES ASSUME QueryIInv, \A i \in DOMAIN args : Accepted(args[i]),
                      NEW i \in DOMAIN args
               PROVE  LET rivals == {j \in DOMAIN args : Same(args[i], args[j])}
                          first  == {j \in rivals : Beginning(args[j])}
                      IN RunQuery(cluster, Requests(args))[i] =
                           {Truth(cluster, args[j]) :
                              j \in IF first = {} THEN rivals ELSE first}
    BY DEF QueryAnswers, Requests
  <2>1. cluster \in Brokers /\ args \in Seq(Args)
    BY DEF QueryIInv
  <2> QED
    BY <2>1, LineAnswers
<1> QED
  BY <1>1, QueryInvariance, PTL

-----------------------------------------------------------------------------
(***************************************************************************)
(* Unpack, a loop.  Its invariant says where it stands and how what it has *)
(* printed so far relates to what it has passed; induction over the format *)
(* is induction over the turns of the loop.                                *)
(*                                                                         *)
(* While it runs, f is where the last value ended, or there is no         *)
(* data left to print; it is 2 further for each value.                     *)
(***************************************************************************)
Past(k) == IF k = 0 THEN 0 ELSE printed[k][2]

PackTypeOK ==
  /\ fmt \in Seq(PackTokens) /\ size \in Nat
  /\ f \in Nat /\ printed \in Seq(Nat \X Nat)
  /\ outcome \in {"runs", "done", "spins", "truncated", "outside", "trailing", "invalid"}

Consecutive ==
  \A k \in DOMAIN printed : /\ printed[k][1] = Past(k - 1) + 1
                            /\ printed[k][1] < printed[k][2]
                            /\ printed[k][2] <= size

Place ==
  outcome = "runs" /\ f < Len(fmt) =>
    /\ 2 * Len(printed) <= f
    /\ f = Past(Len(printed)) \/ size <= f + 1

Ended ==
  /\ outcome = "spins" => Token \in Still
  /\ outcome = "truncated" => Token \in FixedTokens /\ ~Fits
  /\ outcome = "outside" => /\ Token \in FixedTokens /\ Fits
                            /\ f + 1 + Size(Token) > size
  /\ outcome = "trailing" => Token = "$"
  /\ outcome = "invalid" => Token \notin FixedTokens

StillFirst == fmt # <<>> /\ fmt[1] \in Still => f = 0 /\ outcome \in {"runs", "spins"}

PackIInv == /\ PackTypeOK /\ Consecutive /\ Place /\ Ended /\ StillFirst
            /\ 2 * Len(printed) <= Len(fmt) + 1

(***************************************************************************)
(* A token takes at least one byte, and what is tested of the data is      *)
(* short of what is read by one byte for numbers of four and eight bytes.  *)
(***************************************************************************)
LEMMA TokenSizes ==
  ASSUME NEW tok \in FixedTokens
  PROVE  /\ Size(tok) \in Nat \ {0} /\ Tested(tok) \in Nat
         /\ tok \in IntTokens => Size(tok) = 4 /\ Tested(tok) = 3
         /\ tok \in LongTokens => Size(tok) = 8 /\ Tested(tok) = 7
         /\ tok \notin IntTokens \cup LongTokens => Tested(tok) = Size(tok)
         /\ tok \notin Still \cup {"s", "$"}
<1>1. /\ tok \in ByteTokens \cup ShortTokens \cup IntTokens \cup LongTokens
      /\ tok \in ByteTokens => tok \notin ShortTokens \cup IntTokens \cup LongTokens
      /\ tok \in ShortTokens => tok \notin ByteTokens \cup IntTokens \cup LongTokens
      /\ tok \in IntTokens => tok \notin ByteTokens \cup ShortTokens \cup LongTokens
      /\ tok \in LongTokens => tok \notin ByteTokens \cup ShortTokens \cup IntTokens
  BY Zenon DEF FixedTokens, ByteTokens, ShortTokens, IntTokens, LongTokens
<1>2. tok \notin Still \cup {"s", "$"}
  BY DEF FixedTokens, ByteTokens, ShortTokens, IntTokens, LongTokens, Still
<1>3. \/ tok \in ByteTokens /\ Size(tok) = 1 /\ Tested(tok) = 1
      \/ tok \in ShortTokens /\ Size(tok) = 2 /\ Tested(tok) = 2
      \/ tok \in IntTokens /\ Size(tok) = 4 /\ Tested(tok) = 3
      \/ tok \in LongTokens /\ Size(tok) = 8 /\ Tested(tok) = 7
  BY <1>1 DEF Size, Tested
<1> QED
  BY <1>1, <1>2, <1>3

(***************************************************************************)
(* A stretch that begins behind the last one, and lies in the data, goes   *)
(* on with the stretches printed.                                          *)
(***************************************************************************)
LEMMA PrintsOn ==
  ASSUME PackTypeOK, Consecutive, NEW to \in Nat, f = Past(Len(printed)),
         f + 1 < to, to <= size,
         printed' = Append(printed, <<f + 1, to>>), size' = size
  PROVE  /\ printed' \in Seq(Nat \X Nat) /\ Consecutive'
         /\ Len(printed') = Len(printed) + 1
         /\ printed'[Len(printed')][2] = to
<1> DEFINE n == Len(printed)
           new == <<f + 1, to>>
<1>1. new \in Nat \X Nat /\ f \in Nat /\ n \in Nat
  BY LenProperties DEF PackTypeOK
<1>2. /\ printed' \in Seq(Nat \X Nat) /\ Len(printed') = n + 1
      /\ \A k \in 1..n : printed'[k] = printed[k]
      /\ printed'[n + 1] = new
  BY <1>1, AppendProperties DEF PackTypeOK
<1>3. new[1] = f + 1 /\ new[2] = to
  OBVIOUS
<1>4. DOMAIN printed = 1..n /\ DOMAIN printed' = 1..(n + 1)
  BY <1>2, LenProperties DEF PackTypeOK
<1>5. \A k \in 0..n : (IF k = 0 THEN 0 ELSE printed'[k][2]) = Past(k)
  BY <1>2 DEF Past
<1>6. ASSUME NEW k \in 1..(n + 1)
      PROVE  /\ printed'[k][1] = (IF k - 1 = 0 THEN 0 ELSE printed'[k - 1][2]) + 1
             /\ printed'[k][1] < printed'[k][2]
             /\ printed'[k][2] <= size
  <2>1. k - 1 \in 0..n /\ (k \in 1..n \/ k = n + 1)
    BY <1>1
  <2>2. CASE k \in 1..n
    <3>1. /\ printed[k][1] = Past(k - 1) + 1 /\ printed[k][1] < printed[k][2]
          /\ printed[k][2] <= size
      BY <1>4, <2>2 DEF Consecutive
    <3> QED
      BY <3>1, <2>1, <2>2, <1>2, <1>5
  <2>3. CASE k = n + 1
    <3>1. k - 1 = n
      BY <1>1, <2>3
    <3>2. (IF k - 1 = 0 THEN 0 ELSE printed'[k - 1][2]) = f
      BY <2>1, <1>5, <3>1
    <3>3. printed'[k] = new
      BY <2>3, <1>2
    <3> HIDE DEF new
    <3> QED
      BY <3>2, <3>3, <1>3
  <2> QED
    BY <2>1, <2>2, <2>3
<1> HIDE DEF n, new
<1>7. Consecutive'
  BY <1>4, <1>6 DEF Consecutive, Past
<1> QED
  BY <1>2, <1>3, <1>7 DEF n, new
(***************************************************************************)
(* A turn that ends the loop changes nothing but the outcome.              *)
(***************************************************************************)
LEMMA StopKeeps ==
  ASSUME PackIInv, NEW how \in {"done", "spins", "truncated", "outside", "trailing", "invalid"},
         outcome = "runs", Stop(how),
         how = "spins" => Token \in Still,
         how = "truncated" => Token \in FixedTokens /\ ~Fits,
         how = "outside" => /\ Token \in FixedTokens /\ Fits
                            /\ f + 1 + Size(Token) > size,
         how = "trailing" => Token = "$",
         how = "invalid" => Token \notin FixedTokens,
         fmt # <<>> /\ fmt[1] \in Still => how = "spins"
  PROVE  PackIInv'
<1>1. /\ fmt' = fmt /\ size' = size /\ f' = f /\ printed' = printed /\ outcome' = how
      /\ Token' = Token /\ (Fits <=> Fits')
  BY DEF Stop, Token, Fits
<1>2. PackTypeOK' /\ outcome' # "runs"
  BY <1>1 DEF PackIInv, PackTypeOK
<1>3. Consecutive' /\ (2 * Len(printed) <= Len(fmt) + 1)'
  BY <1>1 DEF PackIInv, Consecutive, Past
<1>4. Place'
  BY <1>2 DEF Place
<1>5. Ended'
  BY <1>1 DEF Ended, PackIInv
<1>6. StillFirst'
  BY <1>1 DEF StillFirst, PackIInv
<1> QED
  BY <1>2, <1>3, <1>4, <1>5, <1>6 DEF PackIInv

(***************************************************************************)
(* A turn that goes on: with a new place, and perhaps a stretch printed.   *)
(***************************************************************************)
LEMMA TurnKeeps ==
  ASSUME PackIInv, outcome = "runs", f < Len(fmt), Token \notin Still,
         UNCHANGED <<fmt, size, outcome>>, f' \in Nat,
         printed' \in Seq(Nat \X Nat), Consecutive', Place',
         2 * Len(printed') <= Len(fmt) + 1
  PROVE  PackIInv'
<1>1. PackTypeOK' /\ Ended'
  BY DEF PackIInv, PackTypeOK, Ended
<1>2. Len(fmt) \in Nat /\ f \in Nat /\ fmt # <<>>
  BY LenProperties, EmptySeq DEF PackIInv, PackTypeOK
<1>3. ~(fmt[1] \in Still)
  <2>1. ASSUME fmt[1] \in Still PROVE FALSE
    <3>1. f = 0
      BY <1>2, <2>1 DEF PackIInv, StillFirst
    <3>2. fmt[f + 1] = fmt[1]
      BY <3>1
    <3> QED
      BY <2>1, <3>2 DEF Token
  <2> QED
    BY <2>1
<1>4. StillFirst'
  BY <1>3 DEF StillFirst
<1> QED
  BY <1>1, <1>4 DEF PackIInv

THEOREM PackInvariance == PackSpec => []PackIInv
<1>1. PackInit => PackIInv
  <2> SUFFICES ASSUME PackInit PROVE PackIInv
    OBVIOUS
  <2>1. PICK n \in 0..MaxFormat : fmt \in [1..n -> PackTokens]
    BY DEF PackInit
  <2>2. fmt \in Seq(PackTokens) /\ Len(fmt) \in Nat
    <3>1. n \in Nat
      BY PackAssumption
    <3> QED
      BY <2>1, <3>1, SeqDef, LenProperties
  <2>3. printed = <<>> /\ Len(printed) = 0 /\ printed \in Seq(Nat \X Nat) /\ DOMAIN printed = {}
    BY EmptySeq DEF PackInit
  <2>4. size \in Nat /\ f = 0 /\ outcome = "runs"
    BY PackAssumption DEF PackInit
  <2>5. PackTypeOK
    BY <2>2, <2>3, <2>4 DEF PackTypeOK
  <2>6. Consecutive
    BY <2>3 DEF Consecutive
  <2>7. Place /\ 2 * Len(printed) <= Len(fmt) + 1
    BY <2>2, <2>3, <2>4 DEF Place, Past
  <2>8. Ended /\ StillFirst
    BY <2>4 DEF Ended, StillFirst
  <2> QED
    BY <2>5, <2>6, <2>7, <2>8 DEF PackIInv
<1>2. PackIInv /\ [PackStep]_packVars => PackIInv'
  <2> SUFFICES ASSUME PackIInv, [PackStep]_packVars PROVE PackIInv'
    OBVIOUS
  <2>t. /\ size \in Nat /\ f \in Nat /\ Len(fmt) \in Nat /\ Len(printed) \in Nat
        /\ fmt \in Seq(PackTokens) /\ printed \in Seq(Nat \X Nat)
    BY LenProperties DEF PackIInv, PackTypeOK
  <2>0. ASSUME NEW tokens, At(tokens)
        PROVE  /\ outcome = "runs" /\ f < Len(fmt) /\ Token \in tokens
               /\ fmt # <<>> /\ fmt[1] \in Still => Token \in Still
    <3>1. outcome = "runs" /\ f < Len(fmt) /\ Token \in tokens
      BY <2>0 DEF At
    <3>2. ASSUME fmt # <<>>, fmt[1] \in Still PROVE Token \in Still
      <4>1. f = 0
        BY <3>2 DEF PackIInv, StillFirst
      <4>2. fmt[f + 1] = fmt[1]
        BY <4>1
      <4> QED
        BY <3>2, <4>2 DEF Token
    <3> QED
      BY <3>1, <3>2
  <2>1. CASE Spins
    <3>1. outcome = "runs" /\ Token \in Still /\ Stop("spins")
      BY <2>0, <2>1 DEF Spins
    <3> QED
      BY <3>1, StopKeeps
  <2>2. CASE Truncated
    <3>1. /\ outcome = "runs" /\ Token \in FixedTokens /\ ~Fits /\ Stop("truncated")
          /\ fmt # <<>> /\ fmt[1] \in Still => Token \in Still
      BY <2>0, <2>2 DEF Truncated
    <3>2. Token \notin Still
      BY <3>1, TokenSizes
    <3> QED
      BY <3>1, <3>2, StopKeeps
  <2>3. CASE Outside
    <3>1. /\ outcome = "runs" /\ Token \in FixedTokens /\ Fits
          /\ f + 1 + Size(Token) > size /\ Stop("outside")
          /\ fmt # <<>> /\ fmt[1] \in Still => Token \in Still
      BY <2>0, <2>3 DEF Outside
    <3>2. Token \notin Still
      BY <3>1, TokenSizes
    <3> QED
      BY <3>1, <3>2, StopKeeps
  <2>4. CASE Number
    <3>1. /\ outcome = "runs" /\ f < Len(fmt) /\ Token \in FixedTokens
          /\ Fits /\ f + 1 + Size(Token) <= size
          /\ printed' = Append(printed, <<f + 1, f + 1 + Size(Token)>>)
          /\ f' = After(Token, f) /\ UNCHANGED <<fmt, size, outcome>>
      BY <2>0, <2>4 DEF Number
    <3>2. Size(Token) \in Nat \ {0} /\ Tested(Token) \in Nat /\ Token \notin Still
      BY <3>1, TokenSizes
    <3> DEFINE to == f + 1 + Size(Token)
    <3>3. /\ to \in Nat /\ f + 1 < to /\ to <= size /\ f' = to
          /\ f' >= f + 2 /\ f' \in Nat /\ f + 1 < size
      BY <2>t, <3>1, <3>2 DEF After
    <3>4. f = Past(Len(printed)) /\ 2 * Len(printed) <= f
      BY <2>t, <3>1, <3>3 DEF PackIInv, Place
    <3>5. printed' = Append(printed, <<f + 1, to>>) /\ size' = size
      BY <3>1
    <3> HIDE DEF to
    <3>6. /\ printed' \in Seq(Nat \X Nat) /\ Consecutive'
          /\ Len(printed') = Len(printed) + 1 /\ printed'[Len(printed')][2] = to
      BY <3>3, <3>4, <3>5, PrintsOn DEF PackIInv
    <3>7. 2 * Len(printed') <= f' /\ 2 * Len(printed') <= Len(fmt) + 1
      BY <2>t, <3>1, <3>3, <3>4, <3>6
    <3>8. Past(Len(printed))' = f'
      BY <2>t, <3>3, <3>6 DEF Past
    <3>9. Place'
      BY <3>7, <3>8 DEF Place
    <3> QED
      BY <3>1, <3>2, <3>3, <3>6, <3>7, <3>9, TurnKeeps
  <2>5. CASE RestOfData
    <3>1. /\ outcome = "runs" /\ f < Len(fmt) /\ Token = "s"
          /\ printed' = IF Remaining > 0 THEN Append(printed, <<f + 1, size>>) ELSE printed
          /\ f' = Len(fmt) /\ UNCHANGED <<fmt, size, outcome>>
      BY <2>0, <2>5 DEF RestOfData
    <3>2. Token \notin Still
      BY <3>1 DEF Still
    <3>3. Place' /\ f' \in Nat
      BY <2>t, <3>1 DEF Place
    <3>4. CASE Remaining > 0
      <4>1. f + 1 < size /\ f = Past(Len(printed)) /\ 2 * Len(printed) <= f
        BY <2>t, <3>1, <3>4 DEF PackIInv, Place, Remaining
      <4>2. printed' = Append(printed, <<f + 1, size>>) /\ size' = size
        BY <3>1, <3>4
      <4>3. /\ printed' \in Seq(Nat \X Nat) /\ Consecutive'
            /\ Len(printed') = Len(printed) + 1
        <5>1. PackTypeOK /\ Consecutive /\ size \in Nat /\ size <= size
          BY <2>t DEF PackIInv
        <5> QED
          BY <4>1, <4>2, <5>1, PrintsOn
      <4>4. 2 * Len(printed') <= Len(fmt) + 1
        BY <2>t, <3>1, <4>1, <4>3
      <4> QED
        BY <3>1, <3>2, <3>3, <4>3, <4>4, TurnKeeps
    <3>5. CASE ~(Remaining > 0)
      <4>1. printed' = printed /\ Consecutive' /\ 2 * Len(printed') <= Len(fmt) + 1
        BY <3>1, <3>5 DEF PackIInv, Consecutive, Past
      <4> QED
        BY <2>t, <3>1, <3>2, <3>3, <4>1, TurnKeeps
    <3> QED
      BY <3>4, <3>5
  <2>6. CASE Trailing
    <3>1. /\ outcome = "runs" /\ Token = "$" /\ Stop("trailing")
          /\ fmt # <<>> /\ fmt[1] \in Still => Token \in Still
      BY <2>0, <2>6 DEF Trailing
    <3>2. Token \notin Still
      BY <3>1 DEF Still
    <3> QED
      BY <3>1, <3>2, StopKeeps
  <2>7. CASE EndOfData
    <3>1. /\ outcome = "runs" /\ f < Len(fmt) /\ Token = "$" /\ Remaining <= 0
          /\ f' = f + 1 /\ UNCHANGED <<fmt, size, printed, outcome>>
      BY <2>0, <2>7 DEF EndOfData
    <3>2. Token \notin Still
      BY <3>1 DEF Still
    <3>3. Consecutive' /\ 2 * Len(printed') <= Len(fmt) + 1
      BY <3>1 DEF PackIInv, Consecutive, Past
    <3>4. Place' /\ f' \in Nat
      BY <2>t, <3>1 DEF PackIInv, Place, Remaining
    <3> QED
      BY <2>t, <3>1, <3>2, <3>3, <3>4, TurnKeeps
  <2>8. CASE Invalid
    <3>1. /\ outcome = "runs" /\ Token \notin Still \cup FixedTokens /\ Stop("invalid")
          /\ fmt # <<>> /\ fmt[1] \in Still => Token \in Still
      BY <2>0, <2>8 DEF Invalid
    <3> QED
      BY <3>1, StopKeeps
  <2>9. CASE Done
    <3>1. outcome = "runs" /\ f >= Len(fmt) /\ Stop("done")
      BY <2>9 DEF Done
    <3>2. fmt # <<>> => Len(fmt) > 0
      BY <2>t, EmptySeq, LenProperties
    <3>3. ~(fmt # <<>> /\ fmt[1] \in Still)
      BY <2>t, <3>1, <3>2 DEF PackIInv, StillFirst
    <3> QED
      BY <3>1, <3>3, StopKeeps
  <2>10. CASE UNCHANGED packVars
    BY <2>10 DEF packVars, PackIInv, PackTypeOK, Consecutive, Past, Place, Ended,
                 Token, Fits, StillFirst
  <2> QED
    BY <2>1, <2>2, <2>3, <2>4, <2>5, <2>6, <2>7, <2>8, <2>9, <2>10 DEF PackStep
<1> QED
  BY <1>1, <1>2, PTL DEF PackSpec

(***************************************************************************)
(* Unpack prints consecutive stretches of the data with one byte between   *)
(* them, at most one for two tokens, for every format and size of data;    *)
(* where it leaves the data and where it never ends, and nowhere else.     *)
(***************************************************************************)
THEOREM UnpackAlwaysSo == PackSpec => []UnpackOutcome
<1>1. PackIInv => UnpackOutcome
  <2> SUFFICES ASSUME PackIInv PROVE UnpackOutcome
    OBVIOUS
  <2> DEFINE final == outcome # "runs"
             four == {"i", "I"}
             long == {"i", "I", "q", "Q"}
  <2>1. size \in Nat /\ f \in Nat
    BY DEF PackIInv, PackTypeOK
  <2>2. ASSUME final, fmt # <<>>
        PROVE  outcome = "spins" /\ f = 0 <=> fmt[1] \in {" ", "<", ">"}
    <3>1. ASSUME outcome = "spins", f = 0 PROVE fmt[1] \in Still
      <4>1. fmt[f + 1] = fmt[1]
        BY <3>1
      <4> QED
        BY <3>1, <4>1 DEF PackIInv, Ended, Token
    <3>2. ASSUME fmt[1] \in Still PROVE outcome = "spins" /\ f = 0
      BY <2>2, <3>2 DEF PackIInv, StillFirst
    <3> QED
      BY <3>1, <3>2 DEF Still
  <2>3. ASSUME outcome = "outside"
        PROVE  /\ final /\ outcome # "done" /\ Token \in long
               /\ size - f = IF Token \in four THEN 4 ELSE 8
    <3>1. Token \in FixedTokens /\ f + Tested(Token) < size /\ f + 1 + Size(Token) > size
      BY <2>3 DEF PackIInv, Ended, Fits
    <3>2. \/ Token \in IntTokens /\ Size(Token) = 4 /\ Tested(Token) = 3
          \/ Token \in LongTokens /\ Size(Token) = 8 /\ Tested(Token) = 7
      BY <2>1, <3>1, TokenSizes
    <3>3. \/ Token \in IntTokens /\ size - f = 4
          \/ Token \in LongTokens /\ size - f = 8
      BY <2>1, <3>1, <3>2
    <3>4. Token \in LongTokens => Token \notin four
      BY DEF LongTokens
    <3> QED
      BY <2>3, <3>3, <3>4 DEF IntTokens, LongTokens
  <2>4. ASSUME final, outcome # "done", Token \in long,
               size - f = IF Token \in four THEN 4 ELSE 8
        PROVE  outcome = "outside"
    <3>1. Token \in FixedTokens /\ Token \notin Still /\ Token # "$"
      <4>1. Token \in FixedTokens
        BY <2>4 DEF FixedTokens, IntTokens, LongTokens
      <4> QED
        BY <4>1, TokenSizes
    <3>2. \/ Token \in IntTokens /\ Token \in four
          \/ Token \in LongTokens /\ Token \notin four
      BY <2>4 DEF IntTokens, LongTokens
    <3>3. Fits
      BY <2>1, <2>4, <3>1, <3>2, TokenSizes DEF Fits
    <3> QED
      BY <2>4, <3>1, <3>3 DEF PackIInv, PackTypeOK, Ended
  <2>5. Consecutive /\ 2 * Len(printed) <= Len(fmt) + 1
    BY DEF PackIInv
  <2> QED
    BY <2>2, <2>3, <2>4, <2>5 DEF UnpackOutcome, Consecutive, Past
<1> QED
  BY <1>1, PackInvariance, PTL

=============================================================================
