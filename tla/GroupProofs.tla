---------------------------- MODULE GroupProofs -----------------------------
(***************************************************************************)
(* Proofs about module Group, for every set of processes and partitions,   *)
(* any number of messages and rebalances, and any interleaving.            *)
(***************************************************************************)
EXTENDS Group, SequenceTheorems, TLAPS

(***************************************************************************)
(* What a process has done, with the message it is working on: Done counts *)
(* that one from its commit on, Out from its fetch on.  Printing a message *)
(* changes neither.                                                        *)
(***************************************************************************)
Past(m, places) == IF pc[m] \in places THEN Append(printed[m], cur[m])
                                       ELSE printed[m]
Done(m) == Past(m, {"print", "stalled"})
Out(m) == Past(m, {"commit", "print", "stalled"})

(***************************************************************************)
(* A process that works on a message has one, and it read it in this       *)
(* generation, up to the current position, or in an earlier one.           *)
(***************************************************************************)
Working == {"commit", "print", "stalled", "count"}

Seen(x, g, pos) == x.gen <= g /\ (x.gen = g => x.n <= pos[x.p])

Place == \A m \in Members :
           /\ pc[m] \in Working => cur[m] \in Message
           /\ \A i \in DOMAIN Out(m) : Seen(Out(m)[i], gen, next)

(***************************************************************************)
(* Order: InOrderPerGeneration, with the messages being worked on.         *)
(***************************************************************************)
Ordered(x, y) == x.p = y.p /\ x.gen = y.gen => x.n < y.n
Apart(x, y) == x.p = y.p /\ x.gen = y.gen => x.n # y.n

Order ==
  /\ \A m \in Members : \A i, j \in DOMAIN Out(m) :
       i < j => Ordered(Out(m)[i], Out(m)[j])
  /\ \A m, k \in Members : m # k =>
       \A i \in DOMAIN Out(m), j \in DOMAIN Out(k) : Apart(Out(m)[i], Out(k)[j])

(***************************************************************************)
(* Everything up to a position somebody may commit, or the group will read *)
(* from, is accounted for: a message that is fetched stays so whatever     *)
(* becomes of it.                                                          *)
(***************************************************************************)
Accounted(p, n) == \/ \E m \in Members : \E i \in DOMAIN Out(m) : Is(Out(m)[i], p, n)
                   \/ \E x \in dropped : Is(x, p, n)

UpTo(p, n) == \A k \in 1..n : Accounted(p, k)

Covered == /\ \A p \in Partitions : UpTo(p, committed[p]) /\ UpTo(p, next[p])
           /\ \A m \in Members : pc[m] = "commit" => UpTo(cur[m].p, cur[m].n)

(***************************************************************************)
(* As long as no commit came late, the committed offset of a partition     *)
(* never moves back: what was committed lies below it, what its owner is   *)
(* about to commit above.                                                  *)
(***************************************************************************)
Behind == \A m \in Members : \A i \in DOMAIN Done(m) :
            Done(m)[i].n <= committed[Done(m)[i].p]

Distinct ==
  \A m, k \in Members : \A i \in DOMAIN Done(m), j \in DOMAIN Done(k) :
    Is(Done(m)[i], Done(k)[j].p, Done(k)[j].n) => m = k /\ i = j

Ahead == \A m \in Members : pc[m] = "commit" /\ cur[m].gen = gen =>
           owner[cur[m].p] = m /\ committed[cur[m].p] < cur[m].n

Forward == /\ \A p \in Partitions : committed[p] <= next[p]
           /\ Behind /\ Distinct /\ Ahead

Once == ~stale => Forward

(***************************************************************************)
(* Rx is behind the output only between a print and its count, which a     *)
(* crash prevents.  Below the limit, or at it and done.                    *)
(***************************************************************************)
Counted ==
  \A m \in Members :
    /\ pc[m] = "count" => Len(printed[m]) = rx[m] + 1
    /\ pc[m] = "crashed" => Len(printed[m]) \in {rx[m], rx[m] + 1}
    /\ pc[m] \notin {"count", "crashed"} => Len(printed[m]) = rx[m]
    /\ Limit > 0 => \/ rx[m] < Limit
                    \/ /\ rx[m] = Limit /\ Len(printed[m]) = Limit
                       /\ pc[m] \in {"close"} \cup Gone

IInv == TypeOK /\ Place /\ Order /\ Covered /\ Once /\ Counted

-----------------------------------------------------------------------------
(***************************************************************************)
(* The steps by what they do: a message fetched, committed, given up,      *)
(* printed or counted, or nothing but a change of place.                   *)
(***************************************************************************)
Fresh(p) == [p |-> p, n |-> next[p] + 1, gen |-> gen]

FetchFrom(m, p) ==
  /\ pc[m] = "read" /\ Goto(m, "commit")
  /\ owner[p] = m /\ next[p] < LogLen[p]
  /\ next' = [next EXCEPT ![p] = @ + 1]
  /\ cur' = [cur EXCEPT ![m] = Fresh(p)]
  /\ UNCHANGED <<group, committed, run, rx, printed, hist>>

MayCommit(m) == \/ /\ pc[m] = "commit"
                   /\ committed' \in {committed, Committed(m)}
                   /\ SendCommit(m)
                \/ UNCHANGED <<committed, stale>>

GiveUp(m, place) ==
  /\ pc[m] \in {"commit", "print", "stalled"} /\ Goto(m, place)
  /\ \/ pc[m] = "commit" /\ place \in {"loop", "exited"}
     \/ place = "crashed"
  /\ MayCommit(m)
  /\ Drop(m)
  /\ UNCHANGED <<group, next, run, rx, printed>>

Show(m) == /\ pc[m] \in {"print", "stalled"} /\ Goto(m, "count")
            /\ printed' = [printed EXCEPT ![m] = Append(@, cur[m])]
            /\ UNCHANGED <<group, committed, next, run, rx, cur, hist>>

Quiet(m, place) ==
  /\ Goto(m, place)
  /\ \/ pc[m] \in {"loop", "read"} /\ place \in {"loop", "read", "close", "exited"}
     \/ pc[m] = "close" /\ place = "exited"
     \/ pc[m] = "print" /\ place = "stalled"
     \/ pc[m] \in {"loop", "read", "close", "count"} /\ place = "crashed"
     \/ place = pc[m]
  /\ run' \in [Members -> BOOLEAN]
  /\ UNCHANGED <<group, committed, next, rx, cur, printed, hist>>

Acts(m) == \/ \E p \in Partitions : FetchFrom(m, p)
           \/ CommitOk(m)
           \/ \E place \in Places : GiveUp(m, place)
           \/ Show(m)
           \/ Count(m)
           \/ \E place \in Places : Quiet(m, place)

LEMMA Steps ==
  ASSUME TypeOK, [Next]_vars
  PROVE  \/ Assign /\ idle' \in 0..MaxRebalances
         \/ \E m \in Members : Acts(m)
         \/ UNCHANGED vars
<1> USE DEF TypeOK, Gone, Places
<1>1. CASE Reassign \/ Rebalance
  BY <1>1, GroupAssumption DEF Reassign, Rebalance
<1>2. ASSUME NEW m \in Members,
             TestRun(m) \/ FetchDeadline(m) \/ Stall(m) \/ Close(m)
      PROVE  \E place \in Places : Quiet(m, place)
  <2>1. run' = run
    BY <1>2 DEF TestRun, FetchDeadline, Stall, Close
  <2>2. CASE TestRun(m)
    <3>1. CASE run[m]
      BY <2>1, <2>2, <3>1 DEF TestRun, Quiet
    <3>2. CASE ~run[m]
      BY <2>1, <2>2, <3>2 DEF TestRun, Quiet
    <3> QED
      BY <3>1, <3>2
  <2> QED
    BY <1>2, <2>1, <2>2 DEF FetchDeadline, Stall, Close, Quiet
<1>3. ASSUME NEW m \in Members, Fetch(m) PROVE Acts(m)
  BY <1>3 DEF Fetch, FetchFrom, Fresh, Acts
<1>4. ASSUME NEW m \in Members, CommitDeadline(m) \/ ReadError(m)
      PROVE  \E place \in Places : Quiet(m, place) \/ GiveUp(m, place)
  BY <1>4 DEF CommitDeadline, ReadError, Quiet, GiveUp, MayCommit, hist
<1>5. ASSUME NEW m \in Members, PrintOut(m) \/ PrintLate(m) PROVE Show(m)
  BY <1>5 DEF PrintOut, PrintLate, Show
<1>6. ASSUME NEW m \in Members, ReceiveSignal(m)
      PROVE  \E place \in Places : Quiet(m, place)
  <2>1. pc' = [pc EXCEPT ![m] = pc[m]] /\ pc[m] \in Places
    BY <1>6 DEF ReceiveSignal
  <2>2. run' \in [Members -> BOOLEAN]
    BY <1>6 DEF ReceiveSignal
  <2> QED
    BY <1>6, <2>1, <2>2 DEF ReceiveSignal, Quiet, Goto
<1>7. ASSUME NEW m \in Members, Crash(m)
      PROVE  \E place \in Places : Quiet(m, place) \/ GiveUp(m, place)
  <2>1. pc[m] \in Places \ Gone /\ Goto(m, "crashed")
    BY <1>7 DEF Crash, Live
  <2>2. CASE pc[m] \in {"commit", "print", "stalled"}
    BY <1>7, <2>1, <2>2 DEF Crash, GiveUp, MayCommit
  <2>3. CASE pc[m] \notin {"commit", "print", "stalled"}
    BY <1>7, <2>1, <2>3 DEF Crash, Quiet, hist
  <2> QED
    BY <2>2, <2>3
<1> QED
  BY <1>1, <1>2, <1>3, <1>4, <1>5, <1>6, <1>7 DEF Next, Finish, Acts

-----------------------------------------------------------------------------
(***************************************************************************)
(* What a step does to Out and Done, which the order and the accounts are  *)
(* about: a fetch adds a message to Out, a commit to Done, giving a        *)
(* message up takes it back, and nothing else changes them.                *)
(***************************************************************************)
LEMMA Sequences ==
  ASSUME TypeOK, Place, NEW m \in Members
  PROVE  /\ Out(m) \in Seq(Message) /\ Done(m) \in Seq(Message)
         /\ printed[m] \in Seq(Message)
         /\ pc[m] \in Working => cur[m] \in Message
<1>1. printed[m] \in Seq(Message) /\ (pc[m] \in Working => cur[m] \in Message)
  BY DEF TypeOK, Place
<1>2. cur[m] \in Message => Append(printed[m], cur[m]) \in Seq(Message)
  BY <1>1, AppendProperties
<1> QED
  BY <1>1, <1>2 DEF Out, Done, Past, Working

LEMMA Elements ==
  ASSUME TypeOK, Place, NEW m \in Members
  PROVE  /\ \A i \in DOMAIN Out(m) : Out(m)[i] \in Message
         /\ \A i \in DOMAIN Done(m) : Done(m)[i] \in Message
BY Sequences, ElementOfSeq, LenProperties

LEMMA Fields ==
  ASSUME NEW x \in Message
  PROVE  x.p \in Partitions /\ x.n \in Nat /\ x.gen \in Nat
BY DEF Message

LEMMA Grows ==
  ASSUME NEW s \in Seq(Message), NEW x \in Message, NEW t, t = Append(s, x)
  PROVE  /\ DOMAIN s \subseteq DOMAIN t
         /\ \A i \in DOMAIN s : t[i] = s[i] /\ i \in Nat /\ i < Len(t)
         /\ \A i \in DOMAIN t : i \in Nat /\ (i \in DOMAIN s \/ i = Len(t))
         /\ Len(t) \in DOMAIN t /\ t[Len(t)] = x /\ Len(t) \notin DOMAIN s
<1>1. /\ t \in Seq(Message) /\ Len(t) = Len(s) + 1 /\ t[Len(s) + 1] = x
      /\ \A i \in 1..Len(s) : t[i] = s[i]
  BY AppendProperties
<1>2. DOMAIN s = 1..Len(s) /\ Len(s) \in Nat /\ DOMAIN t = 1..Len(t)
  BY <1>1, LenProperties
<1> QED
  BY <1>1, <1>2

Kept(m) == Out(m)' = Out(m) /\ Done(m)' = Done(m)

LEMMA Untouched ==
  ASSUME NEW m, printed'[m] = printed[m], cur'[m] = cur[m],
         \/ pc'[m] = pc[m]
         \/ pc[m] \notin {"commit", "print", "stalled"}
            /\ pc'[m] \notin {"commit", "print", "stalled"}
         \/ pc[m] = "print" /\ pc'[m] = "stalled"
  PROVE  Kept(m)
BY DEF Kept, Out, Done, Past

LEMMA AssignKeeps ==
  ASSUME Assign, NEW m \in Members PROVE Kept(m)
BY Untouched DEF Assign

LEMMA FetchAdds ==
  ASSUME TypeOK, NEW m \in Members, NEW p \in Partitions, FetchFrom(m, p)
  PROVE  /\ Fresh(p) \in Message
         /\ Out(m)' = Append(Out(m), Fresh(p)) /\ Done(m)' = Done(m)
         /\ \A k \in Members : k # m => Kept(k)
<1>1. /\ pc[m] = "read" /\ pc'[m] = "commit" /\ printed' = printed
      /\ cur'[m] = Fresh(p)
      /\ \A k \in Members : k # m => pc'[k] = pc[k] /\ cur'[k] = cur[k]
  BY DEF FetchFrom, Goto, TypeOK
<1>2. Out(m)' = Append(Out(m), Fresh(p)) /\ Done(m)' = Done(m)
  BY <1>1 DEF Out, Done, Past
<1>3. \A k \in Members : k # m => Kept(k)
  BY <1>1, Untouched
<1>4. next[p] \in Nat /\ next[p] < LogLen[p] /\ gen \in Nat
  BY DEF FetchFrom, TypeOK
<1>5. Fresh(p) \in Message
  BY <1>4, GroupAssumption DEF Fresh, Message
<1> QED
  BY <1>2, <1>3, <1>5

LEMMA CommitAdds ==
  ASSUME TypeOK, NEW m \in Members, CommitOk(m)
  PROVE  /\ Out(m)' = Out(m) /\ Done(m)' = Append(Done(m), cur[m])
         /\ \A k \in Members : k # m => Kept(k)
<1>1. /\ pc[m] = "commit" /\ pc'[m] = "print" /\ printed' = printed /\ cur' = cur
      /\ \A k \in Members : k # m => pc'[k] = pc[k]
  BY DEF CommitOk, Goto, TypeOK
<1> QED
  BY <1>1, Untouched DEF Out, Done, Past

LEMMA GiveUpTakesBack ==
  ASSUME TypeOK, NEW m \in Members, NEW place \in Places, GiveUp(m, place)
  PROVE  /\ Out(m)' = printed[m] /\ Out(m) = Append(printed[m], cur[m])
         /\ Done(m)' = printed[m] /\ Done(m) \in {printed[m], Out(m)}
         /\ \A k \in Members : k # m => Kept(k)
<1>1. /\ pc[m] \in {"commit", "print", "stalled"}
      /\ pc'[m] \in {"loop", "exited", "crashed"} /\ printed' = printed
      /\ \A k \in Members : k # m => pc'[k] = pc[k] /\ cur'[k] = cur[k]
  BY DEF GiveUp, Goto, Drop, TypeOK
<1> QED
  BY <1>1, Untouched DEF Out, Done, Past

LEMMA PrintKeeps ==
  ASSUME TypeOK, NEW m \in Members, Show(m), NEW k \in Members
  PROVE  Kept(k)
<1>1. /\ pc[m] \in {"print", "stalled"} /\ pc'[m] = "count" /\ cur' = cur
      /\ printed'[m] = Append(printed[m], cur[m])
      /\ k # m => pc'[k] = pc[k] /\ printed'[k] = printed[k]
  BY DEF Show, Goto, TypeOK
<1>2. CASE k = m
  BY <1>1, <1>2 DEF Kept, Out, Done, Past
<1>3. CASE k # m
  BY <1>1, <1>3, Untouched
<1> QED
  BY <1>2, <1>3

LEMMA CountKeeps ==
  ASSUME TypeOK, NEW m \in Members, Count(m), NEW k \in Members
  PROVE  Kept(k)
<1>1. /\ pc[m] = "count" /\ pc'[m] \in {"loop", "close"} /\ printed' = printed
      /\ k # m => pc'[k] = pc[k] /\ cur'[k] = cur[k]
  BY DEF Count, Goto, TypeOK
<1>2. CASE k = m
  BY <1>1, <1>2 DEF Kept, Out, Done, Past
<1>3. CASE k # m
  BY <1>1, <1>3, Untouched
<1> QED
  BY <1>2, <1>3

LEMMA QuietKeeps ==
  ASSUME TypeOK, NEW m \in Members, NEW place \in Places, Quiet(m, place),
         NEW k \in Members
  PROVE  Kept(k)
<1>1. /\ printed' = printed /\ cur' = cur /\ pc'[m] = place
      /\ k # m => pc'[k] = pc[k]
  BY DEF Quiet, Goto, TypeOK
<1>2. CASE k = m
  BY <1>1, <1>2, Untouched DEF Quiet
<1>3. CASE k # m
  BY <1>1, <1>3, Untouched
<1> QED
  BY <1>2, <1>3

-----------------------------------------------------------------------------
(***************************************************************************)
(* The invariant holds at the start, and every step keeps the types.       *)
(***************************************************************************)
LEMMA InitInvariant == Init => IInv
<1> SUFFICES ASSUME Init PROVE IInv
  OBVIOUS
<1> USE DEF Init
<1>0. \A m \in Members : pc[m] = "loop" /\ printed[m] = <<>> /\ cur[m] = None
  OBVIOUS
<1>1. /\ <<>> \in Seq(Message) /\ Len(<<>>) = 0 /\ DOMAIN <<>> = {}
  OBVIOUS
<1>8. \A m \in Members : rx[m] = 0 /\ Len(printed[m]) = 0
  BY <1>0, <1>1
<1>a. \A p \in Partitions : committed[p] <= LogLen[p] /\ next[p] <= LogLen[p]
  BY GroupAssumption
<1>b. printed \in [Members -> Seq(Message)] /\ idle \in 0..MaxRebalances
  BY <1>1, GroupAssumption
<1>c. \A m \in Members : rx[m] <= Len(printed[m])
  BY <1>8
<1>d. /\ owner \in [Partitions -> Members \cup {None}] /\ gen \in Nat
      /\ committed \in [Partitions -> Nat] /\ next \in [Partitions -> Nat]
      /\ pc \in [Members -> Places] /\ run \in [Members -> BOOLEAN]
      /\ rx \in [Members -> Nat] /\ cur \in [Members -> Message \cup {None}]
      /\ dropped \subseteq Message /\ stale \in BOOLEAN
  BY DEF Places
<1>2. TypeOK
  BY <1>a, <1>b, <1>c, <1>d DEF TypeOK
<1>3. \A m \in Members : Out(m) = <<>> /\ Done(m) = <<>>
  BY <1>0 DEF Out, Done, Past
<1>4. Place /\ Order
  BY <1>0, <1>1, <1>3 DEF Place, Order, Working
<1>5. \A p \in Partitions : committed[p] = 0 /\ next[p] = 0
  OBVIOUS
<1>6. Covered
  BY <1>0, <1>5 DEF Covered, UpTo
<1>7. Once
  BY <1>0, <1>1, <1>3, <1>5 DEF Once, Forward, Behind, Distinct, Ahead
<1>9. Counted
  BY <1>0, <1>8, GroupAssumption DEF Counted
<1> QED
  BY <1>2, <1>4, <1>6, <1>7, <1>9 DEF IInv

LEMMA CommittedType ==
  ASSUME TypeOK, NEW m \in Members, cur[m] \in Message
  PROVE  /\ Committed(m) \in [Partitions -> Nat]
         /\ \A p \in Partitions : Committed(m)[p] <= LogLen[p]
         /\ cur[m].p \in Partitions /\ cur[m].n \in Nat /\ cur[m].gen \in Nat
<1>1. /\ cur[m].p \in Partitions /\ cur[m].n \in Nat /\ cur[m].gen \in Nat
      /\ cur[m].n \in 1..LogLen[cur[m].p]
  BY DEF Message
<1> QED
  BY <1>1, GroupAssumption DEF Committed, TypeOK

LEMMA TypeStep == IInv /\ [Next]_vars => TypeOK'
<1> SUFFICES ASSUME IInv, [Next]_vars PROVE TypeOK'
  OBVIOUS
<1>0. TypeOK /\ Place /\ Counted
  BY DEF IInv
<1> USE DEF TypeOK, Places, Gone, group, hist
<1>1. CASE Assign /\ idle' \in 0..MaxRebalances
  <2>1. Live \subseteq Members
    BY DEF Live
  <2>2. owner' \in [Partitions -> Members \cup {None}]
    BY <1>1, <2>1 DEF Assign
  <2> QED
    BY <1>0, <1>1, <2>2 DEF Assign
<1>2. ASSUME NEW m \in Members, NEW p \in Partitions, FetchFrom(m, p)
      PROVE  TypeOK'
  <2>1. Fresh(p) \in Message
    BY <1>0, <1>2, FetchAdds
  <2>2. /\ next' \in [Partitions -> Nat]
        /\ \A q \in Partitions : next'[q] \in {next[q], next[p] + 1}
        /\ \A q \in Partitions : q # p => next'[q] = next[q]
    BY <1>0, <1>2 DEF FetchFrom
  <2>5. next[p] \in Nat /\ LogLen[p] \in Nat /\ next[p] < LogLen[p]
    BY <1>0, <1>2, GroupAssumption DEF FetchFrom
  <2>3. next[p] + 1 <= LogLen[p]
    BY <2>5
  <2>4. \A q \in Partitions : next'[q] <= LogLen[q]
    BY <1>0, <2>2, <2>3
  <2> QED
    BY <1>0, <1>2, <2>1, <2>2, <2>4 DEF FetchFrom, Goto
<1>3. ASSUME NEW m \in Members, CommitOk(m) PROVE TypeOK'
  <2>1. cur[m] \in Message
    BY <1>0, <1>3 DEF CommitOk, Place, Working
  <2>2. stale' \in BOOLEAN
    BY <1>0, <1>3, Zenon DEF CommitOk, SendCommit
  <2> QED
    BY <1>0, <1>3, <2>1, <2>2, CommittedType DEF CommitOk, Goto
<1>4. ASSUME NEW m \in Members, NEW place \in Places, GiveUp(m, place)
      PROVE  TypeOK'
  <2>1. cur[m] \in Message
    BY <1>0, <1>4 DEF GiveUp, Place, Working
  <2>2. /\ committed' \in [Partitions -> Nat]
        /\ \A p \in Partitions : committed'[p] <= LogLen[p]
    BY <1>0, <1>4, <2>1, CommittedType DEF GiveUp, MayCommit
  <2>3. stale' \in BOOLEAN
    BY <1>0, <1>4, Zenon DEF GiveUp, MayCommit, SendCommit
  <2> QED
    BY <1>0, <1>4, <2>1, <2>2, <2>3 DEF GiveUp, Goto, Drop
<1>5. ASSUME NEW m \in Members, Show(m) PROVE TypeOK'
  <2>1. /\ printed'[m] \in Seq(Message) /\ Len(printed'[m]) = Len(printed[m]) + 1
        /\ \A k \in Members : k # m => printed'[k] = printed[k]
    BY <1>0, <1>5, Sequences, AppendProperties DEF Show, Working
  <2>2. printed' \in [Members -> Seq(Message)]
    BY <1>0, <1>5, <2>1 DEF Show
  <2>3. \A k \in Members : rx[k] <= Len(printed'[k])
    <3>1. rx[m] <= Len(printed[m]) /\ rx[m] \in Nat /\ Len(printed[m]) \in Nat
      BY <1>0, LenProperties
    <3>2. rx[m] <= Len(printed[m]) + 1
      BY <3>1
    <3> QED
      BY <1>0, <2>1, <3>2
  <2> QED
    BY <1>0, <1>5, <2>2, <2>3 DEF Show, Goto
<1>6. ASSUME NEW m \in Members, Count(m) PROVE TypeOK'
  <2>1. \A k \in Members : rx'[k] <= Len(printed[k])
    BY <1>0, <1>6, LenProperties DEF Count, Counted
  <2>2. run' \in [Members -> BOOLEAN]
    BY <1>0, <1>6 DEF Count
  <2> QED
    BY <1>0, <1>6, <2>1, <2>2 DEF Count, Goto
<1>7. ASSUME NEW m \in Members, NEW place \in Places, Quiet(m, place)
      PROVE  TypeOK'
  BY <1>0, <1>7 DEF Quiet, Goto
<1>8. CASE UNCHANGED vars
  BY <1>0, <1>8 DEF vars
<1> QED
  BY <1>0, <1>1, <1>2, <1>3, <1>4, <1>5, <1>6, <1>7, <1>8, Steps DEF Acts

-----------------------------------------------------------------------------
(***************************************************************************)
(* What a process works on or has printed it read in this generation, up   *)
(* to the current position, or in an earlier one.                          *)
(***************************************************************************)
LEMMA StaysSeen ==
  ASSUME TypeOK, NEW x \in Message, Seen(x, gen, next),
         \/ gen' = gen + 1
         \/ gen' = gen /\ \A p \in Partitions : next'[p] \in Nat /\ next'[p] >= next[p]
  PROVE  Seen(x, gen', next')
<1>1. x.p \in Partitions /\ x.n \in Nat /\ x.gen \in Nat
  BY Fields
<1>2. next[x.p] \in Nat /\ gen \in Nat
  BY <1>1 DEF TypeOK
<1> QED
  BY <1>1, <1>2 DEF Seen

LEMMA PlaceStep == IInv /\ [Next]_vars => Place'
<1> SUFFICES ASSUME IInv, [Next]_vars PROVE Place'
  OBVIOUS
<1>0. TypeOK /\ Place
  BY DEF IInv
<1>a. \A k \in Members : \A i \in DOMAIN Out(k) :
        Out(k)[i] \in Message /\ Seen(Out(k)[i], gen, next)
  BY <1>0, Elements DEF Place
<1> DEFINE Still == \A x \in Message : Seen(x, gen, next) => Seen(x, gen', next')
<1>b. ASSUME UNCHANGED <<gen, next>> PROVE Still
  BY <1>b
<1> HIDE DEF Still
<1>c. ASSUME Still, \A k \in Members : /\ Out(k)' = Out(k)
                                       /\ pc'[k] \in Working => cur'[k] \in Message
      PROVE  Place'
  <2>1. \A k \in Members : \A i \in DOMAIN Out(k)' : Seen(Out(k)'[i], gen', next')
    BY <1>a, <1>c DEF Still
  <2> QED
    BY <1>c, <2>1 DEF Place
<1>1. CASE Assign
  <2>1. Still
    BY <1>0, <1>1, StaysSeen DEF Assign, Still
  <2>2. \A k \in Members : Out(k)' = Out(k)
    BY <1>1, AssignKeeps DEF Kept
  <2>3. pc' = pc /\ cur' = cur
    BY <1>1 DEF Assign
  <2> QED
    BY <1>0, <1>c, <2>1, <2>2, <2>3 DEF Place
<1>2. ASSUME NEW m \in Members, NEW p \in Partitions, FetchFrom(m, p)
      PROVE  Place'
  <2>1. /\ gen' = gen /\ pc'[m] = "commit" /\ cur'[m] = Fresh(p)
        /\ \A q \in Partitions : next'[q] \in Nat /\ next'[q] >= next[q]
        /\ next'[p] = next[p] + 1
        /\ \A k \in Members : k # m => pc'[k] = pc[k] /\ cur'[k] = cur[k]
    BY <1>0, <1>2 DEF FetchFrom, Goto, TypeOK, group
  <2>2. /\ Fresh(p) \in Message /\ Out(m)' = Append(Out(m), Fresh(p))
        /\ \A k \in Members : k # m => Out(k)' = Out(k)
    BY <1>0, <1>2, FetchAdds DEF Kept
  <2>3. Seen(Fresh(p), gen', next')
    BY <1>0, <2>1 DEF Seen, Fresh, TypeOK
  <2>4. Still
    BY <1>0, <2>1, StaysSeen DEF Still
  <2>5. \A i \in DOMAIN Out(m)' : Seen(Out(m)'[i], gen', next')
    BY <1>0, <1>a, <2>2, <2>3, <2>4, Sequences, Grows DEF Still
  <2>6. \A k \in Members : \A i \in DOMAIN Out(k)' : Seen(Out(k)'[i], gen', next')
    BY <1>a, <2>2, <2>4, <2>5 DEF Still
  <2> QED
    BY <1>0, <2>1, <2>2, <2>6 DEF Place
<1>3. ASSUME NEW m \in Members, CommitOk(m) PROVE Place'
  <2>1. UNCHANGED <<gen, next>> /\ \A k \in Members : Out(k)' = Out(k)
    BY <1>0, <1>3, CommitAdds DEF CommitOk, group, Kept
  <2>2. \A k \in Members : pc'[k] \in Working => cur'[k] \in Message
    BY <1>0, <1>3 DEF CommitOk, Goto, Place, Working, TypeOK
  <2> QED
    BY <1>b, <1>c, <2>1, <2>2
<1>4. ASSUME NEW m \in Members, NEW place \in Places, GiveUp(m, place)
      PROVE  Place'
  <2>1. UNCHANGED <<gen, next>> /\ Still
    BY <1>b, <1>4 DEF GiveUp, group
  <2>2. /\ Out(m)' = printed[m] /\ Out(m) = Append(printed[m], cur[m])
        /\ \A k \in Members : k # m => Out(k)' = Out(k)
    BY <1>0, <1>4, GiveUpTakesBack DEF Kept
  <2>3. cur[m] \in Message
    BY <1>0, <1>4 DEF GiveUp, Place, Working
  <2>4. \A i \in DOMAIN printed[m] : i \in DOMAIN Out(m) /\ Out(m)[i] = printed[m][i]
    BY <1>0, <2>2, <2>3, Sequences, Grows
  <2>5. \A k \in Members : \A i \in DOMAIN Out(k)' : Seen(Out(k)'[i], gen', next')
    BY <1>a, <2>1, <2>2, <2>4 DEF Still
  <2>6. \A k \in Members : pc'[k] \in Working => cur'[k] \in Message
    BY <1>0, <1>4 DEF GiveUp, Goto, Drop, Place, Working, TypeOK
  <2> QED
    BY <2>5, <2>6 DEF Place
<1>5. ASSUME NEW m \in Members, Show(m) PROVE Place'
  <2>1. UNCHANGED <<gen, next>> /\ \A k \in Members : Out(k)' = Out(k)
    BY <1>0, <1>5, PrintKeeps DEF Show, group, Kept
  <2>2. \A k \in Members : pc'[k] \in Working => cur'[k] \in Message
    BY <1>0, <1>5 DEF Show, Goto, Place, Working, TypeOK
  <2> QED
    BY <1>b, <1>c, <2>1, <2>2
<1>6. ASSUME NEW m \in Members, Count(m) PROVE Place'
  <2>1. UNCHANGED <<gen, next>> /\ \A k \in Members : Out(k)' = Out(k)
    BY <1>0, <1>6, CountKeeps DEF Count, group, Kept
  <2>2. \A k \in Members : pc'[k] \in Working => cur'[k] \in Message
    BY <1>0, <1>6 DEF Count, Goto, Place, Working, TypeOK
  <2> QED
    BY <1>b, <1>c, <2>1, <2>2
<1>7. ASSUME NEW m \in Members, NEW place \in Places, Quiet(m, place)
      PROVE  Place'
  <2>1. UNCHANGED <<gen, next>> /\ \A k \in Members : Out(k)' = Out(k)
    BY <1>0, <1>7, QuietKeeps DEF Quiet, group, Kept
  <2>2. \A k \in Members : pc'[k] \in Working => cur'[k] \in Message
    BY <1>0, <1>7 DEF Quiet, Goto, Place, Working, TypeOK
  <2> QED
    BY <1>b, <1>c, <2>1, <2>2
<1>8. CASE UNCHANGED vars
  <2>1. UNCHANGED <<gen, next, pc, cur>> /\ \A k \in Members : Out(k)' = Out(k)
    BY <1>8 DEF vars, group, Out, Past
  <2> QED
    BY <1>0, <1>b, <1>c, <2>1 DEF Place
<1> QED
  BY <1>0, <1>1, <1>2, <1>3, <1>4, <1>5, <1>6, <1>7, <1>8, Steps DEF Acts

-----------------------------------------------------------------------------
(***************************************************************************)
(* Every step keeps the order within a generation: a message fetched comes *)
(* after all that were fetched of its partition in its generation.         *)
(***************************************************************************)
LEMMA OutSteps ==
  ASSUME TypeOK, [Next]_vars
  PROVE  \/ \A k \in Members : Out(k)' = Out(k)
         \/ \E m \in Members, p \in Partitions : FetchFrom(m, p)
         \/ \E m \in Members, place \in Places : GiveUp(m, place)
<1>1. CASE UNCHANGED vars
  BY <1>1 DEF vars, Out, Past
<1>2. ASSUME NEW m \in Members, CommitOk(m) \/ Show(m) \/ Count(m)
      PROVE  \A k \in Members : Out(k)' = Out(k)
  BY <1>2, CommitAdds, PrintKeeps, CountKeeps DEF Kept
<1>3. ASSUME NEW m \in Members, NEW place \in Places, Quiet(m, place)
      PROVE  \A k \in Members : Out(k)' = Out(k)
  BY <1>3, QuietKeeps DEF Kept
<1>4. CASE Assign
  BY <1>4, AssignKeeps DEF Kept
<1> QED
  BY <1>1, <1>2, <1>3, <1>4, Steps DEF Acts

LEMMA OrderStep == IInv /\ [Next]_vars => Order'
<1> SUFFICES ASSUME IInv, [Next]_vars PROVE Order'
  OBVIOUS
<1>0. TypeOK /\ Place /\ Order
  BY DEF IInv
<1>1. CASE \A k \in Members : Out(k)' = Out(k)
  BY <1>0, <1>1 DEF Order
<1>2. ASSUME NEW m \in Members, NEW p \in Partitions, FetchFrom(m, p)
      PROVE  Order'
  <2> DEFINE x == Fresh(p)
  <2>1. /\ x \in Message /\ Out(m)' = Append(Out(m), x) /\ Out(m) \in Seq(Message)
        /\ \A k \in Members : k # m => Out(k)' = Out(k)
    BY <1>0, <1>2, FetchAdds, Sequences DEF Kept
  <2>2. \A k \in Members : \A i \in DOMAIN Out(k) :
          Ordered(Out(k)[i], x) /\ Apart(Out(k)[i], x) /\ Apart(x, Out(k)[i])
    <3>1. SUFFICES ASSUME NEW k \in Members, NEW i \in DOMAIN Out(k),
                          Out(k)[i].p = p, Out(k)[i].gen = gen
                   PROVE  Out(k)[i].n < next[p] + 1
      <4>1. x.p = p /\ x.gen = gen /\ x.n = next[p] + 1
        BY DEF Fresh
      <4>2. ASSUME NEW k \in Members, NEW i \in DOMAIN Out(k)
            PROVE  Out(k)[i].n \in Nat /\ next[p] \in Nat
        BY <1>0, Elements, Fields DEF TypeOK
      <4> QED
        BY <4>1, <4>2 DEF Ordered, Apart
    <3>2. Seen(Out(k)[i], gen, next)
      BY <1>0 DEF Place
    <3>3. Out(k)[i] \in Message /\ next[p] \in Nat
      BY <1>0, Elements DEF TypeOK
    <3> QED
      BY <3>1, <3>2, <3>3, Fields DEF Seen
  <2> HIDE DEF x
  <2> DEFINE t == Out(m)'
  <2>3. /\ \A i \in DOMAIN Out(m) : t[i] = Out(m)[i] /\ i \in Nat /\ i < Len(t)
        /\ \A i \in DOMAIN t : i \in Nat /\ (i \in DOMAIN Out(m) \/ i = Len(t))
        /\ t[Len(t)] = x
    BY <2>1, Grows
  <2>4. \A i, j \in DOMAIN t : i < j => Ordered(t[i], t[j])
    <3> SUFFICES ASSUME NEW i \in DOMAIN t, NEW j \in DOMAIN t, i < j
                 PROVE  Ordered(t[i], t[j])
      OBVIOUS
    <3>1. i \in DOMAIN Out(m)
      <4>1. i \in Nat /\ j \in Nat /\ (j = Len(t) \/ j < Len(t)) /\ Len(t) \in Nat
        <5>1. t \in Seq(Message)
          BY <2>1, AppendProperties
        <5> QED
          BY <2>3, <5>1, LenProperties
      <4>2. i # Len(t)
        BY <4>1
      <4> QED
        BY <2>3, <4>2
    <3>2. CASE j \in DOMAIN Out(m)
      BY <1>0, <2>3, <3>1, <3>2 DEF Order
    <3>3. CASE j = Len(t)
      BY <2>2, <2>3, <3>1, <3>3
    <3> QED
      BY <2>3, <3>2, <3>3
  <2>5. \A k \in Members : k # m =>
          \A i \in DOMAIN t, j \in DOMAIN Out(k) :
            Apart(t[i], Out(k)[j]) /\ Apart(Out(k)[j], t[i])
    BY <1>0, <2>2, <2>3 DEF Order
  <2> HIDE DEF t
  <2>6. \A k \in Members : \A i, j \in DOMAIN Out(k)' :
          i < j => Ordered(Out(k)'[i], Out(k)'[j])
    BY <1>0, <2>1, <2>4 DEF Order, t
  <2>7. \A k, l \in Members : k # l =>
          \A i \in DOMAIN Out(k)', j \in DOMAIN Out(l)' : Apart(Out(k)'[i], Out(l)'[j])
    <3> SUFFICES ASSUME NEW k \in Members, NEW l \in Members, k # l
                 PROVE  \A i \in DOMAIN Out(k)', j \in DOMAIN Out(l)' :
                          Apart(Out(k)'[i], Out(l)'[j])
      OBVIOUS
    <3>1. CASE k = m
      BY <2>1, <2>5, <3>1 DEF t
    <3>2. CASE l = m
      BY <2>1, <2>5, <3>2 DEF t
    <3>3. CASE k # m /\ l # m
      BY <1>0, <2>1, <3>3 DEF Order
    <3> QED
      BY <3>1, <3>2, <3>3
  <2> QED
    BY <2>6, <2>7 DEF Order
<1>3. ASSUME NEW m \in Members, NEW place \in Places, GiveUp(m, place)
      PROVE  Order'
  <2>1. /\ Out(m)' = printed[m] /\ Out(m) = Append(printed[m], cur[m])
        /\ \A k \in Members : k # m => Out(k)' = Out(k)
    BY <1>0, <1>3, GiveUpTakesBack DEF Kept
  <2>2. cur[m] \in Message
    BY <1>0, <1>3 DEF GiveUp, Place, Working
  <2>3. \A i \in DOMAIN printed[m] : i \in DOMAIN Out(m) /\ Out(m)[i] = printed[m][i]
    BY <1>0, <2>1, <2>2, Sequences, Grows
  <2>4. \A k \in Members : \A i \in DOMAIN Out(k)' :
          i \in DOMAIN Out(k) /\ Out(k)[i] = Out(k)'[i]
    BY <2>1, <2>3
  <2> QED
    BY <1>0, <2>4 DEF Order
<1> QED
  BY <1>0, <1>1, <1>2, <1>3, OutSteps

-----------------------------------------------------------------------------
(***************************************************************************)
(* What is accounted for stays so: a message leaves the output of a        *)
(* process only for the messages given up.                                 *)
(***************************************************************************)
LEMMA StaysAccounted ==
  ASSUME TypeOK, Place, [Next]_vars, NEW p, NEW n, Accounted(p, n)
  PROVE  Accounted(p, n)'
<1>0. dropped \subseteq dropped'
  BY Steps DEF Acts, Assign, FetchFrom, CommitOk, GiveUp, Drop, Show, Count, Quiet,
               hist, vars
<1>1. CASE \E x \in dropped : Is(x, p, n)
  BY <1>0, <1>1 DEF Accounted
<1>2. ASSUME NEW k \in Members, NEW i \in DOMAIN Out(k), Is(Out(k)[i], p, n)
      PROVE  Accounted(p, n)'
  <2>1. CASE Out(k)' = Out(k)
    BY <1>2, <2>1 DEF Accounted, Is
  <2>2. ASSUME NEW q \in Partitions, FetchFrom(k, q) PROVE Accounted(p, n)'
    <3>1. i \in DOMAIN Out(k)' /\ Out(k)'[i] = Out(k)[i]
      BY <2>2, FetchAdds, Sequences, Grows
    <3> QED
      BY <1>2, <3>1 DEF Accounted, Is
  <2>3. ASSUME NEW place \in Places, GiveUp(k, place) PROVE Accounted(p, n)'
    <3>1. Out(k)' = printed[k] /\ Out(k) = Append(printed[k], cur[k])
      BY <2>3, GiveUpTakesBack
    <3>2. cur[k] \in Message /\ printed[k] \in Seq(Message)
      BY <2>3, Sequences DEF GiveUp, Working
    <3>3. \/ i \in DOMAIN printed[k] /\ Out(k)[i] = printed[k][i]
          \/ Out(k)[i] = cur[k]
      BY <3>1, <3>2, Grows
    <3>4. CASE i \in DOMAIN printed[k] /\ Out(k)[i] = printed[k][i]
      BY <1>2, <3>1, <3>4 DEF Accounted, Is
    <3>5. CASE Out(k)[i] = cur[k]
      BY <1>2, <2>3, <3>5 DEF Accounted, Is, GiveUp, Drop
    <3> QED
      BY <3>3, <3>4, <3>5
  <2>4. ASSUME NEW m \in Members, NEW q \in Partitions, FetchFrom(m, q), m # k
        PROVE  Out(k)' = Out(k)
    BY <2>4, FetchAdds DEF Kept
  <2>5. ASSUME NEW m \in Members, NEW place \in Places, GiveUp(m, place), m # k
        PROVE  Out(k)' = Out(k)
    BY <2>5, GiveUpTakesBack DEF Kept
  <2> QED
    BY <2>1, <2>2, <2>3, <2>4, <2>5, OutSteps
<1> QED
  BY <1>1, <1>2 DEF Accounted

(***************************************************************************)
(* Every step keeps the accounts: the group reads on from a committed      *)
(* offset, a fetch goes one message further than what is accounted for,    *)
(* and a commit no further than the message it is made for.                *)
(***************************************************************************)
LEMMA CoveredStep == IInv /\ [Next]_vars => Covered'
<1> SUFFICES ASSUME IInv, [Next]_vars PROVE Covered'
  OBVIOUS
<1>0. TypeOK /\ Place /\ Covered
  BY DEF IInv
<1>a. \A p, n : UpTo(p, n) => \A k \in 1..n : Accounted(p, k)'
  BY <1>0, StaysAccounted DEF UpTo
<1> DEFINE Safe(p, n) == \A k \in 1..n : Accounted(p, k)'
<1>b. /\ \A p \in Partitions : Safe(p, committed[p]) /\ Safe(p, next[p])
      /\ \A m \in Members : pc[m] = "commit" =>
           \A p : p = cur[m].p => Safe(p, cur[m].n)
  BY <1>0, <1>a DEF Covered
<1>c. ASSUME \A p \in Partitions : Safe(p, committed'[p]) /\ Safe(p, next'[p]),
             \A m \in Members : pc'[m] = "commit" =>
               \A p : p = cur'[m].p => Safe(p, cur'[m].n)
      PROVE  Covered'
  BY <1>c DEF Covered, UpTo, Accounted
<1> HIDE DEF Safe
<1>d. ASSUME NEW m \in Members, pc[m] = "commit",
             committed' \in {committed, Committed(m)}
      PROVE  \A p \in Partitions : Safe(p, committed'[p])
  <2>1. cur[m].p \in Partitions
    BY <1>0, <1>d, Fields DEF Place, Working
  <2>2. \A p \in Partitions : \/ committed'[p] = committed[p]
                              \/ p = cur[m].p /\ committed'[p] = cur[m].n
    <3>1. \A p \in Partitions :
            Committed(m)[p] = IF p = cur[m].p THEN cur[m].n ELSE committed[p]
      BY <1>0, <2>1 DEF Committed, TypeOK
    <3> QED
      BY <1>d, <3>1
  <2> QED
    BY <1>b, <1>d, <2>2
<1>1. CASE Assign
  BY <1>1, <1>b, <1>c DEF Assign
<1>2. ASSUME NEW m \in Members, NEW p \in Partitions, FetchFrom(m, p)
      PROVE  Covered'
  <2>1. /\ committed' = committed /\ pc'[m] = "commit" /\ cur'[m] = Fresh(p)
        /\ next'[p] = next[p] + 1
        /\ \A q \in Partitions : q # p => next'[q] = next[q]
        /\ \A k \in Members : k # m => pc'[k] = pc[k] /\ cur'[k] = cur[k]
    BY <1>0, <1>2 DEF FetchFrom, Goto, TypeOK
  <2>2. Fresh(p) \in Message /\ Out(m)' = Append(Out(m), Fresh(p))
        /\ Out(m) \in Seq(Message)
    BY <1>0, <1>2, FetchAdds, Sequences
  <2>3. \A n : n = next[p] + 1 => Accounted(p, n)'
    <3>1. PICK i \in DOMAIN Out(m)' : Out(m)'[i] = Fresh(p)
      BY <2>2, Grows
    <3> QED
      BY <3>1 DEF Accounted, Is, Fresh
  <2>4. Safe(p, next'[p])
    <3>1. next[p] \in Nat
      BY <1>0 DEF TypeOK
    <3>2. \A k \in 1..(next[p] + 1) : k \in 1..next[p] \/ k = next[p] + 1
      BY <3>1
    <3> QED
      BY <1>b, <2>1, <2>3, <3>2 DEF Safe
  <2>5. Fresh(p).p = p /\ Fresh(p).n = next[p] + 1
    BY DEF Fresh
  <2> QED
    BY <1>b, <1>c, <2>1, <2>4, <2>5
<1>3. ASSUME NEW m \in Members, CommitOk(m) PROVE Covered'
  <2>1. /\ next' = next /\ cur' = cur /\ pc[m] = "commit"
        /\ committed' = Committed(m)
        /\ \A k \in Members : pc'[k] = "commit" => pc[k] = "commit"
    BY <1>0, <1>3 DEF CommitOk, Goto, TypeOK
  <2> QED
    BY <1>b, <1>c, <1>d, <2>1
<1>4. ASSUME NEW m \in Members, NEW place \in Places, GiveUp(m, place)
      PROVE  Covered'
  <2>1. /\ next' = next /\ pc'[m] # "commit"
        /\ \A k \in Members : k # m => pc'[k] = pc[k] /\ cur'[k] = cur[k]
    BY <1>0, <1>4 DEF GiveUp, Goto, Drop, TypeOK
  <2>2. \A p \in Partitions : Safe(p, committed'[p])
    BY <1>b, <1>d, <1>4 DEF GiveUp, MayCommit
  <2> QED
    BY <1>b, <1>c, <2>1, <2>2
<1>5. ASSUME NEW m \in Members,
             Show(m) \/ Count(m) \/ \E place \in Places : Quiet(m, place)
      PROVE  Covered'
  <2>1. /\ next' = next /\ committed' = committed
        /\ \A k \in Members : pc'[k] = "commit" => pc[k] = "commit" /\ cur'[k] = cur[k]
    BY <1>0, <1>5 DEF Show, Count, Quiet, Goto, TypeOK
  <2> QED
    BY <1>b, <1>c, <2>1
<1>6. CASE UNCHANGED vars
  BY <1>6, <1>b, <1>c DEF vars
<1> QED
  BY <1>0, <1>1, <1>2, <1>3, <1>4, <1>5, <1>6, Steps DEF Acts

-----------------------------------------------------------------------------
(***************************************************************************)
(* As long as no commit comes late, every step keeps the committed offsets *)
(* between what is done and what is about to be.                           *)
(***************************************************************************)
LEMMA InHandSeen ==
  ASSUME TypeOK, Place, NEW m \in Members, pc[m] = "commit"
  PROVE  cur[m] \in Message /\ Seen(cur[m], gen, next)
<1>1. cur[m] \in Message /\ printed[m] \in Seq(Message)
  BY Sequences DEF Working
<1>2. Out(m) = Append(printed[m], cur[m])
  BY DEF Out, Past
<1>3. \E i \in DOMAIN Out(m) : Out(m)[i] = cur[m]
  BY <1>1, <1>2, Grows
<1> QED
  BY <1>1, <1>3 DEF Place

(***************************************************************************)
(* A commit that is not late is made by the owner of the partition, for a  *)
(* message above the committed offset; nobody else has one to make there.  *)
(***************************************************************************)
LEMMA CommitMoves ==
  ASSUME TypeOK, Place, Forward, ~stale', NEW m \in Members, pc[m] = "commit",
         SendCommit(m), committed' \in {committed, Committed(m)}
  PROVE  /\ \A p \in Partitions : committed'[p] \in Nat /\ committed[p] <= committed'[p]
                                  /\ committed'[p] <= next[p]
         /\ \A k \in Members : k # m /\ pc[k] = "commit" /\ cur[k].gen = gen =>
              committed'[cur[k].p] = committed[cur[k].p]
         /\ committed[cur[m].p] < cur[m].n
<1> DEFINE x == cur[m]
<1>1. x \in Message /\ Seen(x, gen, next)
  BY InHandSeen
<1>2. x.p \in Partitions /\ x.n \in Nat
  BY <1>1, Fields
<1>3. x.gen = gen
  BY DEF SendCommit
<1>4. owner[x.p] = m /\ committed[x.p] < x.n /\ x.n <= next[x.p]
  BY <1>1, <1>3 DEF Forward, Ahead, Seen
<1> HIDE DEF x
<1>5. \A p \in Partitions :
        Committed(m)[p] = IF p = x.p THEN x.n ELSE committed[p]
  BY <1>2 DEF Committed, TypeOK, x
<1>6. \A p \in Partitions : \/ committed'[p] = committed[p]
                            \/ p = x.p /\ committed'[p] = x.n
  BY <1>5
<1>7. \A p \in Partitions : committed[p] \in Nat /\ committed[p] <= next[p]
  BY DEF Forward, TypeOK
<1>8. \A p \in Partitions : committed'[p] \in Nat /\ committed[p] <= committed'[p]
                            /\ committed'[p] <= next[p]
  <2> SUFFICES ASSUME NEW p \in Partitions
               PROVE  committed'[p] \in Nat /\ committed[p] <= committed'[p]
                      /\ committed'[p] <= next[p]
    OBVIOUS
  <2>1. CASE committed'[p] = committed[p]
    BY <1>7, <2>1
  <2>2. CASE p = x.p /\ committed'[p] = x.n
    BY <1>2, <1>4, <1>7, <2>2
  <2> QED
    BY <1>6, <2>1, <2>2
<1>9. ASSUME NEW k \in Members, k # m, pc[k] = "commit", cur[k].gen = gen
      PROVE  committed'[cur[k].p] = committed[cur[k].p]
  <2>1. owner[cur[k].p] = k /\ cur[k].p \in Partitions
    BY <1>9, InHandSeen, Fields DEF Forward, Ahead
  <2> QED
    BY <1>4, <1>6, <1>9, <2>1
<1> QED
  BY <1>4, <1>8, <1>9 DEF x

(***************************************************************************)
(* Where nothing becomes done, the offsets may only grow.                  *)
(***************************************************************************)
LEMMA ForwardKept ==
  ASSUME TypeOK, Place, Forward, Ahead',
         \A p \in Partitions : /\ committed'[p] \in Nat
                               /\ committed[p] <= committed'[p]
                               /\ committed'[p] <= next'[p],
         \A k \in Members : \A i \in DOMAIN Done(k)' :
           i \in DOMAIN Done(k) /\ Done(k)'[i] = Done(k)[i]
  PROVE  Forward'
<1>1. \A k \in Members : \A i \in DOMAIN Done(k)' :
        Done(k)'[i].n <= committed'[Done(k)'[i].p]
  <2> SUFFICES ASSUME NEW k \in Members, NEW i \in DOMAIN Done(k)
               PROVE  Done(k)[i].n <= committed'[Done(k)[i].p]
    OBVIOUS
  <2>1. Done(k)[i].n \in Nat /\ Done(k)[i].p \in Partitions
    BY Elements, Fields
  <2>2. Done(k)[i].n <= committed[Done(k)[i].p] /\ committed[Done(k)[i].p] \in Nat
    BY <2>1 DEF Forward, Behind, TypeOK
  <2> QED
    BY <2>1, <2>2
<1>2. Distinct'
  BY DEF Forward, Distinct, Is
<1> QED
  BY <1>1, <1>2 DEF Forward, Behind

LEMMA OnceStep == IInv /\ [Next]_vars => Once'
<1> SUFFICES ASSUME IInv, [Next]_vars, ~stale' PROVE Forward'
  BY DEF Once
<1>0. TypeOK /\ Place
  BY DEF IInv
<1>1. ~stale
  BY <1>0, Steps, Zenon DEF Acts, Assign, FetchFrom, CommitOk, GiveUp, MayCommit,
     SendCommit, Show, Count, Quiet, hist, vars
<1>2. Forward
  BY <1>1 DEF IInv, Once
<1>3. \A p \in Partitions : committed[p] \in Nat /\ next[p] \in Nat
                            /\ committed[p] <= next[p]
  BY <1>0, <1>2 DEF TypeOK, Forward
<1>4. CASE Assign
  <2>1. \A k \in Members : Done(k)' = Done(k)
    BY <1>4, AssignKeeps DEF Kept
  <2>2. /\ committed' = committed /\ next' = committed /\ gen' = gen + 1
        /\ pc' = pc /\ cur' = cur
    BY <1>4 DEF Assign
  <2>3. \A m \in Members : pc[m] = "commit" => cur[m].gen # gen + 1
    BY <1>0, InHandSeen, Fields DEF Seen, TypeOK
  <2>4. Ahead'
    BY <2>2, <2>3 DEF Ahead
  <2> QED
    BY <1>0, <1>2, <1>3, <2>1, <2>2, <2>4, ForwardKept
<1>5. ASSUME NEW m \in Members, NEW p \in Partitions, FetchFrom(m, p)
      PROVE  Forward'
  <2>1. \A k \in Members : Done(k)' = Done(k)
    BY <1>0, <1>5, FetchAdds DEF Kept
  <2>2. /\ committed' = committed /\ owner' = owner /\ gen' = gen /\ owner[p] = m
        /\ cur'[m] = Fresh(p)
        /\ next'[p] = next[p] + 1
        /\ \A q \in Partitions : q # p => next'[q] = next[q]
        /\ \A k \in Members : k # m => pc'[k] = pc[k] /\ cur'[k] = cur[k]
    BY <1>0, <1>5 DEF FetchFrom, Goto, TypeOK, group
  <2>3. committed[p] < next[p] + 1
    BY <1>3
  <2>4. Ahead'
    BY <1>2, <2>2, <2>3 DEF Forward, Ahead, Fresh
  <2>5. \A q \in Partitions : committed[q] <= next'[q]
    BY <1>3, <2>2
  <2> QED
    BY <1>0, <1>2, <1>3, <2>1, <2>2, <2>4, <2>5, ForwardKept
<1>6. ASSUME NEW m \in Members, NEW place \in Places, GiveUp(m, place)
      PROVE  Forward'
  <2>1. /\ owner' = owner /\ gen' = gen /\ next' = next /\ pc'[m] # "commit"
        /\ \A k \in Members : k # m => pc'[k] = pc[k] /\ cur'[k] = cur[k]
    BY <1>0, <1>6 DEF GiveUp, Goto, Drop, TypeOK, group
  <2>2. /\ \A q \in Partitions : /\ committed'[q] \in Nat
                                 /\ committed[q] <= committed'[q]
                                 /\ committed'[q] <= next[q]
        /\ \A k \in Members : k # m /\ pc[k] = "commit" /\ cur[k].gen = gen =>
             committed'[cur[k].p] = committed[cur[k].p]
    <3>1. CASE committed' = committed
      BY <1>3, <3>1
    <3>2. CASE pc[m] = "commit" /\ SendCommit(m) /\ committed' \in {committed, Committed(m)}
      BY <1>0, <1>2, <3>2, CommitMoves
    <3> QED
      BY <1>6, <3>1, <3>2 DEF GiveUp, MayCommit
  <2>3. Ahead'
    BY <1>2, <2>1, <2>2 DEF Forward, Ahead
  <2>4. /\ Done(m)' = printed[m]
        /\ Done(m) = printed[m] \/ Done(m) = Append(printed[m], cur[m])
        /\ \A k \in Members : k # m => Done(k)' = Done(k)
    BY <1>0, <1>6, GiveUpTakesBack DEF Kept
  <2>5. cur[m] \in Message /\ printed[m] \in Seq(Message)
    BY <1>0, <1>6, Sequences DEF GiveUp, Working
  <2>6. \A i \in DOMAIN printed[m] : i \in DOMAIN Done(m) /\ Done(m)[i] = printed[m][i]
    BY <2>4, <2>5, Grows
  <2>7. \A k \in Members : \A i \in DOMAIN Done(k)' :
          i \in DOMAIN Done(k) /\ Done(k)'[i] = Done(k)[i]
    BY <2>4, <2>6
  <2> QED
    BY <1>0, <1>2, <2>1, <2>2, <2>3, <2>7, ForwardKept
<1>7. ASSUME NEW m \in Members, CommitOk(m) PROVE Forward'
  <2> DEFINE x == cur[m]
  <2>1. /\ owner' = owner /\ gen' = gen /\ next' = next /\ cur' = cur
        /\ pc[m] = "commit" /\ pc'[m] = "print" /\ SendCommit(m)
        /\ committed' = Committed(m)
        /\ \A k \in Members : k # m => pc'[k] = pc[k]
    BY <1>0, <1>7 DEF CommitOk, Goto, TypeOK, group
  <2>2. /\ \A q \in Partitions : /\ committed'[q] \in Nat
                                 /\ committed[q] <= committed'[q]
                                 /\ committed'[q] <= next[q]
        /\ \A k \in Members : k # m /\ pc[k] = "commit" /\ cur[k].gen = gen =>
             committed'[cur[k].p] = committed[cur[k].p]
        /\ committed[x.p] < x.n
    BY <1>0, <1>2, <2>1, CommitMoves
  <2>3. Ahead'
    BY <1>2, <2>1, <2>2 DEF Forward, Ahead
  <2>4. /\ Done(m)' = Append(Done(m), x) /\ Done(m) \in Seq(Message)
        /\ \A k \in Members : k # m => Done(k)' = Done(k)
    BY <1>0, <1>7, CommitAdds, Sequences DEF Kept
  <2>5. x \in Message /\ x.p \in Partitions /\ x.n \in Nat
    BY <1>0, <2>1, InHandSeen, Fields
  <2>6. committed'[x.p] = x.n
    BY <1>0, <2>1, <2>5 DEF Committed, TypeOK
  <2> HIDE DEF x
  <2> DEFINE t == Done(m)'
  <2>7. /\ \A i \in DOMAIN t : \/ i \in DOMAIN Done(m) /\ t[i] = Done(m)[i]
                               \/ i = Len(t) /\ t[i] = x
    BY <2>4, <2>5, Grows
  <2>8. \A k \in Members : \A i \in DOMAIN Done(k) :
          /\ Done(k)[i].n <= committed'[Done(k)[i].p]
          /\ ~Is(Done(k)[i], x.p, x.n) /\ ~Is(x, Done(k)[i].p, Done(k)[i].n)
    <3> SUFFICES ASSUME NEW k \in Members, NEW i \in DOMAIN Done(k)
                 PROVE  /\ Done(k)[i].n <= committed'[Done(k)[i].p]
                        /\ Done(k)[i].p = x.p => Done(k)[i].n # x.n
      BY DEF Is
    <3>1. Done(k)[i].n \in Nat /\ Done(k)[i].p \in Partitions
      BY <1>0, Elements, Fields
    <3>2. Done(k)[i].n <= committed[Done(k)[i].p]
      BY <1>2 DEF Forward, Behind
    <3> QED
      BY <1>3, <2>2, <2>5, <3>1, <3>2
  <2>9. Behind'
    <3>1. \A k \in Members : \A i \in DOMAIN Done(k)' :
            Done(k)'[i].n <= committed'[Done(k)'[i].p]
      BY <2>4, <2>5, <2>6, <2>7, <2>8
    <3> QED
      BY <3>1 DEF Behind
  <2>10. Distinct'
    <3>1. \A k, l \in Members : \A i \in DOMAIN Done(k)', j \in DOMAIN Done(l)' :
            Is(Done(k)'[i], Done(l)'[j].p, Done(l)'[j].n) => k = l /\ i = j
      <4> SUFFICES ASSUME NEW k \in Members, NEW l \in Members,
                          NEW i \in DOMAIN Done(k)', NEW j \in DOMAIN Done(l)',
                          Is(Done(k)'[i], Done(l)'[j].p, Done(l)'[j].n)
                   PROVE  k = l /\ i = j
        OBVIOUS
      <4>1. \/ i \in DOMAIN Done(k) /\ Done(k)'[i] = Done(k)[i]
            \/ k = m /\ i = Len(t) /\ Done(k)'[i] = x
        BY <2>4, <2>7
      <4>2. \/ j \in DOMAIN Done(l) /\ Done(l)'[j] = Done(l)[j]
            \/ l = m /\ j = Len(t) /\ Done(l)'[j] = x
        BY <2>4, <2>7
      <4> HIDE DEF t
      <4> QED
        BY <1>2, <2>8, <4>1, <4>2 DEF Forward, Distinct
    <3> QED
      BY <3>1 DEF Distinct, Is
  <2>11. \A p \in Partitions : committed'[p] <= next'[p]
    BY <2>1, <2>2
  <2> QED
    BY <2>3, <2>9, <2>10, <2>11 DEF Forward
<1>8. ASSUME NEW m \in Members,
             Show(m) \/ Count(m) \/ \E place \in Places : Quiet(m, place)
      PROVE  Forward'
  <2>1. \A k \in Members : Done(k)' = Done(k)
    BY <1>0, <1>8, PrintKeeps, CountKeeps, QuietKeeps DEF Kept
  <2>2. /\ UNCHANGED <<owner, gen, next, committed>>
        /\ \A k \in Members : pc'[k] = "commit" => pc[k] = "commit" /\ cur'[k] = cur[k]
    BY <1>0, <1>8 DEF Show, Count, Quiet, Goto, TypeOK, group
  <2>3. Ahead'
    BY <1>2, <2>2 DEF Forward, Ahead
  <2> QED
    BY <1>0, <1>2, <1>3, <2>1, <2>2, <2>3, ForwardKept
<1>9. CASE UNCHANGED vars
  BY <1>2, <1>9 DEF vars, group, Forward, Behind, Distinct, Ahead, Done, Past, Is
<1> QED
  BY <1>0, <1>4, <1>5, <1>6, <1>7, <1>8, <1>9, Steps DEF Acts

-----------------------------------------------------------------------------
(***************************************************************************)
(* Every step keeps the count, and stays below the limit or ends the loop. *)
(***************************************************************************)
LEMMA CountedStep == IInv /\ [Next]_vars => Counted'
<1> SUFFICES ASSUME IInv, [Next]_vars PROVE Counted'
  OBVIOUS
<1>0. TypeOK /\ Place /\ Counted
  BY DEF IInv
<1>a. \A k \in Members : rx[k] \in Nat /\ Len(printed[k]) \in Nat
  BY <1>0, LenProperties DEF TypeOK
<1> USE DEF Gone
<1>1. CASE Assign
  BY <1>0, <1>1 DEF Assign, Counted
<1>2. ASSUME NEW m \in Members, NEW p \in Partitions, FetchFrom(m, p)
      PROVE  Counted'
  BY <1>0, <1>2 DEF FetchFrom, Goto, Counted, TypeOK
<1>3. ASSUME NEW m \in Members, CommitOk(m) PROVE Counted'
  BY <1>0, <1>3 DEF CommitOk, Goto, Counted, TypeOK
<1>4. ASSUME NEW m \in Members, NEW place \in Places, GiveUp(m, place)
      PROVE  Counted'
  BY <1>0, <1>4 DEF GiveUp, Goto, Counted, TypeOK
<1>5. ASSUME NEW m \in Members, Show(m) PROVE Counted'
  <2>1. Len(printed'[m]) = Len(printed[m]) + 1
    BY <1>0, <1>5, Sequences, AppendProperties DEF Show, Working, TypeOK
  <2>2. /\ pc[m] \in {"print", "stalled"} /\ pc'[m] = "count" /\ rx' = rx
        /\ \A k \in Members : k # m => pc'[k] = pc[k] /\ printed'[k] = printed[k]
    BY <1>0, <1>5 DEF Show, Goto, TypeOK
  <2> QED
    BY <1>0, <1>a, <2>1, <2>2 DEF Counted
<1>6. ASSUME NEW m \in Members, Count(m) PROVE Counted'
  <2>1. /\ pc[m] = "count" /\ printed' = printed /\ rx'[m] = rx[m] + 1
        /\ \A k \in Members : k # m => pc'[k] = pc[k] /\ rx'[k] = rx[k]
    BY <1>0, <1>6 DEF Count, Goto, TypeOK
  <2>2. pc'[m] = IF Limit > 0 /\ rx[m] + 1 >= Limit THEN "close" ELSE "loop"
    BY <1>0, <1>6 DEF Count, Goto, TypeOK, LimitReached
  <2>3. Len(printed[m]) = rx[m] + 1 /\ (Limit > 0 => rx[m] < Limit)
    BY <1>0, <2>1 DEF Counted
  <2>4. Limit > 0 => \/ rx[m] + 1 < Limit
                     \/ rx[m] + 1 = Limit /\ pc'[m] = "close"
    BY <1>a, <2>2, <2>3, GroupAssumption
  <2> QED
    BY <1>0, <2>1, <2>2, <2>3, <2>4 DEF Counted
<1>7. ASSUME NEW m \in Members, NEW place \in Places, Quiet(m, place)
      PROVE  Counted'
  <2>1. /\ pc'[m] = place /\ rx' = rx /\ printed' = printed
        /\ \A k \in Members : k # m => pc'[k] = pc[k]
    BY <1>0, <1>7 DEF Quiet, Goto, TypeOK
  <2>2. /\ place = "count" => pc[m] = "count"
        /\ place # "crashed" => pc[m] # "crashed" /\ (place # "count" => pc[m] # "count")
        /\ pc[m] \in {"close"} \cup Gone => place \in {"close"} \cup Gone
    BY <1>7 DEF Quiet
  <2>3. pc[m] \notin {"count", "crashed"} => Len(printed[m]) = rx[m]
    BY <1>0 DEF Counted
  <2> QED
    BY <1>0, <2>1, <2>2, <2>3 DEF Counted
<1>8. CASE UNCHANGED vars
  BY <1>0, <1>8 DEF vars, Counted
<1> QED
  BY <1>0, <1>1, <1>2, <1>3, <1>4, <1>5, <1>6, <1>7, <1>8, Steps DEF Acts

-----------------------------------------------------------------------------
(***************************************************************************)
(* The invariant holds in every reachable state, whatever the rebalances,  *)
(* the deadlines, the errors and the crashes.                              *)
(***************************************************************************)
THEOREM Invariance == Spec => []IInv
<1>1. IInv /\ [Next]_vars => IInv'
  BY TypeStep, PlaceStep, OrderStep, CoveredStep, OnceStep, CountedStep DEF IInv
<1> QED
  BY InitInvariant, <1>1, PTL DEF Spec

(***************************************************************************)
(* The variables keep their types: a message in hand is one of the log,    *)
(* and no position runs past the end of its partition.                     *)
(***************************************************************************)
THEOREM TypeCorrect == Spec => []TypeOK
<1>1. IInv => TypeOK
  BY DEF IInv
<1> QED
  BY <1>1, Invariance, PTL

(***************************************************************************)
(* RunConsumerGroup loses no message silently: each one below a committed  *)
(* offset was printed, is about to be, or was given up by a process.       *)
(***************************************************************************)
LEMMA AccountedIsInSight ==
  ASSUME TypeOK, NEW p, NEW n, Accounted(p, n)
  PROVE  \E x \in AllPrinted \cup Held \cup dropped : Is(x, p, n)
<1>1. ASSUME NEW m \in Members, NEW i \in DOMAIN Out(m), Is(Out(m)[i], p, n)
      PROVE  \E x \in AllPrinted \cup Held : Is(x, p, n)
  <2>1. CASE m \notin Busy
    BY <1>1, <2>1 DEF Out, Past, Busy, AllPrinted
  <2>2. CASE m \in Busy
    <3>1. /\ printed[m] \in Seq(Message) /\ Out(m) = Append(printed[m], cur[m])
          /\ DOMAIN printed[m] = 1..Len(printed[m]) /\ Len(printed[m]) \in Nat
      BY <2>2, LenProperties DEF TypeOK, Out, Past, Busy
    <3>2. \/ i \in DOMAIN printed[m] /\ Out(m)[i] = printed[m][i]
          \/ Out(m)[i] = cur[m]
      BY <3>1
    <3> QED
      BY <1>1, <2>2, <3>2 DEF AllPrinted, Held
  <2> QED
    BY <2>1, <2>2
<1> QED
  BY <1>1 DEF Accounted

THEOREM NothingVanishes == Spec => []CommittedAccountedFor
<1>1. IInv => CommittedAccountedFor
  <2> SUFFICES ASSUME IInv, NEW p \in Partitions, NEW n \in 1..committed[p]
               PROVE  \E x \in AllPrinted \cup Held \cup dropped : Is(x, p, n)
    BY DEF CommittedAccountedFor
  <2>1. TypeOK /\ Accounted(p, n)
    BY DEF IInv, Covered, UpTo
  <2> QED
    BY <2>1, AccountedIsInSight
<1> QED
  BY <1>1, Invariance, PTL

(***************************************************************************)
(* What is printed is a beginning of Out, and of Done.                     *)
(***************************************************************************)
LEMMA PrintedIsDone ==
  ASSUME TypeOK, Place, NEW m \in Members
  PROVE  \A i \in DOMAIN printed[m] :
           /\ i \in DOMAIN Out(m) /\ Out(m)[i] = printed[m][i]
           /\ i \in DOMAIN Done(m) /\ Done(m)[i] = printed[m][i]
           /\ i \in Nat /\ printed[m][i] \in Message
<1>1. printed[m] \in Seq(Message) /\ (pc[m] \in Working => cur[m] \in Message)
  BY Sequences
<1>2. \A i \in DOMAIN printed[m] : i \in Nat /\ printed[m][i] \in Message
  BY <1>1, LenProperties, ElementOfSeq
<1>3. \/ Out(m) = printed[m]
      \/ Out(m) = Append(printed[m], cur[m]) /\ cur[m] \in Message
  BY <1>1 DEF Out, Past, Working
<1>4. \/ Done(m) = printed[m]
      \/ Done(m) = Append(printed[m], cur[m]) /\ cur[m] \in Message
  BY <1>1 DEF Done, Past, Working
<1> QED
  BY <1>1, <1>2, <1>3, <1>4, Grows

(***************************************************************************)
(* Within a generation the group prints each partition in order, and no    *)
(* message twice.                                                          *)
(***************************************************************************)
THEOREM AlwaysInOrder == Spec => []InOrderPerGeneration
<1>1. IInv => InOrderPerGeneration
  <2> SUFFICES ASSUME IInv,
                      NEW m \in Members, NEW k \in Members,
                      NEW i \in DOMAIN printed[m], NEW j \in DOMAIN printed[k],
                      printed[m][i].p = printed[k][j].p,
                      printed[m][i].gen = printed[k][j].gen
               PROVE  /\ printed[m][i].n = printed[k][j].n => m = k /\ i = j
                      /\ m = k /\ i < j => printed[m][i].n < printed[k][j].n
    BY DEF InOrderPerGeneration
  <2>0. TypeOK /\ Place /\ Order
    BY DEF IInv
  <2>1. /\ i \in DOMAIN Out(m) /\ Out(m)[i] = printed[m][i] /\ i \in Nat
        /\ j \in DOMAIN Out(k) /\ Out(k)[j] = printed[k][j] /\ j \in Nat
        /\ printed[m][i].n \in Nat /\ printed[k][j].n \in Nat
    BY <2>0, PrintedIsDone, Fields
  <2>2. m = k => /\ i < j => printed[m][i].n < printed[k][j].n
                 /\ j < i => printed[k][j].n < printed[m][i].n
    BY <2>0, <2>1 DEF Order, Ordered
  <2>3. m # k => printed[m][i].n # printed[k][j].n
    BY <2>0, <2>1 DEF Order, Apart
  <2>4. i < j \/ j < i \/ i = j
    BY <2>1
  <2> QED
    BY <2>1, <2>2, <2>3, <2>4
<1> QED
  BY <1>1, Invariance, PTL

(***************************************************************************)
(* Unless a commit came late, over all processes and generations no        *)
(* message is printed twice: what was printed was committed first.         *)
(***************************************************************************)
THEOREM PrintedAtMostOnce == Spec => []AtMostOnce
<1>1. IInv => AtMostOnce
  <2>1. IInv => TypeOK /\ Place /\ (~stale => Distinct)
    BY DEF IInv, Once, Forward
  <2> QED
    BY <2>1, PrintedIsDone DEF Distinct, AtMostOnce
<1> QED
  BY <1>1, Invariance, PTL

(***************************************************************************)
(* With -c n a process prints no more than n messages, and the nth that it *)
(* counts is its last: it reads, and commits, no other.                    *)
(***************************************************************************)
THEOREM LimitAlwaysExact == Spec => []LimitExact
<1>1. IInv => LimitExact
  <2> SUFFICES ASSUME IInv, Limit > 0, NEW m \in Members
               PROVE  /\ Len(printed[m]) <= Limit
                      /\ rx[m] = Limit => pc[m] \in {"close"} \cup Gone
    BY DEF LimitExact
  <2>1. /\ Len(printed[m]) \in Nat /\ rx[m] \in Nat
        /\ Len(printed[m]) = rx[m] \/ Len(printed[m]) = rx[m] + 1
        /\ \/ rx[m] < Limit
           \/ rx[m] = Limit /\ Len(printed[m]) = Limit /\ pc[m] \in {"close"} \cup Gone
    BY LenProperties DEF IInv, TypeOK, Counted
  <2> QED
    BY <2>1, GroupAssumption
<1> QED
  BY <1>1, Invariance, PTL

=============================================================================
