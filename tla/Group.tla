------------------------------- MODULE Group --------------------------------
(***************************************************************************)
(* Group mode: several kcat processes that share a consumer group, each    *)
(* running RunConsumerGroup of kafka/group.go under runGroupMode and main  *)
(* of main.go.  NewConsumerGroup sets CommitInterval to 0, so ReadMessage  *)
(* commits a message, and waits for the answer, before it returns it: what *)
(* is printed was committed first.                                         *)
(*                                                                         *)
(* External: kafka-go's Reader and the group's coordinator.  A rebalance   *)
(* starts a new generation, in which every partition is read from its      *)
(* committed offset by its owner.  ReadMessage returns messages of the     *)
(* current generation only, but a rebalance may come between the fetch of  *)
(* a message and its commit; the coordinator then takes the commit or      *)
(* refuses it.  The single deadline of 1 s covers fetch and commit.  The   *)
(* Reader keeps up its heartbeats whatever the loop is doing.              *)
(***************************************************************************)
EXTENDS Integers, Sequences, FiniteSets

CONSTANTS Members,        \* the processes
          Partitions,     \* the partitions of the topic
          LogLen,         \* how many messages each partition holds
          Limit,          \* -c, or 0
          MayStall,       \* -s: printing a message may not come to an end
          MaxRebalances,  \* bound of the model: rebalances nothing calls for
          None            \* no member, no message

ASSUME GroupAssumption ==
  /\ IsFiniteSet(Members) /\ IsFiniteSet(Partitions)
  /\ LogLen \in [Partitions -> Nat] /\ Limit \in Nat /\ MaxRebalances \in Nat
  /\ None \notin Members /\ MayStall \in BOOLEAN

VARIABLES owner,      \* who reads each partition in this generation
          gen,        \* the generation
          idle,       \* rebalances nothing called for
          committed,  \* the group's committed offset: messages done with
          next,       \* messages of each partition fetched in this generation
          pc,         \* where each process is
          run,        \* each process's config.Cfg.Run
          rx,         \* each process's config.Cfg.Rx
          cur,        \* the message each process is working on
          printed,    \* each process's output
          dropped,    \* history: messages a process fetched and gave up
          stale       \* history: a commit was sent in a later generation

group == <<owner, gen, idle>>
hist == <<dropped, stale>>
vars == <<group, committed, next, pc, run, rx, cur, printed, hist>>

Gone == {"exited", "crashed"}
Places == {"loop", "read", "commit", "print", "stalled", "count",
           "close"} \cup Gone

Message == {x \in [p : Partitions, n : Nat, gen : Nat] : x.n \in 1..LogLen[x.p]}

TypeOK == /\ owner \in [Partitions -> Members \cup {None}]
          /\ gen \in Nat /\ idle \in 0..MaxRebalances
          /\ committed \in [Partitions -> Nat] /\ next \in [Partitions -> Nat]
          /\ \A p \in Partitions :
               committed[p] <= LogLen[p] /\ next[p] <= LogLen[p]
          /\ pc \in [Members -> Places]
          /\ run \in [Members -> BOOLEAN]
          /\ rx \in [Members -> Nat]
          /\ cur \in [Members -> Message \cup {None}]
          /\ printed \in [Members -> Seq(Message)]
          /\ \A m \in Members : rx[m] <= Len(printed[m])
          /\ dropped \subseteq Message /\ stale \in BOOLEAN

Init == /\ owner = [p \in Partitions |-> None] /\ gen = 0 /\ idle = 0
        /\ committed = [p \in Partitions |-> 0]
        /\ next = [p \in Partitions |-> 0]
        /\ pc = [m \in Members |-> "loop"]
        /\ run = [m \in Members |-> TRUE]
        /\ rx = [m \in Members |-> 0]
        /\ cur = [m \in Members |-> None]
        /\ printed = [m \in Members |-> <<>>]
        /\ dropped = {} /\ stale = FALSE

-----------------------------------------------------------------------------
(***************************************************************************)
(* The coordinator.  It rebalances when a partition is without a reader,   *)
(* and whenever else it sees fit: a join, a missed heartbeat.              *)
(***************************************************************************)
Live == {m \in Members : pc[m] \notin Gone}

Orphaned == \E p \in Partitions : owner[p] \notin Live

Assign == /\ Live # {}
          /\ owner' \in [Partitions -> Live]
          /\ gen' = gen + 1
          /\ next' = committed
          /\ UNCHANGED <<committed, pc, run, rx, cur, printed, hist>>

Reassign == Orphaned /\ Assign /\ UNCHANGED idle

Rebalance == /\ ~Orphaned /\ idle < MaxRebalances
             /\ idle' = idle + 1
             /\ Assign

-----------------------------------------------------------------------------
(***************************************************************************)
(* RunConsumerGroup in process m.                                          *)
(***************************************************************************)
Goto(m, place) == pc' = [pc EXCEPT ![m] = place]

TestRunIgnored(m) ==  \* mutant: for without Run
  /\ pc[m] = "loop" /\ Goto(m, "read")
  /\ UNCHANGED <<group, committed, next, run, rx, cur, printed, hist>>

TestRun(m) == /\ pc[m] = "loop"
              /\ Goto(m, IF run[m] THEN "read" ELSE "close")
              /\ UNCHANGED <<group, committed, next, run, rx, cur, printed, hist>>

(***************************************************************************)
(* ReadMessage, first half: the next message of a partition m owns.        *)
(***************************************************************************)
Fetch(m) ==
  /\ pc[m] = "read"
  /\ \E p \in Partitions :
       /\ owner[p] = m /\ next[p] < LogLen[p]
       /\ next' = [next EXCEPT ![p] = @ + 1]
       /\ cur' = [cur EXCEPT ![m] = [p |-> p, n |-> next[p] + 1, gen |-> gen]]
  /\ Goto(m, "commit")
  /\ UNCHANGED <<group, committed, run, rx, printed, hist>>

(***************************************************************************)
(* Second half: the commit.  Outside the generation of the message it may  *)
(* be taken too, and then may move the committed offset back.              *)
(***************************************************************************)
Committed(m) == [committed EXCEPT ![cur[m].p] = cur[m].n]

SendCommit(m) == stale' = (stale \/ cur[m].gen # gen)

CommitLater(m) ==  \* mutant: a CommitInterval, the commit is made some time later
  /\ pc[m] = "commit"
  /\ committed' \in {committed, Committed(m)}
  /\ SendCommit(m)
  /\ Goto(m, "print")
  /\ UNCHANGED <<group, next, run, rx, cur, printed, dropped>>

CommitOk(m) == /\ pc[m] = "commit"
               /\ committed' = Committed(m)
               /\ SendCommit(m)
               /\ Goto(m, "print")
               /\ UNCHANGED <<group, next, run, rx, cur, printed, dropped>>

Drop(m) == dropped' = dropped \cup {cur[m]} /\ cur' = [cur EXCEPT ![m] = None]

(***************************************************************************)
(* The deadline.  While m waits for a message nothing is lost; while it    *)
(* waits for the commit, ReadMessage returns without the message, which    *)
(* the Reader will not return again in this generation, and the commit may *)
(* or may not have been made.                                              *)
(***************************************************************************)
FetchDeadline(m) ==
  /\ pc[m] = "read" /\ Goto(m, "loop")
  /\ UNCHANGED <<group, committed, next, run, rx, cur, printed, hist>>

DeadlineCounts(m) ==  \* mutant: counts a message that was not returned
  /\ pc[m] = "commit"
  /\ committed' \in {committed, Committed(m)} /\ SendCommit(m)
  /\ Drop(m)
  /\ rx' = [rx EXCEPT ![m] = @ + 1]
  /\ Goto(m, "loop")
  /\ UNCHANGED <<group, next, run, printed>>

CommitDeadline(m) ==
  /\ pc[m] = "commit"
  /\ committed' \in {committed, Committed(m)} /\ SendCommit(m)
  /\ Drop(m)
  /\ Goto(m, "loop")
  /\ UNCHANGED <<group, next, run, rx, printed>>

(***************************************************************************)
(* Any other error is reported and RunConsumerGroup returns nil: the       *)
(* process exits with status 0.                                            *)
(***************************************************************************)
ReadError(m) == \/ /\ pc[m] = "read" /\ Goto(m, "exited")
                   /\ UNCHANGED <<group, committed, next, run, rx, cur, printed,
                                  hist>>
                \/ /\ pc[m] = "commit" /\ Goto(m, "exited")
                   /\ committed' \in {committed, Committed(m)} /\ SendCommit(m)
                   /\ Drop(m)
                   /\ UNCHANGED <<group, next, run, rx, printed>>

PrintIfRunning(m) ==  \* mutant: tests Run again after ReadMessage
  /\ pc[m] = "print"
  /\ printed' = [printed EXCEPT ![m] = IF run[m] THEN Append(@, cur[m]) ELSE @]
  /\ Goto(m, IF run[m] THEN "count" ELSE "close")
  /\ UNCHANGED <<group, committed, next, run, rx, cur, hist>>

PrintRetries(m) ==  \* mutant: prints the message again after an error
  /\ pc[m] = "print"
  /\ printed' = [printed EXCEPT ![m] = Append(@, cur[m])]
  /\ Goto(m, "print") \/ Goto(m, "count")
  /\ UNCHANGED <<group, committed, next, run, rx, cur, hist>>

(***************************************************************************)
(* Print; an error of it is only reported, and a panic is a crash.         *)
(***************************************************************************)
PrintOut(m) ==
  /\ pc[m] = "print"
  /\ printed' = [printed EXCEPT ![m] = Append(@, cur[m])]
  /\ Goto(m, "count")
  /\ UNCHANGED <<group, committed, next, run, rx, cur, hist>>

(***************************************************************************)
(* With -s, Print may wait for a registry, or go round in Unpack (module   *)
(* Consumer).  The process keeps its partitions all the while.             *)
(***************************************************************************)
Stall(m) == /\ MayStall /\ pc[m] = "print"
            /\ Goto(m, "stalled")
            /\ UNCHANGED <<group, committed, next, run, rx, cur, printed, hist>>

PrintLate(m) == /\ pc[m] = "stalled"
                /\ printed' = [printed EXCEPT ![m] = Append(@, cur[m])]
                /\ Goto(m, "count")
                /\ UNCHANGED <<group, committed, next, run, rx, cur, hist>>

LimitPassed(m) == Limit > 0 /\ rx[m] >= Limit  \* mutant: tests before Rx++

LimitReached(m) == Limit > 0 /\ rx[m] + 1 >= Limit

Count(m) == /\ pc[m] = "count"
            /\ rx' = [rx EXCEPT ![m] = @ + 1]
            /\ cur' = [cur EXCEPT ![m] = None]
            /\ run' = [run EXCEPT ![m] = @ /\ ~LimitReached(m)]
            /\ Goto(m, IF LimitReached(m) THEN "close" ELSE "loop")
            /\ UNCHANGED <<group, committed, next, printed, hist>>

(***************************************************************************)
(* c.Close(), which leaves the group, and the exit, with status 1 when it  *)
(* failed: the group sees no difference.                                   *)
(***************************************************************************)
Close(m) == /\ pc[m] = "close"
            /\ Goto(m, "exited")
            /\ UNCHANGED <<group, committed, next, run, rx, cur, printed, hist>>

(***************************************************************************)
(* SIGINT or SIGTERM reached m's goroutine (module Signals), and a crash.  *)
(***************************************************************************)
ReceiveSignal(m) ==
  /\ pc[m] \notin Gone /\ run[m]
  /\ run' = [run EXCEPT ![m] = FALSE]
  /\ UNCHANGED <<group, committed, next, pc, rx, cur, printed, hist>>

Crash(m) == /\ m \in Live
            /\ Goto(m, "crashed")
            /\ IF pc[m] \in {"commit", "print", "stalled"}
               THEN Drop(m) ELSE UNCHANGED <<dropped, cur>>
            /\ UNCHANGED <<group, committed, next, run, rx, printed, stale>>

-----------------------------------------------------------------------------
Finish(m) == \/ CommitOk(m) \/ CommitDeadline(m)
             \/ PrintOut(m) \/ Count(m) \/ Close(m)

Next == \/ Reassign \/ Rebalance
        \/ \E m \in Members :
             \/ TestRun(m) \/ Fetch(m) \/ FetchDeadline(m)
             \/ ReadError(m) \/ Finish(m) \/ Stall(m) \/ PrintLate(m)
             \/ ReceiveSignal(m) \/ Crash(m)

Spec == Init /\ [][Next]_vars

(***************************************************************************)
(* A process runs, ReadMessage returns by its deadline and returns a       *)
(* message that stays there, and the coordinator gives orphaned partitions *)
(* to someone.  Nothing makes a stalled print go on.                       *)
(***************************************************************************)
FairSpec == /\ Spec /\ WF_vars(Reassign)
            /\ \A m \in Members : /\ WF_vars(TestRun(m) \/ Finish(m))
                                  /\ WF_vars(Fetch(m) \/ FetchDeadline(m))
                                  /\ SF_vars(Fetch(m))

-----------------------------------------------------------------------------
AllPrinted == UNION {{printed[m][i] : i \in DOMAIN printed[m]} : m \in Members}
Busy == {m \in Members : pc[m] \in {"commit", "print", "stalled"}}
Held == {cur[m] : m \in Busy}

Is(x, p, n) == x.p = p /\ x.n = n

(***************************************************************************)
(* No message vanishes unaccounted for: one the group has committed, which *)
(* nobody will be given again, was printed, or a process is about to       *)
(* (group.go 31-46: nothing between ReadMessage and Print may skip it), or *)
(* it was given up at a deadline, an error or a crash.                     *)
(***************************************************************************)
CommittedAccountedFor ==
  \A p \in Partitions : \A n \in 1..committed[p] :
    \E x \in AllPrinted \cup Held \cup dropped : Is(x, p, n)

(***************************************************************************)
(* As long as a generation lasts, the messages of a partition come out in  *)
(* order and none comes out twice, from whichever process: a repetition,   *)
(* or a step back, needs a rebalance between two readings (group.go        *)
(* 30-46).                                                                 *)
(***************************************************************************)
InOrderPerGeneration ==
  \A m, k \in Members : \A i \in DOMAIN printed[m], j \in DOMAIN printed[k] :
    LET x == printed[m][i]
        y == printed[k][j]
    IN x.p = y.p /\ x.gen = y.gen =>
         /\ x.n = y.n => m = k /\ i = j
         /\ m = k /\ i < j => x.n < y.n

(***************************************************************************)
(* What is printed was committed first (client.go 90, group.go 32), so a   *)
(* process that dies can lose a message and never makes the next owner     *)
(* repeat one: over all processes and generations each message is printed  *)
(* at most once, unless a rebalance came between a fetch and its commit.   *)
(***************************************************************************)
AtMostOnce ==
  ~stale =>
    \A m, k \in Members : \A i \in DOMAIN printed[m], j \in DOMAIN printed[k] :
      Is(printed[m][i], printed[k][j].p, printed[k][j].n) => m = k /\ i = j

(***************************************************************************)
(* -c n (group.go 48-52) is exact in each process: after the nth message   *)
(* it fetches, and so commits, no other.                                   *)
(***************************************************************************)
LimitExact ==
  Limit > 0 => \A m \in Members :
    /\ Len(printed[m]) <= Limit
    /\ rx[m] = Limit => pc[m] \in {"close"} \cup Gone

(***************************************************************************)
(* A signal ends a process, at the latest after one deadline (group.go     *)
(* 30-40), unless the message it is printing never gets done.              *)
(***************************************************************************)
StopsWhenAsked ==
  \A m \in Members : ~run[m] ~> (pc[m] \in Gone \/ [](pc[m] = "stalled"))

(***************************************************************************)
(* Every message is printed or given up, or all the processes are gone, or *)
(* one is stalled for good: it keeps its partitions, so no other process   *)
(* gets to their messages.                                                 *)
(***************************************************************************)
Drains ==
  <>(\/ Live = {}
     \/ \E m \in Members : [](pc[m] = "stalled")
     \/ \A p \in Partitions : \A n \in 1..LogLen[p] :
          \E x \in AllPrinted \cup dropped : Is(x, p, n))

=============================================================================
