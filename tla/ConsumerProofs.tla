--------------------------- MODULE ConsumerProofs ---------------------------
(***************************************************************************)
(* Proofs about module Consumer, for every set of command lines, messages  *)
(* and schema ids, and any number of messages and signals.                 *)
(***************************************************************************)
EXTENDS Consumer, SequenceTheorems, TLAPS

(***************************************************************************)
(* The inductive invariant.  InHand is the message that ReadMessage has    *)
(* returned and that is neither passed over nor printed yet: with it, the  *)
(* messages read are those printed and at most the one at the stop         *)
(* timestamp, and the printed ones are numbered without a gap.             *)
(***************************************************************************)
InHand == pc \in {"check", "print", "lookup", "spins"}

Place == /\ pos - start = Len(printed) + (IF partStop \/ InHand THEN 1 ELSE 0)
         /\ \A i \in DOMAIN printed : printed[i].n = start + i
         /\ pc = "open" => printed = <<>>

(***************************************************************************)
(* Rx is behind the output only between a print and its count, which a     *)
(* panic prevents.  Below the limit, or at it with the loop over.          *)
(***************************************************************************)
Counted == /\ rx = Len(printed) - (IF pc = "count" \/ exitCode = 2 THEN 1 ELSE 0)
           /\ cfg.limit > 0 => \/ rx < cfg.limit
                               \/ /\ rx = cfg.limit /\ ~run /\ ~partStop
                                  /\ pc \in {"returned", "exited"}
                                  /\ exitCode # 2

(***************************************************************************)
(* The first message at the stop timestamp ends the loop, since the        *)
(* threshold is 1; what is printed, or about to be, lies before it.        *)
(***************************************************************************)
Past == {"print", "lookup", "spins"}

Stopped ==
  /\ partStop => /\ cfg.stopTS # 0 /\ ~run /\ exitCode # 2
                 /\ pc \in {"loop", "returned", "exited"}
  /\ stopCnt = IF partStop THEN 1 ELSE 0
  /\ cfg.stopTS # 0 =>
       /\ \A k \in (start + 1)..(start + Len(printed)) : log[k].ts < cfg.stopTS
       /\ pc \in Past => log[pos].ts < cfg.stopTS

(***************************************************************************)
(* After Run was cleared the loop prints once more at most, since it tests *)
(* Run before it reads again.                                              *)
(***************************************************************************)
OnceMore == /\ late \in 0..1
            /\ run => late = 0
            /\ late = 1 => pc \in {"count", "loop", "returned", "exited"}

(***************************************************************************)
(* A schema that was used is in the cache, and a lookup is made only for   *)
(* one that is not.                                                        *)
(***************************************************************************)
Kept ==
  \A i \in DOMAIN printed : printed[i].schema \in Schemas =>
    LET id == log[printed[i].n].id IN
    cfg.serde = "avro" /\ id \in DOMAIN cache /\ cache[id] = printed[i].schema

Cached ==
  /\ Kept
  /\ pc = "lookup" => cfg.serde = "avro" /\ ~Known
  /\ pc = "spins" => cfg.serde = "pack"
  /\ SchemaSticks

Ended == /\ exitCode # 0 => pc = "exited"
         /\ pc = "returned" => failed \/ ~run
         /\ pc = "exited" /\ exitCode = 0 => ~run

IInv == TypeOK /\ Place /\ Counted /\ Stopped /\ OnceMore /\ Cached /\ Ended

-----------------------------------------------------------------------------
(***************************************************************************)
(* A print that comes to an end, and what it does with the cache: nothing, *)
(* when no schema was asked for or the lookup failed; else the schema used *)
(* is there afterwards, and those that were there stay.                    *)
(***************************************************************************)
Verdicts == Schemas \cup {"none", "failed"}

Id == log[pos].id

Outcome(schema) ==
  \/ /\ schema = "none" /\ cache' = cache
     /\ cfg.serde # "avro" \/ cfg.full \/ log[pos].fate = "unframed"
  \/ schema = "failed" /\ cache' = cache /\ cfg.serde = "avro" /\ ~Known
  \/ /\ schema \in Schemas /\ cfg.serde = "avro"
     /\ Id \in DOMAIN cache' /\ cache'[Id] = schema
     /\ DOMAIN cache' \subseteq Ids /\ Range(cache') \subseteq Schemas
     /\ \A i \in DOMAIN cache : i \in DOMAIN cache' /\ cache'[i] = cache[i]

Shows(how, schema) == pc \in Past /\ Printed(how, schema) /\ Outcome(schema)

LEMMA InHandIsRead ==
  ASSUME IInv, pc \in Past PROVE pos \in 1..Len(log) /\ log[pos] \in Messages
<1>1. pos - start = Len(printed) + 1 /\ pos \in start..Len(log) /\ start \in Nat
  BY LenProperties DEF IInv, TypeOK, Place, Past, InHand
<1>2. Len(printed) \in Nat /\ Len(log) \in Nat
  BY LenProperties DEF IInv, TypeOK
<1>3. pos \in 1..Len(log)
  BY <1>1, <1>2
<1>4. log[pos] \in cfg.topic
  BY <1>3, ElementOfSeq DEF IInv, TypeOK
<1> QED
  BY <1>3, <1>4, ConsumerAssumption DEF IInv, TypeOK, ConfigOK

LEMMA PrintSteps ==
  ASSUME IInv, PrintOut \/ SpinFails \/ Registry
  PROVE  \/ Spin /\ pc = "print"
         \/ BeginLookup /\ pc = "print"
         \/ \E how \in Hows, schema \in Verdicts : Shows(how, schema)
<1> USE DEF Shows, Outcome, Past, Hows, Verdicts, Schemas
<1>1. CASE PrintOut
  <2>1. CASE PrintRaw
    BY <1>1, <2>1 DEF PrintOut, PrintRaw
  <2>2. CASE PrintPacked
    BY <1>1, <2>2 DEF PrintOut, PrintPacked
  <2>3. CASE PrintUnreadable
    BY <1>1, <2>3 DEF PrintOut, PrintUnreadable, Unreadable
  <2>4. CASE PrintCached
    <3>1. cfg.serde = "avro" /\ Known /\ cache' = cache /\ pc = "print"
      BY <1>1, <2>4 DEF PrintOut, PrintCached
    <3>2. \E how \in Hows : Printed(how, cache[Id])
      BY <2>4 DEF PrintCached, Deserialized, Id
    <3>3. cache[Id] \in Schemas /\ DOMAIN cache \subseteq Ids /\ Range(cache) \subseteq Schemas
      BY <3>1 DEF IInv, TypeOK, Known, Id, Range
    <3> QED
      BY <3>1, <3>2, <3>3 DEF Known, Id
  <2>5. CASE StdoutFails
    BY <1>1, <2>5 DEF PrintOut, StdoutFails
  <2> QED
    BY <1>1, <2>1, <2>2, <2>3, <2>4, <2>5 DEF PrintOut
<1>2. CASE SpinFails
  BY <1>2 DEF SpinFails
<1>3. CASE LookupFails
  BY <1>3 DEF LookupFails, IInv, Cached
<1>4. CASE LookupAnswered
  <2>1. PICK schema \in Schemas :
          /\ cache' = [i \in DOMAIN cache \cup {Id} |-> IF i = Id THEN schema ELSE cache[i]]
          /\ Deserialized(schema)
    BY <1>4 DEF LookupAnswered, Id
  <2>2. pc = "lookup" /\ cfg.serde = "avro" /\ Id \notin DOMAIN cache
    BY <1>4 DEF LookupAnswered, IInv, Cached, Known, Id
  <2>3. \E how \in Hows : Printed(how, schema)
    BY <2>1 DEF Deserialized
  <2>4. Id \in Ids
    BY <2>2, InHandIsRead DEF Messages, Id
  <2>5. DOMAIN cache' \subseteq Ids /\ Range(cache') \subseteq Schemas
    BY <2>1, <2>4 DEF IInv, TypeOK, Range
  <2>6. /\ Id \in DOMAIN cache' /\ cache'[Id] = schema
        /\ \A i \in DOMAIN cache : i \in DOMAIN cache' /\ cache'[i] = cache[i]
    BY <2>1, <2>2
  <2> QED
    BY <2>2, <2>3, <2>5, <2>6
<1> QED
  BY <1>1, <1>2, <1>3, <1>4 DEF Registry

LEMMA Steps ==
  ASSUME IInv, [Next]_vars
  PROVE  \/ Arrive \/ Open \/ TestRun \/ CheckStop
         \/ Receive \/ DeadlineExceeded \/ ReadError
         \/ (Spin /\ pc = "print") \/ (BeginLookup /\ pc = "print")
         \/ \E how \in Hows, schema \in Verdicts : Shows(how, schema)
         \/ Count \/ Exit \/ Signal \/ UNCHANGED vars
<1> USE DEF Next, Process, ReadMessage
<1>1. CASE PrintOut \/ SpinFails \/ Registry
  BY <1>1, PrintSteps
<1> QED
  BY <1>1

-----------------------------------------------------------------------------
(***************************************************************************)
(* What a print adds to the output, and an arrival to the log.             *)
(***************************************************************************)
Entries == [n : 1..pos, how : Hows, schema : Verdicts]

LEMMA OutputGrows ==
  ASSUME IInv, NEW how \in Hows, NEW schema \in Verdicts, Shows(how, schema)
  PROVE  /\ printed' \in Seq(Entries) /\ Len(printed') = Len(printed) + 1
         /\ Len(printed) \in Nat /\ pos = start + Len(printed')
         /\ DOMAIN printed = 1..Len(printed) /\ DOMAIN printed' = 1..Len(printed')
         /\ \A i \in 1..Len(printed) : printed'[i] = printed[i]
         /\ printed'[Len(printed')] = [n |-> pos, how |-> how, schema |-> schema]
<1> DEFINE e == [n |-> pos, how |-> how, schema |-> schema]
<1>1. printed \in Seq(Entries) /\ e \in Entries /\ printed' = Append(printed, e)
  BY InHandIsRead DEF IInv, TypeOK, Entries, Verdicts, Shows, Printed
<1>2. pos - start = Len(printed) + 1 /\ pos \in Nat /\ start \in Nat
  BY LenProperties DEF IInv, TypeOK, Place, InHand, Past, Shows
<1> HIDE DEF e
<1>3. /\ printed' \in Seq(Entries) /\ Len(printed') = Len(printed) + 1
      /\ \A i \in 1..Len(printed) : printed'[i] = printed[i]
      /\ printed'[Len(printed) + 1] = e
  BY <1>1, AppendProperties
<1>4. /\ DOMAIN printed = 1..Len(printed) /\ DOMAIN printed' = 1..Len(printed')
      /\ Len(printed) \in Nat
  BY <1>1, <1>3, LenProperties
<1> QED
  BY <1>2, <1>3, <1>4 DEF e

LEMMA LogGrows ==
  ASSUME IInv, Arrive
  PROVE  /\ log' \in Seq(cfg.topic) /\ Len(log') = Len(log) + 1
         /\ Len(log) \in Nat /\ Len(log') <= MaxLog
         /\ \A k \in 1..Len(log) : log'[k] = log[k]
<1> PICK m \in cfg.topic : log' = Append(log, m)
  BY DEF Arrive
<1> log \in Seq(cfg.topic) /\ Len(log) \in Nat
  BY LenProperties DEF IInv, TypeOK
<1> QED
  BY AppendProperties, ConsumerAssumption DEF Arrive

(***************************************************************************)
(* A message passes the test of its timestamp, or it is the first one that *)
(* does not and ends the loop: the threshold is 1 as soon as there is a    *)
(* stop timestamp, and no second one is ever tested.                       *)
(***************************************************************************)
LEMMA CheckStopOutcome ==
  ASSUME IInv, CheckStop
  PROVE  /\ ~partStop
         /\ \/ /\ ~PastStop /\ pc' = "print"
               /\ run' = run /\ partStop' = partStop /\ ~partStop' /\ stopCnt' = stopCnt
            \/ /\ cfg.stopTS # 0 /\ pc' = "loop"
               /\ run' = FALSE /\ partStop' = TRUE /\ stopCnt' = 1
<1>1. pc = "check"
  BY DEF CheckStop
<1>2. ~partStop /\ stopCnt = 0
  BY <1>1 DEF IInv, Stopped
<1>3. CASE PastStop
  <2>1. cfg.stopTS # 0 /\ PartStopThres = 1
    BY <1>3 DEF PastStop, PartStopThres
  <2>2. pc' = "loop" /\ StopPartition
    BY <1>3 DEF CheckStop
  <2>3. stopCnt' = 1 /\ partStop' = TRUE
    BY <1>2, <2>2 DEF StopPartition
  <2>4. run' = FALSE
    BY <1>2, <2>1, <2>2, <2>3 DEF StopPartition
  <2> QED
    BY <1>2, <2>1, <2>2, <2>3, <2>4
<1>4. CASE ~PastStop
  BY <1>2, <1>4 DEF CheckStop
<1> QED
  BY <1>3, <1>4

(***************************************************************************)
(* Every step keeps the types.                                             *)
(***************************************************************************)
LEMMA SignalTypes ==
  ASSUME SigTypeOK, Notify \/ ReceiveSignal PROVE SigTypeOK'
<1>1. sent' \in 0..MaxSignals
  BY ConsumerAssumption DEF SigTypeOK, Notify, ReceiveSignal
<1>2. sigCh' \in 0..1
  BY DEF Notify, ReceiveSignal
<1>3. run' \in BOOLEAN /\ watching' \in BOOLEAN
  BY Zenon DEF SigTypeOK, Notify, ReceiveSignal
<1> QED
  BY <1>1, <1>2, <1>3 DEF SigTypeOK

LEMMA TypeStep == IInv /\ [Next]_vars => TypeOK'
<1> SUFFICES ASSUME IInv, [Next]_vars PROVE TypeOK'
  OBVIOUS
<1> DEFINE Out == Seq([n : 1..pos, how : Hows, schema : Schemas \cup {"none", "failed"}])
<1> USE DEF TypeOK, Places
<1>0. TypeOK /\ Len(log) \in Nat /\ Len(printed) \in Nat
  BY LenProperties DEF IInv
<1>1. CASE Arrive
  BY <1>0, <1>1, LogGrows DEF Arrive, sigVars, SigTypeOK
<1>2. CASE Open
  <2>1. printed' = <<>> /\ rx' = 0 /\ start' \in 0..Len(log) /\ pos' = start'
    BY <1>2, <1>0, EmptySeq DEF Open, IInv, Place, Counted
  <2>2. printed' \in Out'
    BY <2>1, EmptySeq
  <2> QED
    BY <1>0, <1>2, <2>1, <2>2 DEF Open, sigVars, SigTypeOK
<1>3. CASE TestRun
  BY <1>0, <1>3 DEF TestRun, Return, sigVars, SigTypeOK
<1>4. CASE CheckStop
  <2>1. run' \in BOOLEAN /\ partStop' \in BOOLEAN
    BY <1>0, <1>4, CheckStopOutcome, Zenon DEF SigTypeOK
  <2>2. stopCnt' \in {stopCnt, 1} /\ pc' \in {"print", "loop"}
    BY <1>4, CheckStopOutcome, Zenon
  <2> QED
    BY <1>0, <1>4, <2>1, <2>2 DEF CheckStop, SigTypeOK
<1>5. CASE Receive
  <2>1. printed \in Out'
    <3>1. 1..pos \subseteq 1..pos'
      BY <1>0, <1>5 DEF Receive
    <3>2. Entries \subseteq Entries'
      BY <3>1 DEF Entries
    <3>3. printed \in Seq(Entries)
      BY <1>0 DEF Entries, Verdicts
    <3>4. printed \in Seq(Entries')
      BY <3>2, <3>3, SeqMonotonic
    <3> QED
      BY <3>4 DEF Entries, Verdicts
  <2> QED
    BY <1>0, <1>5, <2>1 DEF Receive, sigVars, SigTypeOK
<1>6. CASE DeadlineExceeded
  BY <1>0, <1>6 DEF DeadlineExceeded, sigVars, SigTypeOK
<1>7. CASE ReadError
  BY <1>0, <1>7 DEF ReadError, Return, sigVars, SigTypeOK
<1>8. CASE Spin
  BY <1>0, <1>8 DEF Spin, sigVars, SigTypeOK
<1>9. CASE BeginLookup
  BY <1>0, <1>9 DEF BeginLookup, sigVars, SigTypeOK
<1>10. ASSUME NEW how \in Hows, NEW schema \in Verdicts, Shows(how, schema)
       PROVE  TypeOK'
  <2>1. printed' \in Seq(Entries) /\ Len(printed') = Len(printed) + 1
    BY <1>10, OutputGrows
  <2>4. rx \in 0..Len(printed')
    BY <1>0, <2>1
  <2>3. printed' \in Out' /\ pos' = pos
    BY <1>10, <2>1 DEF Entries, Verdicts, Shows, Printed
  <2>5. DOMAIN cache' \subseteq Ids /\ Range(cache') \subseteq Schemas
    BY <1>0, <1>10 DEF Shows, Outcome
  <2> QED
    BY <1>0, <1>10, <2>3, <2>4, <2>5 DEF Shows, Printed, sigVars, SigTypeOK
<1>11. CASE Count
  <2>1. rx + 1 \in 0..Len(printed)
    BY <1>0, <1>11 DEF Count, IInv, Counted, Ended
  <2> QED
    BY <1>0, <1>11, <2>1 DEF Count, Return, SigTypeOK
<1>12. CASE Exit
  BY <1>0, <1>12 DEF Exit, sigVars, SigTypeOK
<1>13. CASE Signal
  BY <1>0, <1>13, SignalTypes DEF Signal, ownVars
<1>14. CASE UNCHANGED vars
  BY <1>0, <1>14 DEF vars, ownVars, sigVars, SigTypeOK
<1> QED
  BY <1>1, <1>2, <1>3, <1>4, <1>5, <1>6, <1>7, <1>8, <1>9, <1>10, <1>11, <1>12,
     <1>13, <1>14, Steps

-----------------------------------------------------------------------------
(***************************************************************************)
(* Every step keeps the place in the log: what is read and not printed is  *)
(* the message in hand, or the one that the stop timestamp passed over.    *)
(***************************************************************************)
LEMMA PlaceStep == IInv /\ [Next]_vars => Place'
<1> SUFFICES ASSUME IInv, [Next]_vars PROVE Place'
  OBVIOUS
<1> USE DEF Place, InHand
<1>0. /\ Place /\ Len(printed) \in Nat /\ start \in Nat /\ pos \in Nat
      /\ DOMAIN printed = 1..Len(printed)
  BY LenProperties DEF IInv, TypeOK
<1>1. CASE Arrive
  BY <1>0, <1>1 DEF Arrive
<1>2. CASE Open
  <2>1. PICK q \in Nat : start' = q /\ pos' = q
    BY <1>0, <1>2, LenProperties DEF Open, IInv, TypeOK
  <2>2. printed' = <<>> /\ pc' = "loop" /\ ~partStop'
    BY <1>0, <1>2 DEF Open, IInv, Stopped
  <2>3. Len(printed') = 0 /\ DOMAIN printed' = {}
    BY <2>2
  <2> QED
    BY <2>1, <2>2, <2>3
<1>3. CASE TestRun
  BY <1>0, <1>3 DEF TestRun, Return
<1>4. CASE CheckStop
  <2>1. \/ pc' = "print" /\ ~partStop' /\ ~partStop
        \/ pc' = "loop" /\ partStop' /\ ~partStop
    BY <1>4, CheckStopOutcome, Zenon
  <2>2. pc = "check" /\ UNCHANGED <<start, pos, printed>>
    BY <1>4 DEF CheckStop
  <2> QED
    BY <1>0, <2>1, <2>2
<1>5. CASE Receive
  <2>1. ~partStop
    BY <1>5 DEF Receive, IInv, Stopped
  <2> QED
    BY <1>0, <1>5, <2>1 DEF Receive
<1>6. CASE DeadlineExceeded
  BY <1>0, <1>6 DEF DeadlineExceeded
<1>7. CASE ReadError
  BY <1>0, <1>7 DEF ReadError, Return
<1>8. CASE Spin /\ pc = "print"
  BY <1>0, <1>8 DEF Spin
<1>9. CASE BeginLookup /\ pc = "print"
  BY <1>0, <1>9 DEF BeginLookup
<1>10. ASSUME NEW how \in Hows, NEW schema \in Verdicts, Shows(how, schema)
       PROVE  Place'
  <2>1. ~partStop' /\ pc' \in {"exited", "count"} /\ start' = start /\ pos' = pos
    BY <1>10 DEF IInv, Stopped, Shows, Printed, Past
  <2>2. /\ Len(printed') = Len(printed) + 1 /\ DOMAIN printed' = 1..Len(printed')
        /\ \A i \in 1..Len(printed) : printed'[i] = printed[i]
        /\ printed'[Len(printed')] = [n |-> pos, how |-> how, schema |-> schema]
        /\ pos = start + Len(printed')
    BY <1>10, OutputGrows
  <2>3. pos' - start' = Len(printed')
    BY <1>0, <2>1, <2>2
  <2>4. \A i \in DOMAIN printed' : printed'[i].n = start' + i
    BY <1>0, <2>1, <2>2
  <2> QED
    BY <2>1, <2>3, <2>4
<1>11. CASE Count
  BY <1>0, <1>11 DEF Count, Return
<1>12. CASE Exit
  BY <1>0, <1>12 DEF Exit
<1>13. CASE Signal
  BY <1>0, <1>13 DEF Signal, ownVars
<1>14. CASE UNCHANGED vars
  BY <1>0, <1>14 DEF vars, ownVars
<1> QED
  BY <1>1, <1>2, <1>3, <1>4, <1>5, <1>6, <1>7, <1>8, <1>9, <1>10, <1>11, <1>12,
     <1>13, <1>14, Steps

(***************************************************************************)
(* Every step keeps the count, and stays below the limit or ends the loop. *)
(***************************************************************************)
LEMMA CountedStep == IInv /\ [Next]_vars => Counted'
<1> SUFFICES ASSUME IInv, [Next]_vars PROVE Counted'
  OBVIOUS
<1> USE DEF Counted
<1>0. /\ Counted /\ Len(printed) \in Nat /\ rx \in Nat /\ cfg.limit \in Nat
      /\ exitCode # 0 => pc = "exited"
  BY LenProperties, ConsumerAssumption DEF IInv, TypeOK, ConfigOK, Ended
<1>1. CASE Arrive
  BY <1>0, <1>1 DEF Arrive, sigVars
<1>2. CASE Open
  BY <1>0, <1>2 DEF Open, sigVars
<1>3. CASE TestRun
  BY <1>0, <1>3 DEF TestRun, Return, sigVars
<1>4. CASE CheckStop
  <2>1. pc' \in {"print", "loop"} /\ pc = "check" /\ UNCHANGED <<rx, printed, cfg, exitCode>>
    BY <1>4, CheckStopOutcome DEF CheckStop
  <2> QED
    BY <1>0, <2>1
<1>5. CASE Receive
  BY <1>0, <1>5 DEF Receive, sigVars
<1>6. CASE DeadlineExceeded
  BY <1>0, <1>6 DEF DeadlineExceeded, sigVars
<1>7. CASE ReadError
  BY <1>0, <1>7 DEF ReadError, Return, sigVars
<1>8. CASE Spin /\ pc = "print"
  BY <1>0, <1>8 DEF Spin, sigVars
<1>9. CASE BeginLookup /\ pc = "print"
  BY <1>0, <1>9 DEF BeginLookup, sigVars
<1>10. ASSUME NEW how \in Hows, NEW schema \in Verdicts, Shows(how, schema)
       PROVE  Counted'
  <2>1. Len(printed') = Len(printed) + 1 /\ pc \in Past
    BY <1>10, OutputGrows DEF Shows
  <2>2. /\ UNCHANGED <<cfg, run, rx>>
        /\ \/ pc' = "count" /\ exitCode' = exitCode
           \/ pc' = "exited" /\ exitCode' = 2
    BY <1>10 DEF Shows, Printed, sigVars
  <2> QED
    BY <1>0, <2>1, <2>2 DEF Past
<1>11. CASE Count
  <2>1. pc = "count" /\ rx + 1 = Len(printed) /\ rx' = rx + 1 /\ UNCHANGED <<cfg, exitCode, printed>>
    BY <1>0, <1>11 DEF Count
  <2>2. CASE LimitReached
    <3>1. ~partStop /\ partStop' = partStop /\ exitCode = 0
      BY <1>0, <1>11, <2>1 DEF Count, IInv, Stopped
    <3>2. ~partStop'
      BY <3>1
    <3>3. pc' = "returned" /\ run' = FALSE /\ cfg.limit > 0
      BY <1>11, <2>2 DEF Count, Return, LimitReached
    <3>4. rx + 1 = cfg.limit \/ rx + 1 < cfg.limit
      BY <1>0, <2>1, <3>3
    <3>5. Len(printed') = rx + 1 /\ cfg.limit' = cfg.limit /\ exitCode' = 0
      BY <2>1, <3>1
    <3> QED
      BY <1>0, <2>1, <3>2, <3>3, <3>4, <3>5
  <2>3. CASE ~LimitReached
    <3>1. pc' = "loop" /\ (cfg.limit > 0 => rx + 1 < cfg.limit)
      <4>1. pc' = "loop"
        BY <1>11, <2>3 DEF Count
      <4>2. cfg.limit > 0 => rx + 1 < cfg.limit
        BY <1>0, <2>3 DEF LimitReached
      <4> QED
        BY <4>1, <4>2
    <3> QED
      BY <1>0, <2>1, <3>1
  <2> QED
    BY <2>2, <2>3
<1>12. CASE Exit
  BY <1>0, <1>12 DEF Exit, sigVars
<1>13. CASE Signal
  BY <1>0, <1>13 DEF Signal, ownVars, Notify, ReceiveSignal
<1>14. CASE UNCHANGED vars
  BY <1>0, <1>14 DEF vars, ownVars, sigVars
<1> QED
  BY <1>1, <1>2, <1>3, <1>4, <1>5, <1>6, <1>7, <1>8, <1>9, <1>10, <1>11, <1>12,
     <1>13, <1>14, Steps

(***************************************************************************)
(* Every step keeps what is printed before the stop timestamp.             *)
(***************************************************************************)
LEMMA StoppedStep == IInv /\ [Next]_vars => Stopped'
<1> SUFFICES ASSUME IInv, [Next]_vars PROVE Stopped'
  OBVIOUS
<1> DEFINE Before == \A k \in (start + 1)..(start + Len(printed)) : log[k].ts < cfg.stopTS
<1> USE DEF Stopped, Past
<1>00. /\ Len(printed) \in Nat /\ start \in Nat /\ pos \in Nat
       /\ Len(log) \in Nat /\ pos <= Len(log)
  <2> HIDE DEF Stopped
  <2>1. /\ printed \in Seq(Entries) /\ log \in Seq(cfg.topic)
        /\ start \in 0..Len(log) /\ pos \in start..Len(log)
    BY DEF IInv, TypeOK, Entries, Verdicts
  <2>2. Len(printed) \in Nat /\ Len(log) \in Nat
    BY <2>1, LenProperties
  <2> QED
    BY <2>1, <2>2
<1>01. Stopped
  BY DEF IInv
<1>0. /\ Stopped /\ Len(printed) \in Nat /\ start \in Nat /\ pos \in Nat
      /\ Len(log) \in Nat /\ pos <= Len(log)
  BY <1>00, <1>01
<1>1. CASE Arrive
  <2>1. UNCHANGED <<cfg, run, start, pos, pc, partStop, stopCnt, printed, exitCode>>
    BY <1>1 DEF Arrive, sigVars
  <2>2. start + Len(printed) <= Len(log)
    BY <1>0 DEF IInv, Place
  <2>3. Before => Before'
    <3>1. \A k \in (start + 1)..(start + Len(printed)) : log'[k] = log[k]
      BY <1>0, <1>1, <2>2, LogGrows
    <3> QED
      BY <2>1, <3>1
  <2>4. pc \in Past => log'[pos] = log[pos]
    BY <1>1, LogGrows, InHandIsRead
  <2> QED
    BY <1>0, <2>1, <2>3, <2>4
<1>2. CASE Open
  <2>1. PICK q \in Nat : start' = q
    BY <1>0, <1>2 DEF Open
  <2>2. printed' = <<>> /\ pc' = "loop"
    BY <1>2 DEF Open, IInv, Place
  <2>3. Len(printed') = 0
    BY <2>2
  <2>4. Before'
    BY <2>1, <2>3
  <2>5. UNCHANGED <<cfg, run, partStop, stopCnt, exitCode>> /\ pc = "open"
    BY <1>2 DEF Open, sigVars
  <2> QED
    BY <1>0, <2>2, <2>4, <2>5
<1>3. CASE TestRun
  BY <1>0, <1>3 DEF TestRun, Return, sigVars
<1>4. CASE CheckStop
  <2>1. Len(printed') = Len(printed) /\ UNCHANGED <<cfg, start, pos, log>> /\ pc = "check"
    BY <1>4 DEF CheckStop
  <2>2. cfg.stopTS # 0 => Before'
    BY <1>0, <2>1
  <2>3. CASE pc' = "loop"
    <3>1. exitCode' = 0
      BY <1>4, <2>1 DEF CheckStop, IInv, Ended
    <3> QED
      BY <1>4, <2>1, <2>2, <2>3, <3>1, CheckStopOutcome
  <2>4. CASE pc' = "print"
    <3>0. pc' # "loop"
      BY <2>4
    <3>1. ~PastStop /\ ~partStop' /\ stopCnt' = stopCnt
      BY <1>4, <3>0, CheckStopOutcome, Zenon
    <3>2. cfg.stopTS # 0 => log[pos].ts < cfg.stopTS
      <4>1. log[pos].ts \in Nat /\ cfg.stopTS \in Nat
        <5>1. pos - start = Len(printed) + 1
          BY <2>1 DEF IInv, Place, InHand
        <5>2. pos \in 1..Len(log)
          BY <1>0, <5>1
        <5>3. log[pos] \in Messages
          BY <5>2, ElementOfSeq, ConsumerAssumption DEF IInv, TypeOK, ConfigOK
        <5> QED
          BY <5>3, ConsumerAssumption DEF Messages, IInv, TypeOK, ConfigOK
      <4> QED
        BY <3>1, <4>1 DEF PastStop
    <3> QED
      BY <1>0, <2>1, <2>2, <2>4, <3>1, <3>2
  <2> QED
    BY <1>4, <2>3, <2>4, CheckStopOutcome
<1>5. CASE Receive
  BY <1>0, <1>5 DEF Receive, sigVars
<1>6. CASE DeadlineExceeded
  BY <1>0, <1>6 DEF DeadlineExceeded, sigVars
<1>7. CASE ReadError
  BY <1>0, <1>7 DEF ReadError, Return, sigVars
<1>8. CASE Spin /\ pc = "print"
  BY <1>0, <1>8 DEF Spin, sigVars
<1>9. CASE BeginLookup /\ pc = "print"
  BY <1>0, <1>9 DEF BeginLookup, sigVars
<1>10. ASSUME NEW how \in Hows, NEW schema \in Verdicts, Shows(how, schema)
       PROVE  Stopped'
  <2>1. /\ pc \in Past /\ pc' \in {"exited", "count"}
        /\ UNCHANGED <<cfg, run, start, pos, log, partStop, stopCnt>>
    BY <1>10 DEF Shows, Printed, sigVars
  <2>2. Len(printed') = Len(printed) + 1 /\ pos = start + Len(printed')
    BY <1>10, OutputGrows
  <2>3. cfg.stopTS # 0 => Before'
    BY <1>0, <2>1, <2>2
  <2> QED
    BY <1>0, <2>1, <2>3
<1>11. CASE Count
  BY <1>0, <1>11 DEF Count, Return
<1>12. CASE Exit
  BY <1>0, <1>12 DEF Exit, sigVars
<1>13. CASE Signal
  BY <1>0, <1>13 DEF Signal, ownVars, Notify, ReceiveSignal
<1>14. CASE UNCHANGED vars
  BY <1>0, <1>14 DEF vars, ownVars, sigVars
<1> QED
  BY <1>1, <1>2, <1>3, <1>4, <1>5, <1>6, <1>7, <1>8, <1>9, <1>10, <1>11, <1>12,
     <1>13, <1>14, Steps

(***************************************************************************)
(* Every step keeps the one message after Run was cleared, and the reasons *)
(* for which the process ends.                                             *)
(***************************************************************************)
LEMMA OnceMoreStep == IInv /\ [Next]_vars => OnceMore'
<1> SUFFICES ASSUME IInv, [Next]_vars PROVE OnceMore'
  OBVIOUS
<1> USE DEF OnceMore
<1>0. OnceMore
  BY DEF IInv
<1>1. CASE Arrive
  BY <1>0, <1>1 DEF Arrive, sigVars
<1>2. CASE Open
  BY <1>0, <1>2 DEF Open, sigVars
<1>3. CASE TestRun
  BY <1>0, <1>3 DEF TestRun, Return, sigVars
<1>4. CASE CheckStop
  <2>1. late' = late /\ pc = "check"
    BY <1>4 DEF CheckStop
  <2> QED
    BY <1>0, <2>1
<1>5. CASE Receive
  BY <1>0, <1>5 DEF Receive, sigVars
<1>6. CASE DeadlineExceeded
  BY <1>0, <1>6 DEF DeadlineExceeded, sigVars
<1>7. CASE ReadError
  BY <1>0, <1>7 DEF ReadError, Return, sigVars
<1>8. CASE Spin /\ pc = "print"
  BY <1>0, <1>8 DEF Spin, sigVars
<1>9. CASE BeginLookup /\ pc = "print"
  BY <1>0, <1>9 DEF BeginLookup, sigVars
<1>10. ASSUME NEW how \in Hows, NEW schema \in Verdicts, Shows(how, schema)
       PROVE  OnceMore'
  <2>1. late = 0
    BY <1>0, <1>10 DEF Shows, Past
  <2> QED
    BY <2>1, <1>10 DEF Shows, Printed, sigVars
<1>11. CASE Count
  BY <1>0, <1>11 DEF Count, Return
<1>12. CASE Exit
  BY <1>0, <1>12 DEF Exit, sigVars
<1>13. CASE Signal
  BY <1>0, <1>13 DEF Signal, ownVars, Notify, ReceiveSignal
<1>14. CASE UNCHANGED vars
  BY <1>0, <1>14 DEF vars, ownVars, sigVars
<1> QED
  BY <1>1, <1>2, <1>3, <1>4, <1>5, <1>6, <1>7, <1>8, <1>9, <1>10, <1>11, <1>12,
     <1>13, <1>14, Steps

LEMMA EndedStep == IInv /\ [Next]_vars => Ended'
<1> SUFFICES ASSUME IInv, [Next]_vars PROVE Ended'
  OBVIOUS
<1> USE DEF Ended
<1>0. Ended
  BY DEF IInv
<1>1. CASE Arrive
  BY <1>0, <1>1 DEF Arrive, sigVars
<1>2. CASE Open
  BY <1>0, <1>2 DEF Open, sigVars
<1>3. CASE TestRun
  BY <1>0, <1>3 DEF TestRun, Return, sigVars
<1>4. CASE CheckStop
  BY <1>0, <1>4, CheckStopOutcome DEF CheckStop
<1>5. CASE Receive
  BY <1>0, <1>5 DEF Receive, sigVars
<1>6. CASE DeadlineExceeded
  BY <1>0, <1>6 DEF DeadlineExceeded, sigVars
<1>7. CASE ReadError
  BY <1>0, <1>7 DEF ReadError, Return, sigVars
<1>8. CASE Spin /\ pc = "print"
  BY <1>0, <1>8 DEF Spin, sigVars
<1>9. CASE BeginLookup /\ pc = "print"
  BY <1>0, <1>9 DEF BeginLookup, sigVars
<1>10. ASSUME NEW how \in Hows, NEW schema \in Verdicts, Shows(how, schema)
       PROVE  Ended'
  BY <1>0, <1>10 DEF Shows, Past, Printed, sigVars
<1>11. CASE Count
  BY <1>0, <1>11 DEF Count, Return
<1>12. CASE Exit
  BY <1>0, <1>12 DEF Exit, sigVars
<1>13. CASE Signal
  BY <1>0, <1>13 DEF Signal, ownVars, Notify, ReceiveSignal
<1>14. CASE UNCHANGED vars
  BY <1>0, <1>14 DEF vars, ownVars, sigVars
<1> QED
  BY <1>1, <1>2, <1>3, <1>4, <1>5, <1>6, <1>7, <1>8, <1>9, <1>10, <1>11, <1>12,
     <1>13, <1>14, Steps

-----------------------------------------------------------------------------
(***************************************************************************)
(* Every step keeps the schemas: none in the cache is replaced, so that a  *)
(* message printed by one finds it again.                                  *)
(***************************************************************************)
LEMMA PrintedIsInLog ==
  ASSUME IInv, NEW i \in DOMAIN printed
  PROVE  printed[i].n \in 1..Len(log) /\ i \in 1..Len(printed)
<1>1. /\ Len(printed) \in Nat /\ DOMAIN printed = 1..Len(printed)
      /\ Len(log) \in Nat
  BY LenProperties DEF IInv, TypeOK
<1>2. /\ pos \in start..Len(log) /\ start \in Nat /\ printed[i].n = start + i
      /\ pos - start = Len(printed) + (IF partStop \/ InHand THEN 1 ELSE 0)
  BY <1>1 DEF IInv, TypeOK, Place
<1> QED
  BY <1>1, <1>2

LEMMA CacheFrame ==
  ASSUME Kept, SchemaSticks, UNCHANGED <<cfg, log, printed, cache>>
  PROVE  Kept' /\ SchemaSticks'
BY DEF Kept, SchemaSticks

LEMMA CacheLog ==
  ASSUME IInv, Arrive PROVE Cached'
<1>1. /\ Kept /\ SchemaSticks
      /\ pc = "lookup" => cfg.serde = "avro" /\ ~Known
      /\ pc = "spins" => cfg.serde = "pack"
  BY DEF IInv, Cached
<1>2. UNCHANGED <<cfg, printed, cache, pc, pos>>
  BY DEF Arrive
<1>3. \A i \in DOMAIN printed : log'[printed[i].n] = log[printed[i].n]
  BY PrintedIsInLog, LogGrows
<1>4. Kept'
  BY <1>1, <1>2, <1>3 DEF Kept
<1>5. SchemaSticks'
  BY <1>1, <1>2, <1>3 DEF SchemaSticks
<1>6. pc = "lookup" => log'[pos] = log[pos]
  BY LogGrows, InHandIsRead DEF Past
<1> QED
  BY <1>1, <1>2, <1>4, <1>5, <1>6 DEF Cached, Known

LEMMA CachePrint ==
  ASSUME IInv, NEW how \in Hows, NEW schema \in Verdicts, Shows(how, schema)
  PROVE  Kept' /\ SchemaSticks'
<1> DEFINE m == Len(printed')
<1>1. Kept /\ SchemaSticks
  BY DEF IInv, Cached
<1>2. UNCHANGED <<cfg, log, pos>> /\ Outcome(schema)
  BY DEF Shows, Printed
<1>3. /\ m = Len(printed) + 1 /\ Len(printed) \in Nat
      /\ DOMAIN printed = 1..Len(printed) /\ DOMAIN printed' = 1..m
      /\ \A i \in 1..Len(printed) : printed'[i] = printed[i]
      /\ printed'[m] = [n |-> pos, how |-> how, schema |-> schema]
  BY OutputGrows
<1>4. printed'[m].n = pos /\ printed'[m].schema = schema
  BY <1>3
<1>5. \A i \in DOMAIN printed' : \/ i \in DOMAIN printed /\ printed'[i] = printed[i]
                                \/ i = m
  BY <1>3
<1>6. \A id \in DOMAIN cache : id \in DOMAIN cache' /\ cache'[id] = cache[id]
  BY <1>2 DEF Outcome
<1>7. schema \in Schemas => cfg.serde = "avro" /\ Id \in DOMAIN cache' /\ cache'[Id] = schema
  BY <1>2 DEF Outcome, Schemas
<1> HIDE DEF m
<1>8. Kept'
  <2> SUFFICES ASSUME NEW i \in DOMAIN printed', printed'[i].schema \in Schemas
               PROVE  LET id == log[printed'[i].n].id IN
                      /\ cfg.serde = "avro" /\ id \in DOMAIN cache'
                      /\ cache'[id] = printed'[i].schema
    BY <1>2 DEF Kept, Schemas
  <2>1. CASE i \in DOMAIN printed /\ printed'[i] = printed[i]
    BY <1>1, <1>6, <2>1 DEF Kept
  <2>2. CASE i = m
    BY <1>4, <1>7, <2>2 DEF Id
  <2> QED
    BY <1>5, <2>1, <2>2
<1>9. SchemaSticks'
  <2> SUFFICES ASSUME NEW i \in DOMAIN printed', NEW j \in DOMAIN printed', i < j,
                      log[printed'[i].n].id = log[printed'[j].n].id,
                      printed'[i].schema \in Schemas
               PROVE  \/ printed'[j].schema = printed'[i].schema
                      \/ /\ printed'[j].schema = "none"
                         /\ cfg.full \/ log[printed'[j].n].fate = "unframed"
    BY <1>2 DEF SchemaSticks, Schemas
  <2>1. i \in DOMAIN printed /\ printed'[i] = printed[i]
    BY <1>3, <1>5
  <2>2. CASE j \in DOMAIN printed /\ printed'[j] = printed[j]
    BY <1>1, <2>1, <2>2 DEF SchemaSticks
  <2>3. CASE j = m
    <3>1. log[printed[i].n].id = Id /\ printed[i].schema \in Schemas
      BY <1>4, <2>1, <2>3 DEF Id
    <3>2. cfg.serde = "avro" /\ Id \in DOMAIN cache /\ cache[Id] = printed[i].schema
      BY <1>1, <2>1, <3>1 DEF Kept
    <3>3. Known
      BY <3>2 DEF Known, Id
    <3>4. \/ schema = "none" /\ (cfg.full \/ log[pos].fate = "unframed")
          \/ cache'[Id] = schema
      BY <1>2, <3>2, <3>3 DEF Outcome
    <3> QED
      BY <1>4, <1>6, <2>1, <2>3, <3>2, <3>4
  <2> QED
    BY <1>5, <2>2, <2>3
<1> QED
  BY <1>8, <1>9

LEMMA CachedStep == IInv /\ [Next]_vars => Cached'
<1> SUFFICES ASSUME IInv, [Next]_vars PROVE Cached'
  OBVIOUS
<1> USE DEF Cached
<1>0. /\ Kept /\ SchemaSticks
      /\ pc = "lookup" => cfg.serde = "avro" /\ ~Known
      /\ pc = "spins" => cfg.serde = "pack"
  BY DEF IInv
<1>1. CASE Arrive
  BY <1>1, CacheLog
<1>2. CASE Open
  BY <1>0, <1>2, CacheFrame DEF Open
<1>3. CASE TestRun
  BY <1>0, <1>3, CacheFrame DEF TestRun, Return
<1>4. CASE CheckStop
  <2>1. Kept' /\ SchemaSticks'
    BY <1>0, <1>4, CacheFrame DEF CheckStop
  <2>2. pc' \in {"print", "loop"}
    BY <1>4 DEF CheckStop
  <2> QED
    BY <2>1, <2>2
<1>5. CASE Receive
  BY <1>0, <1>5, CacheFrame DEF Receive
<1>6. CASE DeadlineExceeded
  BY <1>0, <1>6, CacheFrame DEF DeadlineExceeded
<1>7. CASE ReadError
  BY <1>0, <1>7, CacheFrame DEF ReadError, Return
<1>8. CASE Spin /\ pc = "print"
  BY <1>0, <1>8, CacheFrame DEF Spin
<1>9. CASE BeginLookup /\ pc = "print"
  BY <1>0, <1>9, CacheFrame DEF BeginLookup, Known
<1>10. ASSUME NEW how \in Hows, NEW schema \in Verdicts, Shows(how, schema)
       PROVE  Cached'
  <2>1. pc' \in {"exited", "count"}
    BY <1>10 DEF Shows, Printed
  <2> QED
    BY <1>10, <2>1, CachePrint
<1>11. CASE Count
  BY <1>0, <1>11, CacheFrame DEF Count, Return
<1>12. CASE Exit
  BY <1>0, <1>12, CacheFrame DEF Exit
<1>13. CASE Signal
  BY <1>0, <1>13, CacheFrame DEF Signal, ownVars, Known
<1>14. CASE UNCHANGED vars
  BY <1>0, <1>14, CacheFrame DEF vars, ownVars, Known
<1> QED
  BY <1>1, <1>2, <1>3, <1>4, <1>5, <1>6, <1>7, <1>8, <1>9, <1>10, <1>11, <1>12,
     <1>13, <1>14, Steps

-----------------------------------------------------------------------------
(***************************************************************************)
(* The inductive invariant holds in every reachable state.                 *)
(***************************************************************************)
LEMMA InitInvariant == Init => IInv
<1> SUFFICES ASSUME Init PROVE IInv
  OBVIOUS
<1>0. /\ log = <<>> /\ printed = <<>> /\ cache = <<>> /\ start = 0 /\ pos = 0
      /\ pc = "open" /\ stopCnt = 0 /\ rx = 0 /\ late = 0 /\ exitCode = 0
      /\ cfg \in Configs
  BY DEF Init
<1>1. run = TRUE /\ partStop = FALSE /\ failed = FALSE
  BY DEF Init, SigInit
<1>2. /\ Len(log) = 0 /\ Len(printed) = 0 /\ DOMAIN printed = {} /\ DOMAIN cache = {}
  BY <1>0
<1>3. TypeOK
  <2>1. SigTypeOK
    BY ConsumerAssumption DEF Init, SigInit, SigTypeOK
  <2>2. Range(cache) \subseteq Schemas /\ DOMAIN cache \subseteq Ids
    BY <1>2 DEF Range
  <2>3. /\ log \in Seq(cfg.topic) /\ Len(log) <= MaxLog
        /\ printed \in Seq([n : 1..pos, how : Hows, schema : Schemas \cup {"none", "failed"}])
    <3>1. log \in Seq(cfg.topic)
      BY <1>0, EmptySeq
    <3>2. printed \in Seq([n : 1..pos, how : Hows, schema : Schemas \cup {"none", "failed"}])
      BY <1>0, EmptySeq
    <3> QED
      BY <1>2, <3>1, <3>2, ConsumerAssumption
  <2> HIDE <1>0, <1>2
  <2>4. /\ start = 0 /\ pos = 0 /\ pc = "open" /\ stopCnt = 0 /\ rx = 0 /\ late = 0
        /\ exitCode = 0 /\ cfg \in Configs /\ Len(log) = 0 /\ Len(printed) = 0
    BY <1>0, <1>2
  <2>5. /\ start \in 0..Len(log) /\ pos \in start..Len(log) /\ pc \in Places
        /\ stopCnt \in 0..1 /\ rx \in 0..Len(printed) /\ late \in Nat
        /\ exitCode \in 0..2
    BY <2>4 DEF Places
  <2>6. partStop \in BOOLEAN /\ failed \in BOOLEAN
    BY <1>1, Zenon
  <2> QED
    BY <2>1, <2>2, <2>3, <2>4, <2>5, <2>6, Zenon DEF TypeOK
<1>4. Place
  BY <1>0, <1>1, <1>2 DEF Place, InHand
<1>5. Counted
  <2>1. cfg.limit \in Nat
    BY <1>0, ConsumerAssumption DEF ConfigOK
  <2> QED
    BY <1>0, <1>2, <2>1 DEF Counted
<1>6. Stopped
  BY <1>0, <1>1, <1>2 DEF Stopped, Past
<1>7. OnceMore
  BY <1>0, <1>1 DEF OnceMore
<1>8. Cached
  BY <1>0, <1>2 DEF Cached, Kept, SchemaSticks
<1>9. Ended
  BY <1>0 DEF Ended
<1> QED
  BY <1>3, <1>4, <1>5, <1>6, <1>7, <1>8, <1>9 DEF IInv

THEOREM Invariance == Spec => []IInv
<1>1. IInv /\ [Next]_vars => IInv'
  BY TypeStep, PlaceStep, CountedStep, StoppedStep, OnceMoreStep, CachedStep, EndedStep DEF IInv
<1> QED
  BY InitInvariant, <1>1, PTL DEF Spec

(***************************************************************************)
(* Every variable keeps its type.                                          *)
(***************************************************************************)
THEOREM TypeCorrect == Spec => []TypeOK
<1>1. IInv => TypeOK
  BY DEF IInv
<1> QED
  BY <1>1, Invariance, PTL

(***************************************************************************)
(* Nothing at or behind the first message past the stop timestamp is       *)
(* printed, and a run that it ends has printed all that came before.       *)
(***************************************************************************)
THEOREM StopTSAlwaysHonoured == Spec => []StopTSHonoured
<1>1. ASSUME IInv PROVE StopTSHonoured
  <2>1. /\ Len(printed) \in Nat /\ start \in Nat /\ pos \in Nat
        /\ DOMAIN printed = 1..Len(printed)
    BY <1>1, LenProperties DEF IInv, TypeOK
  <2>2. /\ \A i \in DOMAIN printed : printed[i].n = start + i
        /\ partStop => pos - start = Len(printed) + 1
    BY <1>1 DEF IInv, Place
  <2>3. /\ cfg.stopTS # 0 =>
             \A k \in (start + 1)..(start + Len(printed)) : log[k].ts < cfg.stopTS
        /\ partStop => ~run
    BY <1>1 DEF IInv, Stopped
  <2>4. ASSUME cfg.stopTS # 0, NEW i \in DOMAIN printed,
               NEW k \in (start + 1)..printed[i].n
        PROVE  log[k].ts < cfg.stopTS
    BY <2>1, <2>2, <2>3, <2>4
  <2>5. partStop => Len(printed) = pos - start - 1 /\ ~run
    BY <2>1, <2>2, <2>3
  <2> QED
    BY <2>4, <2>5 DEF StopTSHonoured
<1> QED
  BY <1>1, Invariance, PTL

(***************************************************************************)
(* -c n: no message behind the nth is read, and the nth ends the loop.     *)
(***************************************************************************)
THEOREM LimitAlwaysExact == Spec => []LimitExact
<1>1. ASSUME IInv PROVE LimitExact
  <2>1. /\ Len(printed) \in Nat /\ start \in Nat /\ pos \in Nat /\ rx \in Nat
        /\ cfg.limit \in Nat
    BY <1>1, LenProperties, ConsumerAssumption DEF IInv, TypeOK, ConfigOK
  <2>2. pos - start = Len(printed) + (IF partStop \/ InHand THEN 1 ELSE 0)
    BY <1>1 DEF IInv, Place
  <2>3. Counted
    BY <1>1 DEF IInv
  <2>4. /\ exitCode = 2 => pc = "exited"
        /\ partStop => exitCode # 2 /\ pc \in {"loop", "returned", "exited"}
    BY <1>1 DEF IInv, Ended, Stopped
  <2>5. cfg.limit > 0 => pos - start <= cfg.limit
    BY <2>1, <2>2, <2>3, <2>4 DEF Counted, InHand
  <2>6. cfg.limit > 0 /\ rx = cfg.limit => ~(rx < cfg.limit)
    BY <2>1
  <2>7. cfg.limit > 0 /\ rx = cfg.limit => pc \in {"returned", "exited"} /\ ~run
    BY <2>3, <2>6, Zenon DEF Counted
  <2> QED
    BY <2>5, <2>7 DEF LimitExact
<1> QED
  BY <1>1, Invariance, PTL

(***************************************************************************)
(* What the registry said of a schema id holds for the rest of the run.    *)
(***************************************************************************)
THEOREM SchemaAlwaysSticks == Spec => []SchemaSticks
<1>1. IInv => SchemaSticks
  BY DEF IInv, Cached
<1> QED
  BY <1>1, Invariance, PTL

(***************************************************************************)
(* Exit status 0: the run was ended from outside, by the limit or by the   *)
(* stop timestamp, and what was read is printed and counted.               *)
(***************************************************************************)
THEOREM ExitCodeAlwaysTells == Spec => []ExitCodeTells
<1>1. ASSUME IInv PROVE ExitCodeTells
  <2>1. Len(printed) \in Nat /\ start \in Nat /\ pos \in Nat /\ rx \in Nat
    BY <1>1, LenProperties DEF IInv, TypeOK
  <2>2. /\ pos - start = Len(printed) + (IF partStop \/ InHand THEN 1 ELSE 0)
        /\ rx = Len(printed) - (IF pc = "count" \/ exitCode = 2 THEN 1 ELSE 0)
        /\ pc = "exited" /\ exitCode = 0 => ~run
    BY <1>1 DEF IInv, Place, Counted, Ended
  <2> QED
    BY <2>1, <2>2 DEF ExitCodeTells, InHand
<1> QED
  BY <1>1, Invariance, PTL

-----------------------------------------------------------------------------
(***************************************************************************)
(* Consumer implements Feed, with the numbers of the printed messages for  *)
(* what is shown and Run cleared for stopped.                              *)
(***************************************************************************)
Shown == [i \in DOMAIN printed |-> printed[i].n]

LEMMA SameOutput ==
  ASSUME UNCHANGED <<printed, start, late>>, Len(log') = Len(log)
  PROVE  /\ run' = run => UNCHANGED Output!vars
         /\ run' = FALSE => Output!Stop
<1>1. UNCHANGED <<Len(log), start, Shown, late>>
  BY DEF Shown
<1>2. run' = run => (~run)' = ~run
  OBVIOUS
<1>3. run' = FALSE => (~run)' = TRUE
  OBVIOUS
<1> QED
  BY <1>1, <1>2, <1>3, Zenon DEF Output!vars, Output!Stop, Shown

LEMMA ShowImplements ==
  ASSUME IInv, NEW how \in Hows, NEW schema \in Verdicts, Shows(how, schema)
  PROVE  Output!Show
<1>1. /\ UNCHANGED <<log, start>> /\ run' = run /\ pos <= Len(log)
      /\ late' = IF run THEN late ELSE late + 1
  BY InHandIsRead DEF Shows, Printed, sigVars
<1>2. late = 0
  BY DEF IInv, OnceMore, Shows, Past
<1>3. /\ DOMAIN printed = 1..Len(printed) /\ DOMAIN printed' = 1..Len(printed')
      /\ Len(printed') = Len(printed) + 1 /\ Len(printed) \in Nat
      /\ pos = start + Len(printed')
      /\ \A i \in 1..Len(printed) : printed'[i] = printed[i]
      /\ printed'[Len(printed')] = [n |-> pos, how |-> how, schema |-> schema]
  BY OutputGrows
<1>4. Len(Shown) = Len(printed)
  BY <1>3 DEF Shown
<1>5. Shown' = Append(Shown, pos)
  BY <1>3, <1>4 DEF Shown
<1>6. start \in Nat /\ pos = start + Len(Shown) + 1
  BY <1>3, <1>4 DEF IInv, TypeOK
<1>7. late' = IF ~run THEN 1 ELSE 0
  BY <1>1, <1>2
<1> QED
  BY <1>1, <1>2, <1>5, <1>6, <1>7 DEF Output!Show, Shown

LEMMA StepImplements == IInv /\ [Next]_vars => [Output!Next]_(Output!vars)
<1> SUFFICES ASSUME IInv, [Next]_vars PROVE [Output!Next]_(Output!vars)
  OBVIOUS
<1> USE DEF Output!Next
<1>1. CASE Arrive
  BY <1>1, LogGrows DEF Arrive, Output!Arrive, sigVars
<1>2. CASE Open
  <2>1. Shown = <<>> /\ start' \in 0..Len(log)
    BY <1>2 DEF Open, IInv, Place, Shown
  <2> QED
    BY <1>2, <2>1 DEF Open, Output!Begin, sigVars, Shown
<1>3. CASE TestRun
  BY <1>3, SameOutput DEF TestRun, sigVars
<1>4. CASE CheckStop
  <2>1. run' = run \/ run' = FALSE
    BY <1>4, CheckStopOutcome, Zenon
  <2> QED
    BY <1>4, <2>1, SameOutput DEF CheckStop
<1>5. CASE Receive
  BY <1>5, SameOutput DEF Receive, sigVars
<1>6. CASE DeadlineExceeded
  BY <1>6, SameOutput DEF DeadlineExceeded, sigVars
<1>7. CASE ReadError
  BY <1>7, SameOutput DEF ReadError, sigVars
<1>8. CASE Spin
  BY <1>8, SameOutput DEF Spin, sigVars
<1>9. CASE BeginLookup
  BY <1>9, SameOutput DEF BeginLookup, sigVars
<1>10. ASSUME NEW how \in Hows, NEW schema \in Verdicts, Shows(how, schema)
       PROVE  Output!Next
  BY <1>10, ShowImplements
<1>11. CASE Count
  <2>1. run' = run \/ run' = FALSE
    BY <1>11, Zenon DEF Count
  <2> QED
    BY <1>11, <2>1, SameOutput DEF Count
<1>12. CASE Exit
  BY <1>12, SameOutput DEF Exit, sigVars
<1>13. CASE Signal
  <2>1. run' = run \/ run' = FALSE
    BY <1>13, Zenon DEF Signal, Notify, ReceiveSignal
  <2> QED
    BY <1>13, <2>1, SameOutput DEF Signal, ownVars
<1>14. CASE UNCHANGED vars
  BY <1>14, SameOutput DEF vars, ownVars, sigVars
<1> QED
  BY <1>1, <1>2, <1>3, <1>4, <1>5, <1>6, <1>7, <1>8, <1>9, <1>10, <1>11, <1>12,
     <1>13, <1>14, Steps

(***************************************************************************)
(* The output of consumer mode is a stretch of the partition, without a    *)
(* gap or a repetition, and goes on for one message at most after a stop,  *)
(* whatever the deadlines, print errors and lookups on the way.            *)
(***************************************************************************)
THEOREM Implementation == Spec => FeedSpec
<1>1. Init => Output!Init
  <2> SUFFICES ASSUME Init PROVE Output!Init
    OBVIOUS
  <2>1. Len(log) = 0 /\ start = 0 /\ Shown = <<>> /\ late = 0 /\ (~run) = FALSE
    BY DEF Init, SigInit, Shown
  <2> QED
    BY <2>1 DEF Output!Init, Shown
<1> QED
  BY <1>1, StepImplements, Invariance, PTL DEF Spec, FeedSpec, Output!Spec

=============================================================================
