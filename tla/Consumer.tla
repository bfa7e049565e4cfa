------------------------------ MODULE Consumer ------------------------------
(***************************************************************************)
(* Consumer mode: RunConsumer of kafka/consumer.go, with runConsumerMode   *)
(* and the end of main in main.go.  It reads one partition of one topic    *)
(* and prints each message, until a signal, a message count, a timestamp   *)
(* or an error ends it.  It keeps no offsets: outside a consumer group the *)
(* CommitMessages call fails, and its result is not looked at.             *)
(*                                                                         *)
(* Printing is format/printer.go.  With -s the value goes through Unpack   *)
(* or the Avro decoder, whose schemas come from a registry and are kept by *)
(* their ids (serde/avro.go).  What these make of one message's data is    *)
(* worked out in modules Pack and Avro; here it is an attribute of the     *)
(* message, and the process and the registry are what changes.             *)
(*                                                                         *)
(* External: kafka-go's Reader.  ReadMessage returns the next message of   *)
(* the partition, from an offset fixed when the Reader starts, or the      *)
(* context's deadline, which the loop sets to 100 ms, or another error.    *)
(* The registry is asked over HTTP without a timeout: it may answer with a *)
(* schema, without one, with an error, or not at all.                      *)
(***************************************************************************)
EXTENDS Integers, Sequences, Functions, Signals

CONSTANTS Configs,     \* the command lines, see ConfigOK
          Timestamps,  \* timestamps of messages, in ms
          Ids,         \* schema ids
          MaxLog       \* bound of the model: messages in the partition

(***************************************************************************)
(* A message: its timestamp, the schema id its value is framed with, and   *)
(* what -s makes of its value, with a good schema: it is printed, ends in  *)
(* an error, in a panic, or never; unframed is an error before the id is   *)
(* read.                                                                   *)
(***************************************************************************)
Fates == {"whole", "cut", "panic", "spins", "unframed"}

Messages == [ts : Timestamps, id : Ids, fate : Fates]

(***************************************************************************)
(* A command line and what it meets.  limit is -c, stopTS is -o e@, both 0 *)
(* when not given; exitEOF is -e; serde is -s value=, "avro" with a        *)
(* registry (-r) and "avro only" without one.  topic holds the messages    *)
(* that may be in the partition; full says that stdout may refuse a write. *)
(***************************************************************************)
Serdes == {"none", "pack", "avro", "avro only"}

ConfigOK(c) == /\ c.limit \in Nat /\ c.stopTS \in Nat /\ c.exitEOF \in BOOLEAN
               /\ c.serde \in Serdes /\ c.topic \subseteq Messages
               /\ c.full \in BOOLEAN

ASSUME ConsumerAssumption ==
  /\ \A c \in Configs : ConfigOK(c)
  /\ Timestamps \subseteq Nat \ {0}
  /\ MaxLog \in Nat /\ MaxSignals \in Nat

VARIABLES cfg,       \* the command line
          log,       \* the partition
          start,     \* messages before the offset the Reader started from
          pos,       \* messages up to the last one ReadMessage returned
          pc,        \* where the process is
          partStop,  \* partStop[pid] of the one partition read
          stopCnt,   \* partStopCnt
          printed,   \* what was printed: message numbers, how, by what schema
          cache,     \* cache of the registry client: schema, or none, by id
          rx,        \* config.Cfg.Rx
          late,      \* history: messages printed after run was cleared
          failed,    \* RunConsumer returned an error
          exitCode   \* the process's exit code

ownVars == <<cfg, log, start, pos, pc, partStop, stopCnt, printed, cache, rx,
             late, failed, exitCode>>
vars == <<ownVars, sigVars>>

Places == {"open", "loop", "read", "check", "print", "lookup", "spins", "count",
           "returned", "exited"}

Schemas == {"good", "empty"}  \* in the cache: a schema, or the lack of one
Hows == {"whole", "cut", "panic"}

TypeOK == /\ SigTypeOK
          /\ cfg \in Configs
          /\ log \in Seq(cfg.topic) /\ Len(log) <= MaxLog
          /\ start \in 0..Len(log) /\ pos \in start..Len(log)
          /\ pc \in Places
          /\ partStop \in BOOLEAN /\ stopCnt \in 0..1
          /\ printed \in Seq([n : 1..pos, how : Hows,
                               schema : Schemas \cup {"none", "failed"}])
          /\ DOMAIN cache \subseteq Ids /\ Range(cache) \subseteq Schemas
          /\ rx \in 0..Len(printed) /\ late \in Nat
          /\ failed \in BOOLEAN /\ exitCode \in 0..2

Init == /\ SigInit
        /\ cfg \in Configs
        /\ log = <<>> /\ start = 0 /\ pos = 0
        /\ pc = "open"
        /\ partStop = FALSE /\ stopCnt = 0
        /\ printed = <<>> /\ cache = <<>> /\ rx = 0 /\ late = 0
        /\ failed = FALSE /\ exitCode = 0

-----------------------------------------------------------------------------
(***************************************************************************)
(* External: another client appends a message; clocks may disagree.        *)
(***************************************************************************)
Arrive == /\ pc # "exited" /\ Len(log) < MaxLog
          /\ \E m \in cfg.topic : log' = Append(log, m)
          /\ UNCHANGED <<sigVars, cfg, start, pos, pc, partStop, stopCnt,
                         printed, cache, rx, late, failed, exitCode>>

(***************************************************************************)
(* NewConsumer: the Reader starts at the offset it makes of StartOffset.   *)
(***************************************************************************)
Open == /\ pc = "open"
        /\ start' \in 0..Len(log) /\ pos' = start'
        /\ pc' = "loop"
        /\ UNCHANGED <<sigVars, cfg, log, partStop, stopCnt, printed, cache,
                       rx, late, failed, exitCode>>

-----------------------------------------------------------------------------
(***************************************************************************)
(* RunConsumer.                                                            *)
(***************************************************************************)
Return(err) == pc' = "returned" /\ failed' = err

TestRunIgnored ==  \* mutant: for without Run
  /\ pc = "loop" /\ pc' = "read"
  /\ UNCHANGED <<sigVars, cfg, log, start, pos, partStop, stopCnt, printed,
                 cache, rx, late, failed, exitCode>>

TestRun == /\ pc = "loop"
           /\ IF run THEN pc' = "read" /\ UNCHANGED failed ELSE Return(FALSE)
           /\ UNCHANGED <<sigVars, cfg, log, start, pos, partStop, stopCnt,
                          printed, cache, rx, late, exitCode>>

(***************************************************************************)
(* The three outcomes of ReadMessage.                                      *)
(***************************************************************************)
Receive == /\ pc = "read" /\ pos < Len(log)
           /\ pos' = pos + 1
           /\ pc' = "check"
           /\ UNCHANGED <<sigVars, cfg, log, start, partStop, stopCnt,
                          printed, cache, rx, late, failed, exitCode>>

DeadlineExceeded == /\ pc = "read" /\ pc' = "loop"
                    /\ UNCHANGED <<sigVars, cfg, log, start, pos, partStop,
                                   stopCnt, printed, cache, rx, late, failed,
                                   exitCode>>

ErrorIgnored ==  \* mutant: every error is taken for the deadline
  /\ pc = "read" /\ Return(FALSE)
  /\ UNCHANGED <<sigVars, cfg, log, start, pos, partStop, stopCnt, printed,
                 cache, rx, late, exitCode>>

ReadError == /\ pc = "read" /\ Return(TRUE)
             /\ UNCHANGED <<sigVars, cfg, log, start, pos, partStop, stopCnt,
                            printed, cache, rx, late, exitCode>>

(***************************************************************************)
(* The stop timestamp.  A message at or past it is passed over; the first  *)
(* one of the partition counts, and when as many partitions as the         *)
(* threshold asks for have counted, Run is cleared.                        *)
(***************************************************************************)
PartStopThres == IF cfg.exitEOF \/ cfg.stopTS # 0 THEN 1 ELSE 0

PastStopExclusive == cfg.stopTS # 0 /\ log[pos].ts > cfg.stopTS  \* mutant

PastStop == cfg.stopTS # 0 /\ log[pos].ts >= cfg.stopTS

StopOneLate ==  \* mutant: counts messages, and up to the threshold
  /\ partStop' = TRUE
  /\ stopCnt' = stopCnt + 1
  /\ run' = IF stopCnt' > PartStopThres THEN FALSE ELSE run

StopPartition ==
  IF partStop
  THEN UNCHANGED <<run, partStop, stopCnt>>
  ELSE /\ partStop' = TRUE
       /\ stopCnt' = stopCnt + 1
       /\ run' = IF stopCnt' >= PartStopThres THEN FALSE ELSE run

CheckStop == /\ pc = "check"
             /\ IF PastStop
                THEN pc' = "loop" /\ StopPartition
                ELSE pc' = "print" /\ UNCHANGED <<run, partStop, stopCnt>>
             /\ UNCHANGED <<sigCh, watching, sent, cfg, log, start, pos,
                            printed, cache, rx, late, failed, exitCode>>

(***************************************************************************)
(* Print writes the tokens of the format one by one and stops at the first *)
(* error, which is reported and otherwise ignored; so the message is       *)
(* counted, whole or cut off.  A panic ends the process with status 2.  It *)
(* has steps of its own because a signal may come before the count.        *)
(***************************************************************************)
Printed(how, schema) ==
  /\ printed' = Append(printed, [n |-> pos, how |-> how, schema |-> schema])
  /\ late' = IF run THEN late ELSE late + 1
  /\ IF how = "panic" THEN pc' = "exited" /\ exitCode' = 2
                      ELSE pc' = "count" /\ UNCHANGED exitCode
  /\ UNCHANGED <<sigVars, cfg, log, start, pos, partStop, stopCnt, rx, failed>>

PrintRaw == /\ cfg.serde = "none"
            /\ Printed("whole", "none")
            /\ UNCHANGED cache

PrintPacked == /\ cfg.serde = "pack" /\ log[pos].fate \in Hows
               /\ Printed(log[pos].fate, "none")
               /\ UNCHANGED cache

(***************************************************************************)
(* Unpack comes to a token that does not advance it, and may write it over *)
(* and over; only a failing write gets it out of its loop.                 *)
(***************************************************************************)
Spin == /\ cfg.serde = "pack" /\ log[pos].fate = "spins"
        /\ pc' = "spins"
        /\ UNCHANGED <<sigVars, cfg, log, start, pos, partStop, stopCnt,
                       printed, cache, rx, late, failed, exitCode>>

(***************************************************************************)
(* AvroToJSON: an error without a frame or a registry, else the schema is  *)
(* in the cache or has to be looked up.  An empty schema cannot be parsed. *)
(***************************************************************************)
Unreadable == \/ cfg.serde = "avro only"
              \/ cfg.serde = "avro" /\ log[pos].fate = "unframed"

PrintUnreadable == Unreadable /\ Printed("cut", "none") /\ UNCHANGED cache

Deserialized(schema) ==
  LET fate == log[pos].fate IN
  \/ schema = "good" /\ fate \in Hows /\ Printed(fate, schema)
  \/ schema = "good" /\ fate = "whole" /\ cfg.full /\ Printed("cut", schema)
  \/ schema = "empty" /\ Printed("cut", schema)

Known == log[pos].id \in DOMAIN cache

PrintCached == /\ cfg.serde = "avro" /\ ~Unreadable /\ Known
               /\ Deserialized(cache[log[pos].id])
               /\ UNCHANGED cache

BeginLookup == /\ cfg.serde = "avro" /\ ~Unreadable /\ ~Known
               /\ pc' = "lookup"
               /\ UNCHANGED <<sigVars, cfg, log, start, pos, partStop,
                              stopCnt, printed, cache, rx, late, failed,
                              exitCode>>

(***************************************************************************)
(* A write to stdout fails, in the middle of a message.                    *)
(***************************************************************************)
StdoutFails == cfg.full /\ Printed("cut", "none") /\ UNCHANGED cache

SpinFails == /\ pc = "spins" /\ cfg.full
             /\ Printed("cut", "none")
             /\ UNCHANGED cache

PrintAgain ==  \* mutant: prints the message again after an error
  /\ pc = "print"
  /\ printed' = Append(printed, [n |-> pos, how |-> "cut", schema |-> "none"])
  /\ pc' \in {"print", "count"}
  /\ UNCHANGED <<sigVars, cfg, log, start, pos, partStop, stopCnt, cache, rx,
                 late, failed, exitCode>>

PrintOut == /\ pc = "print"
            /\ \/ PrintRaw \/ PrintPacked \/ Spin
               \/ PrintUnreadable \/ PrintCached \/ BeginLookup
               \/ StdoutFails

(***************************************************************************)
(* GetSchema without the schema in the cache.  Any answer with status 200  *)
(* and a JSON object is kept, also when no schema is in it; errors are     *)
(* not.                                                                    *)
(***************************************************************************)
LookupFails == /\ pc = "lookup"
               /\ Printed("cut", "failed")
               /\ UNCHANGED cache

AnswerDropped ==  \* mutant: the schema is not kept
  /\ pc = "lookup"
  /\ \E schema \in Schemas : Deserialized(schema)
  /\ UNCHANGED cache

LookupAnswered ==
  /\ pc = "lookup"
  /\ \E schema \in Schemas :
       /\ cache' = [i \in DOMAIN cache \cup {log[pos].id} |->
                      IF i = log[pos].id THEN schema ELSE cache[i]]
       /\ Deserialized(schema)

LimitPassed == cfg.limit > 0 /\ rx >= cfg.limit  \* mutant: tests before Rx++

LimitReached == cfg.limit > 0 /\ rx + 1 >= cfg.limit

Count == /\ pc = "count"
         /\ rx' = rx + 1
         /\ IF LimitReached
            THEN run' = FALSE /\ Return(FALSE)
            ELSE pc' = "loop" /\ UNCHANGED <<run, failed>>
         /\ UNCHANGED <<sigCh, watching, sent, cfg, log, start, pos, partStop,
                        stopCnt, printed, cache, late, exitCode>>

(***************************************************************************)
(* runConsumerMode and the end of main.                                    *)
(***************************************************************************)
Exit == /\ pc = "returned"
        /\ pc' = "exited"
        /\ exitCode' = IF failed THEN 1 ELSE 0
        /\ UNCHANGED <<sigVars, cfg, log, start, pos, partStop, stopCnt,
                       printed, cache, rx, late, failed>>

Signal == /\ pc # "exited"
          /\ Notify \/ ReceiveSignal
          /\ UNCHANGED ownVars

-----------------------------------------------------------------------------
ReadMessage == Receive \/ DeadlineExceeded \/ ReadError

Process == \/ Open \/ TestRun \/ CheckStop \/ PrintOut \/ Count \/ Exit
           \/ ReadMessage

Registry == LookupFails \/ LookupAnswered

Next == Arrive \/ Process \/ SpinFails \/ Registry \/ Signal

Spec == Init /\ [][Next]_vars

(***************************************************************************)
(* The process runs; ReadMessage returns, at the latest at its deadline.   *)
(* The Reader fetches in the background whether or not a call waits, so a  *)
(* message that is there is returned by one of the calls: strong fairness. *)
(* Nobody is obliged to append a message or to send a signal, but the      *)
(* goroutine that waits for one is scheduled.  Nothing makes the registry  *)
(* answer, or a write to stdout fail.                                      *)
(***************************************************************************)
FairSpec == /\ Spec
            /\ WF_vars(Process) /\ SF_vars(Receive)
            /\ WF_vars(ReceiveSignal /\ UNCHANGED ownVars)

-----------------------------------------------------------------------------
(***************************************************************************)
(* The output is the partition from the start offset on, in order, without *)
(* a gap or a repetition, and ends at most one message after Run was       *)
(* cleared (consumer.go 41-82): neither a deadline, nor an ignored print   *)
(* error, nor a lookup that fails makes the loop lose its place or print   *)
(* twice.  Consumer implements Feed.                                       *)
(***************************************************************************)
Output == INSTANCE Feed WITH arrived <- Len(log),
                             shown   <- [i \in DOMAIN printed |-> printed[i].n],
                             stopped <- ~run,
                             extra   <- late

FeedSpec == Output!Spec

(***************************************************************************)
(* -o e@ts (consumer.go 52-65): nothing at or past the stop timestamp, and *)
(* nothing behind the first such message is printed, whatever the clocks   *)
(* of the producers; a run it ends has printed all that came before.       *)
(***************************************************************************)
StopTSHonoured ==
  cfg.stopTS # 0 =>
    /\ \A i \in DOMAIN printed : \A k \in (start + 1)..printed[i].n :
         log[k].ts < cfg.stopTS
    /\ partStop => Len(printed) = pos - start - 1 /\ ~run

(***************************************************************************)
(* -c n (consumer.go 77-82) is exact: never more than n messages are       *)
(* printed or even read, and with the nth the loop is over.                *)
(***************************************************************************)
LimitExact ==
  cfg.limit > 0 =>
    /\ pos - start <= cfg.limit
    /\ rx = cfg.limit => pc \in {"returned", "exited"} /\ ~run

(***************************************************************************)
(* What the registry once said of a schema id (avro.go 92-133) holds for   *)
(* the rest of the run: no later message of that id is decoded with        *)
(* another answer, or fails for want of one.  That is so of an answer with *)
(* no schema in it too, which leaves every such message unreadable.        *)
(***************************************************************************)
SchemaSticks ==
  \A i, j \in DOMAIN printed :
    LET first == printed[i]
        later == printed[j]
    IN /\ i < j /\ log[first.n].id = log[later.n].id
       /\ first.schema \in Schemas
       => \/ later.schema = first.schema
          \/ /\ later.schema = "none"
             /\ cfg.full \/ log[later.n].fate = "unframed"

(***************************************************************************)
(* Exit status 0 (consumer.go 45-50, main.go 329-332) means that a signal, *)
(* the limit or the stop timestamp ended the run, never that the Reader    *)
(* failed, and that nothing was read without being printed and counted,    *)
(* but the message at the stop timestamp.                                  *)
(***************************************************************************)
ExitCodeTells ==
  pc = "exited" /\ exitCode = 0 =>
    /\ ~run /\ rx = Len(printed)
    /\ start + rx + (IF partStop THEN 1 ELSE 0) = pos

(***************************************************************************)
(* A signal, the limit or the stop timestamp does end the process: the     *)
(* 100 ms deadline (consumer.go 42) takes the loop back to its test.  Two  *)
(* things can keep it from ever getting there: a registry that does not    *)
(* answer, and a pack-format that Unpack does not come through.            *)
(***************************************************************************)
Stuck == pc \in {"lookup", "spins"}

StopsWhenAsked ==
  ((sigCh = 1 /\ watching) \/ ~run) ~> (pc = "exited" \/ []Stuck)

(***************************************************************************)
(* Every message that arrives behind the start offset is printed, or the   *)
(* process ends, or is held up for good in one of those two places.        *)
(***************************************************************************)
Drains == \A n \in 1..MaxLog :
            (pc # "open" /\ start < n /\ n <= Len(log)) ~>
              \/ pc = "exited" \/ []Stuck
              \/ \E i \in DOMAIN printed : printed[i].n = n

(***************************************************************************)
(* What cmd/root.go:76 says of -e: "Exit successfully when last message    *)
(* received".  REFUTED: nothing tells the loop that it has reached the end *)
(* of the partition, and ExitEOF only sets a threshold that is tested when *)
(* there is a stop timestamp.  (MaxLog messages: no more will come.)       *)
(***************************************************************************)
ExitsAtEOF ==
  (cfg.exitEOF /\ Len(log) = MaxLog /\ start < pos /\ pos = Len(log)) ~>
    (pc = "exited")

=============================================================================
