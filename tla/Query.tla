------------------------------- MODULE Query --------------------------------
(***************************************************************************)
(* Query mode: ParseToppar and RunQuery of kafka/query.go.  Every argument *)
(* topic:partition:timestamp becomes a request; the requests go out as one *)
(* ListOffsets call, and a line is printed for each argument.              *)
(*                                                                         *)
(* An argument is the sequence of its parts between colons.  A part that   *)
(* is no number is NaN, which Sscanf leaves at 0.  Offsets and timestamps  *)
(* are the code's; -1 stands for an unknown offset.                        *)
(***************************************************************************)
EXTENDS Integers, Sequences, FiniteSetsExt

Unknown == -1
OffsetBeginning == -2   \* also kafka-go's FirstOffset
NaN == -99

ParsedInt(part) == IF part = NaN THEN 0 ELSE part

(***************************************************************************)
(* ParseToppar.  Only the first two colons separate parts.  A negative     *)
(* timestamp, whichever, asks for the beginning.                           *)
(***************************************************************************)
Accepted(arg) == Len(arg) >= 3

TimeAsked(t) == IF t >= 0 THEN t ELSE OffsetBeginning

ParseToppar(arg) ==
  [topic |-> arg[1], partition |-> ParsedInt(arg[2]),
   time  |-> TimeAsked(ParsedInt(arg[3]))]

-----------------------------------------------------------------------------
(***************************************************************************)
(* External: ListOffsets.  For each partition asked for there is one       *)
(* record, however often it was asked for: the first offset, if that was   *)
(* one of the questions, the last offset, likewise, and the set of the     *)
(* other answers; or an error.  What the broker answers to one question is *)
(* given by broker[topic][partition], a function of the time; a partition  *)
(* without one is answered with an error.                                  *)
(***************************************************************************)
LastOffset == -1

Known(broker, topic, p) == topic \in DOMAIN broker /\ p \in DOMAIN broker[topic]

Times(reqs, topic, p) ==
  {reqs[i].time : i \in {k \in DOMAIN reqs : reqs[k].topic = topic
                                              /\ reqs[k].partition = p}}

OneOf(asked, code, answer) == IF code \in asked THEN answer[code] ELSE Unknown

PartitionOffsets(broker, reqs, topic, p) ==
  LET asked == Times(reqs, topic, p) IN
  IF ~Known(broker, topic, p)
  THEN [partition |-> p, error |-> TRUE, first |-> Unknown, last |-> Unknown,
        offsets |-> {}]
  ELSE LET answer == broker[topic][p] IN
       [partition |-> p, error |-> FALSE,
        first   |-> OneOf(asked, OffsetBeginning, answer),
        last    |-> OneOf(asked, LastOffset, answer),
        offsets |-> {answer[t] : t \in asked \ {OffsetBeginning, LastOffset}}]

ListOffsets(broker, reqs) ==
  LET topics == {reqs[i].topic : i \in DOMAIN reqs}
      asked(t) == {reqs[i].partition : i \in {k \in DOMAIN reqs : reqs[k].topic = t}}
  IN [t \in topics |-> {PartitionOffsets(broker, reqs, t, p) : p \in asked(t)}]

-----------------------------------------------------------------------------
(***************************************************************************)
(* The offsets RunQuery may print for a request: the record of its         *)
(* partition, and in it the first offset, the last, or any of the others,  *)
(* which are the keys of a Go map.                                         *)
(***************************************************************************)
SomePartition(resp, req) == resp[req.topic]  \* mutant of Answering

Answering(resp, req) == {r \in resp[req.topic] : r.partition = req.partition}

Printable(r) ==
  IF r.error THEN {Unknown}
  ELSE IF r.first # Unknown THEN {r.first}
  ELSE IF r.last # Unknown THEN {r.last}
  ELSE IF r.offsets = {} THEN {Unknown}
  ELSE r.offsets

Lines(resp, req) == UNION {Printable(r) : r \in Answering(resp, req)}

RunQuery(broker, reqs) ==
  [i \in DOMAIN reqs |-> Lines(ListOffsets(broker, reqs), reqs[i])]

=============================================================================
