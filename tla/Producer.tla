------------------------------ MODULE Producer ------------------------------
(***************************************************************************)
(* Producer mode: kafka/producer.go and runProducerMode of main.go.        *)
(* produceFromStdin takes messages from input.Buffer one at a time, splits *)
(* the key off, and writes each to the broker before it takes the next;    *)
(* produceFromFiles writes each file as one message.                       *)
(*                                                                         *)
(* stdin is seen at the level of module Splitter: a sequence of messages   *)
(* that Next returns in order.  A complete message may be held back until  *)
(* more input arrives, because Next reads before it searches, so Next is   *)
(* sure to return only once stdin is closed; and it never returns from a   *)
(* line that fills its buffer (OversizeReported of module Buffer).         *)
(*                                                                         *)
(* External: kafka-go's Writer.  One WriteMessages call sends its message  *)
(* until it is acknowledged or the retries are used up, so the broker may  *)
(* append it several times, also when the call fails; with acks=0 the call *)
(* succeeds before the broker has the message, if it ever gets it.         *)
(***************************************************************************)
EXTENDS Search, FiniteSets, Signals

CONSTANTS Bytes,      \* the bytes of messages, keys and delimiters
          Lines,      \* the messages that may arrive on stdin: byte strings
          Configs,    \* the command lines, see ConfigOK
          MsgSize,    \* config.Cfg.MsgSize, the size of the buffer
          Nil,        \* Go's nil slice, and a file that cannot be read
          MaxLines,   \* bound of the model: messages on stdin
          MaxCopies   \* bound of the model: appends of one message

(***************************************************************************)
(* A command line: lineMode is -l; files the remaining arguments, each its *)
(* content or Nil; keyDelim, fixedKey and limit are -K, -k and -c, empty   *)
(* or 0 when not given; nullEmpty is -Z, tee -T, acked whether acks is not *)
(* 0.  main chooses producer mode only when there are arguments left.      *)
(***************************************************************************)
ConfigOK(c) ==
  /\ c.lineMode \in BOOLEAN /\ c.nullEmpty \in BOOLEAN
  /\ c.tee \in BOOLEAN /\ c.acked \in BOOLEAN
  /\ c.limit \in Nat
  /\ c.keyDelim \in Seq(Bytes) /\ c.fixedKey \in Seq(Bytes)
  /\ c.files \in Seq(Seq(Bytes) \cup {Nil}) /\ c.files # <<>>

Messages == [n : Nat, key : Seq(Bytes), value : Seq(Bytes)]

ASSUME ProducerAssumption ==
  /\ \A c \in Configs : ConfigOK(c)
  /\ Lines \subseteq Seq(Bytes) /\ MsgSize \in Nat
  /\ Nil \notin Seq(Bytes) /\ Nil \notin Messages
  /\ MaxLines \in Nat /\ MaxCopies \in Nat \ {0} /\ MaxSignals \in Nat

VARIABLES cfg,        \* the command line
          lines,      \* messages that have arrived on stdin
          closed,     \* stdin has been closed by its writer
          readFailed, \* a read of stdin has failed
          pos,        \* messages (or files) taken so far
          pc,         \* where the process is
          msg,        \* the message in WriteMessages: number, key, value
          copies,     \* how often the broker has appended msg
          stray,      \* messages still on their way when WriteMessages returned
          log,        \* the topic at the broker
          acked,      \* history: numbers whose WriteMessages returned nil
          msgCount,   \* msgCount, or good in file mode
          tee,        \* numbers of the messages written to stdout
          late,       \* history: writes begun after run was cleared
          failed,     \* RunProducer returned an error
          exitCode    \* config.Cfg.ExitCode, then the process's exit code

ownVars == <<cfg, lines, closed, readFailed, pos, pc, msg, copies, stray, log,
             acked, msgCount, tee, late, failed, exitCode>>
vars == <<ownVars, sigVars>>

Places == {"loop", "next", "write", "tee", "files", "returned", "exited"}

TypeOK == /\ SigTypeOK
          /\ cfg \in Configs
          /\ lines \in Seq(Lines) /\ Len(lines) <= MaxLines
          /\ closed \in BOOLEAN /\ readFailed \in BOOLEAN
          /\ pos \in Nat /\ pc \in Places
          /\ msg \in Messages \cup {Nil} /\ copies \in 0..MaxCopies
          /\ stray \subseteq Messages /\ log \in Seq(Messages)
          /\ acked \subseteq 1..pos /\ tee \in Seq(acked)
          /\ msgCount \in Nat /\ late \in Nat
          /\ failed \in BOOLEAN /\ exitCode \in {0, 1}

Init == /\ SigInit
        /\ cfg \in Configs
        /\ lines = <<>> /\ closed = FALSE /\ readFailed = FALSE
        /\ pos = 0
        \* RunProducer: files are ignored under -l
        /\ pc = IF cfg.lineMode THEN "loop" ELSE "files"
        /\ msg = Nil /\ copies = 0 /\ stray = {} /\ log = <<>> /\ acked = {}
        /\ msgCount = 0 /\ tee = <<>> /\ late = 0
        /\ failed = FALSE /\ exitCode = 0

-----------------------------------------------------------------------------
(***************************************************************************)
(* The message made of one line.                                           *)
(***************************************************************************)
Empty(s) == s = Nil \/ s = <<>>

NilIfEmpty(s) == IF cfg.nullEmpty /\ s = <<>> THEN Nil ELSE s

(***************************************************************************)
(* Copies of up to 1024 bytes are made with make and copy: a nil slice     *)
(* becomes an empty one, which is never sent as NULL.                      *)
(***************************************************************************)
Copied(s) == IF s = Nil THEN <<>> ELSE s

SplitDropsOne(data) ==  \* mutant: skips one byte instead of the delimiter
  LET idx == IF cfg.keyDelim = <<>> THEN NotFound ELSE Strnstr(data, cfg.keyDelim)
  IN IF idx = NotFound THEN [key |-> Nil, value |-> data]
     ELSE [key   |-> NilIfEmpty(SubSeq(data, 1, idx)),
           value |-> NilIfEmpty(SubSeq(data, idx + 2, Len(data)))]

Split(data) ==
  LET idx == IF cfg.keyDelim = <<>> THEN NotFound ELSE Strnstr(data, cfg.keyDelim)
      rest == idx + Len(cfg.keyDelim) + 1
  IN IF idx = NotFound THEN [key |-> Nil, value |-> data]
     ELSE [key   |-> NilIfEmpty(SubSeq(data, 1, idx)),
           value |-> NilIfEmpty(SubSeq(data, rest, Len(data)))]

Message(n, data) ==
  LET kv  == Split(data)
      key == IF kv.key = Nil /\ cfg.fixedKey # <<>> THEN cfg.fixedKey ELSE kv.key
  IN [n |-> n, key |-> Copied(key), value |-> Copied(kv.value)]

-----------------------------------------------------------------------------
(***************************************************************************)
(* The other end of stdin.                                                 *)
(***************************************************************************)
Arrive == /\ cfg.lineMode /\ ~closed /\ Len(lines) < MaxLines
          /\ \E l \in Lines : lines' = Append(lines, l)
          /\ UNCHANGED <<sigVars, cfg, closed, readFailed, pos, pc, msg, copies,
                         stray, log, acked, msgCount, tee, late, failed, exitCode>>

CloseStdin == /\ cfg.lineMode /\ ~closed
              /\ closed' = TRUE
              /\ UNCHANGED <<sigVars, cfg, lines, readFailed, pos, pc, msg, copies,
                             stray, log, acked, msgCount, tee, late, failed, exitCode>>

-----------------------------------------------------------------------------
(***************************************************************************)
(* produceFromStdin.                                                       *)
(***************************************************************************)
Return(err) == /\ pc' = "returned"
               /\ failed' = err

(***************************************************************************)
(* The loop's test of Run.                                                 *)
(***************************************************************************)
TestRunIgnored == /\ pc = "loop" /\ pc' = "next"  \* mutant: for without Run
                  /\ UNCHANGED <<sigVars, cfg, lines, closed, readFailed, pos, msg,
                                 copies, stray, log, acked, msgCount, tee, late,
                                 failed, exitCode>>

TestRun == /\ pc = "loop"
           /\ IF run THEN pc' = "next" /\ UNCHANGED failed ELSE Return(FALSE)
           /\ UNCHANGED <<sigVars, cfg, lines, closed, readFailed, pos, msg, copies,
                          stray, log, acked, msgCount, tee, late, exitCode>>

BeginWrite(m) == /\ pc' = "write" /\ msg' = m /\ copies' = 0
                 /\ late' = IF run THEN late ELSE late + 1

(***************************************************************************)
(* A line fits if one byte is left for its delimiter; behind one that does *)
(* not, the loop of Next goes on for ever.                                 *)
(***************************************************************************)
Fits(line) == Len(line) < MsgSize

(***************************************************************************)
(* Next returns a message; an empty one is skipped.  Run is not tested     *)
(* again, however long Next has been waiting.                              *)
(***************************************************************************)
TakeLine == /\ pc = "next" /\ pos < Len(lines) /\ Fits(lines[pos + 1])
            /\ pos' = pos + 1
            /\ IF lines[pos + 1] = <<>>
               THEN pc' = "loop" /\ UNCHANGED <<msg, copies, late>>
               ELSE BeginWrite(Message(pos + 1, lines[pos + 1]))
            /\ UNCHANGED <<sigVars, cfg, lines, closed, readFailed, stray, log,
                           acked, msgCount, tee, failed, exitCode>>

(***************************************************************************)
(* Next returns more = false: at the end of stdin, or when a read fails,   *)
(* which produceFromStdin does not tell apart.                             *)
(***************************************************************************)
EndContinues ==  \* mutant: continue where the code has break
  /\ pc = "next" /\ closed /\ pos = Len(lines)
  /\ pc' = "loop"
  /\ UNCHANGED <<sigVars, cfg, lines, closed, readFailed, pos, msg, copies, stray,
                 log, acked, msgCount, tee, late, failed, exitCode>>

EndOfInput == /\ pc = "next" /\ closed /\ pos = Len(lines)
              /\ Return(FALSE)
              /\ UNCHANGED <<sigVars, cfg, lines, closed, readFailed, pos, msg,
                             copies, stray, log, acked, msgCount, tee, late, exitCode>>

ReadFails == /\ pc = "next"
             /\ readFailed' = TRUE
             /\ Return(FALSE)
             /\ UNCHANGED <<sigVars, cfg, lines, closed, pos, msg, copies, stray,
                            log, acked, msgCount, tee, late, exitCode>>

-----------------------------------------------------------------------------
(***************************************************************************)
(* WriteMessages, in both modes.                                           *)
(***************************************************************************)
BrokerAppends == /\ pc = "write" /\ copies < MaxCopies
                 /\ copies' = copies + 1
                 /\ log' = Append(log, msg)
                 /\ UNCHANGED <<sigVars, cfg, lines, closed, readFailed, pos, pc, msg,
                                stray, acked, msgCount, tee, late, failed, exitCode>>

StrayArrives == \E m \in stray :
                  /\ stray' = stray \ {m}
                  /\ log' = Append(log, m)
                  /\ UNCHANGED <<sigVars, cfg, lines, closed, readFailed, pos, pc,
                                 msg, copies, acked, msgCount, tee, late, failed,
                                 exitCode>>

LimitPassed == cfg.lineMode /\ cfg.limit > 0 /\ msgCount >= cfg.limit  \* mutant

LimitReached == cfg.lineMode /\ cfg.limit > 0 /\ msgCount + 1 >= cfg.limit

AckedEarly == pc = "write"  \* mutant: does not wait for the acknowledgement

Acknowledged == pc = "write" /\ (cfg.acked => copies > 0)

(***************************************************************************)
(* WriteMessages returns nil.  The message is counted; the one that        *)
(* reaches the limit ends the loop before it is written to stdout.         *)
(***************************************************************************)
WriteOk == /\ Acknowledged
           /\ stray' = IF copies = 0 THEN stray \cup {msg} ELSE stray
           /\ acked' = acked \cup {pos}
           /\ msgCount' = msgCount + 1
           /\ IF LimitReached
              THEN run' = FALSE /\ Return(FALSE)
              ELSE /\ pc' = IF ~cfg.lineMode THEN "files"
                            ELSE IF cfg.tee THEN "tee" ELSE "loop"
                   /\ UNCHANGED <<run, failed>>
           /\ UNCHANGED <<sigCh, watching, sent, cfg, lines, closed, readFailed, pos,
                          msg, copies, log, tee, late, exitCode>>

(***************************************************************************)
(* WriteMessages gives up: produceFromStdin returns the error,             *)
(* produceFromFiles goes on with the next file.                            *)
(***************************************************************************)
WriteErrorIgnored ==  \* mutant: reports the error and goes on
  /\ pc = "write"
  /\ stray' \in {stray, stray \cup {msg}}
  /\ pc' = IF cfg.lineMode THEN "loop" ELSE "files"
  /\ UNCHANGED <<sigVars, cfg, lines, closed, readFailed, pos, msg, copies, log,
                 acked, msgCount, tee, late, failed, exitCode>>

WriteFails == /\ pc = "write"
              /\ stray' \in {stray, stray \cup {msg}}
              /\ IF cfg.lineMode THEN Return(TRUE)
                                 ELSE pc' = "files" /\ UNCHANGED failed
              /\ UNCHANGED <<sigVars, cfg, lines, closed, readFailed, pos, msg, copies,
                             log, acked, msgCount, tee, late, exitCode>>

TeeByCount ==  \* mutant: takes the number of the message for its line's
  /\ pc = "tee"
  /\ tee' = Append(tee, msgCount) /\ pc' = "loop"
  /\ UNCHANGED <<sigVars, cfg, lines, closed, readFailed, pos, msg, copies, stray,
                 log, acked, msgCount, late, failed, exitCode>>

Tee == /\ pc = "tee"
       /\ tee' = Append(tee, pos) /\ pc' = "loop"
       /\ UNCHANGED <<sigVars, cfg, lines, closed, readFailed, pos, msg, copies,
                      stray, log, acked, msgCount, late, failed, exitCode>>

TeeErrorIgnored ==  \* mutant: goes on without the message on stdout
  /\ pc = "tee" /\ pc' = "loop"
  /\ UNCHANGED <<sigVars, cfg, lines, closed, readFailed, pos, msg, copies, stray,
                 log, acked, msgCount, tee, late, failed, exitCode>>

TeeFails == /\ pc = "tee"
            /\ Return(TRUE)
            /\ UNCHANGED <<sigVars, cfg, lines, closed, readFailed, pos, msg, copies,
                           stray, log, acked, msgCount, tee, late, exitCode>>

-----------------------------------------------------------------------------
(***************************************************************************)
(* produceFromFiles: the next file.  Run is not tested.  An unreadable     *)
(* file counts as failed, an empty one as good.                            *)
(***************************************************************************)
TakeFile ==
  /\ pc = "files" /\ pos < Len(cfg.files)
  /\ pos' = pos + 1
  /\ LET data == cfg.files[pos + 1] IN
     IF Empty(data)
     THEN /\ msgCount' = IF data = Nil THEN msgCount ELSE msgCount + 1
          /\ UNCHANGED <<pc, msg, copies, late>>
     ELSE /\ BeginWrite([n |-> pos + 1, key |-> <<>>, value |-> data])
          /\ UNCHANGED msgCount
  /\ UNCHANGED <<sigVars, cfg, lines, closed, readFailed, stray, log, acked, tee,
                 failed, exitCode>>

FilesDone == /\ pc = "files" /\ pos = Len(cfg.files)
             /\ exitCode' = IF msgCount = 0 THEN 1 ELSE exitCode
             /\ Return(msgCount = 0)
             /\ UNCHANGED <<sigVars, cfg, lines, closed, readFailed, pos, msg, copies,
                            stray, log, acked, msgCount, tee, late>>

(***************************************************************************)
(* runProducerMode and the end of main: an error exits with status 1,      *)
(* otherwise the Writer is closed and the status is Cfg.ExitCode.          *)
(***************************************************************************)
Exit == /\ pc = "returned"
        /\ pc' = "exited"
        /\ exitCode' = IF failed THEN 1 ELSE exitCode
        /\ UNCHANGED <<sigVars, cfg, lines, closed, readFailed, pos, msg, copies,
                       stray, log, acked, msgCount, tee, late, failed>>

Signal == /\ pc # "exited"
          /\ Notify \/ ReceiveSignal
          /\ UNCHANGED ownVars

-----------------------------------------------------------------------------
Writer == WriteOk \/ WriteFails

Next == \/ Arrive \/ CloseStdin
        \/ TestRun \/ TakeLine \/ EndOfInput \/ ReadFails
        \/ BrokerAppends \/ StrayArrives \/ WriteOk \/ WriteFails
        \/ Tee \/ TeeFails
        \/ TakeFile \/ FilesDone \/ Exit
        \/ Signal

Spec == Init /\ [][Next]_vars

(***************************************************************************)
(* The process runs, WriteMessages returns (its retries are bounded), and  *)
(* a message at the head of stdin is sure to be taken once stdin is        *)
(* closed, if it fits.  Nothing makes anyone write to stdin or close it.   *)
(***************************************************************************)
FairSpec == /\ Spec
            /\ WF_vars(TestRun) /\ WF_vars(closed /\ TakeLine) /\ WF_vars(EndOfInput)
            /\ WF_vars(Writer)  /\ WF_vars(Tee \/ TeeFails)
            /\ WF_vars(TakeFile \/ FilesDone) /\ WF_vars(Exit)

-----------------------------------------------------------------------------
Taken(n) == n \in 1..pos /\ lines[n] # <<>>   \* line n became a message

(***************************************************************************)
(* What is on the topic is always a beginning of stdin: produceFromStdin   *)
(* (producer.go 90-146) writes one message at a time, takes none after an  *)
(* error, and at most one after Run was cleared, since it may have been    *)
(* waiting in Next; with acks nothing is confirmed that the topic does not *)
(* hold.  produceFromFiles (33-69) begins every file in order and goes on  *)
(* after an error, so a late copy may come behind later files.  Producer   *)
(* implements Pipe.                                                        *)
(***************************************************************************)
Topic == INSTANCE Pipe WITH
           source    <- IF cfg.lineMode
                        THEN [n \in DOMAIN lines |-> lines[n] = <<>>]
                        ELSE [n \in DOMAIN cfg.files |-> Empty(cfg.files[n])],
           careful   <- cfg.lineMode,
           acks      <- cfg.acked,
           cur       <- IF msg = Nil THEN 0 ELSE msg.n,
           delivered <- [i \in DOMAIN log |-> log[i].n],
           confirmed <- acked,
           stopped   <- ~run,
           extra     <- late

PipeSpec == Topic!Spec

(***************************************************************************)
(* Splitting and copying lose nothing (producer.go 100-140): the line can  *)
(* be put together again from the message's key and value, but for an      *)
(* empty key that -Z lets -k replace.                                      *)
(***************************************************************************)
Whole(m) == /\ m.value = lines[m.n]
            /\ m.key = cfg.fixedKey

Parts(m) == LET l == lines[m.n] IN
  /\ cfg.keyDelim # <<>>
  /\ \/ m.key \o cfg.keyDelim \o m.value = l
     \/ cfg.nullEmpty /\ m.key = cfg.fixedKey /\ cfg.keyDelim \o m.value = l

KeyValueLossless ==
  cfg.lineMode => \A i \in DOMAIN log : Whole(log[i]) \/ Parts(log[i])

(***************************************************************************)
(* -c n (producer.go 146-151) is exact: no more than n messages are        *)
(* acknowledged, no (n+1)th line is ever taken from stdin to be written,   *)
(* and the loop is over once the nth is through.                           *)
(***************************************************************************)
LimitHonoured ==
  cfg.lineMode /\ cfg.limit > 0 =>
    /\ Cardinality({n \in 1..pos : Taken(n)}) <= cfg.limit
    /\ Cardinality(acked) = cfg.limit => pc \in {"returned", "exited"} /\ ~run

(***************************************************************************)
(* -T (producer.go 153-157) never shows what was not acknowledged, keeps   *)
(* the order, and misses at most the last message: the one that reached    *)
(* the limit, or whose write to stdout failed.                             *)
(***************************************************************************)
TeeFollowsAcks ==
  LET missing == acked \ Range(tee) IN
  cfg.lineMode /\ cfg.tee =>
    /\ \A i, j \in DOMAIN tee : i < j => tee[i] < tee[j]
    /\ Range(tee) \subseteq acked /\ missing \subseteq {pos}
    /\ missing # {} => pc = "tee" \/ failed \/ msgCount = cfg.limit

(***************************************************************************)
(* Exit status 0 (producer.go 142-160, main.go 388-391) means: from stdin, *)
(* every message taken was acknowledged, and unless a signal, the limit or *)
(* a failed read, which the code cannot tell from the end, cut it short,   *)
(* that all of stdin was; with files, exactly that one of them was good.   *)
(***************************************************************************)
ExitCodeTells ==
  pc = "exited" =>
    IF cfg.lineMode
    THEN exitCode = 0 =>
           /\ \A n \in 1..pos : Taken(n) => n \in acked
           /\ run /\ ~readFailed => closed /\ pos = Len(lines)
    ELSE exitCode = 0 <=> \E n \in 1..pos : n \in acked \/ cfg.files[n] = <<>>

(***************************************************************************)
(* With files, or once stdin is closed, the process ends (producer.go      *)
(* 21-161), unless it is in Next with a line that does not fit: then       *)
(* neither the end of stdin nor a signal ends it.                          *)
(***************************************************************************)
Stuck == pc = "next" /\ pos < Len(lines) /\ ~Fits(lines[pos + 1])

Terminates == closed \/ ~cfg.lineMode ~> pc = "exited" \/ Stuck

(***************************************************************************)
(* Once a signal has cleared Run, the loop (producer.go 90) ends, except   *)
(* while it waits in Next, which nothing interrupts (see Terminates).      *)
(***************************************************************************)
StopsUnlessWaiting ==
  cfg.lineMode /\ ~run /\ pc # "next" ~> pc = "exited"

(***************************************************************************)
(* What cmd/root.go says of -Z (69), "Send empty messages as NULL          *)
(* messages", and of -T (67), "Output sent messages to stdout (tee)".      *)
(* REFUTED, both at once: the copy of the nil value is an empty, non-nil   *)
(* slice (producer.go 129-131), and the message that reaches the limit is  *)
(* never shown, since the break of 150 comes before the tee.               *)
(***************************************************************************)
EmptySentAsNull ==
  cfg.lineMode /\ cfg.nullEmpty => \A i \in DOMAIN log : log[i].value # <<>>

SentIsTeed ==
  cfg.lineMode /\ cfg.tee /\ pc = "exited" /\ ~failed => acked = Range(tee)

SentAsDocumented == EmptySentAsNull \/ SentIsTeed

=============================================================================
