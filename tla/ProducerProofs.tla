--------------------------- MODULE ProducerProofs ---------------------------
(***************************************************************************)
(* Proofs about module Producer, for every set of command lines, bytes and *)
(* lines, and any number of lines, copies and signals.                     *)
(***************************************************************************)
EXTENDS Producer, SearchProofs, FiniteSetTheorems

(***************************************************************************)
(* The source: stdin or the list of files, and the last message begun.     *)
(* What was taken behind it made no message.                               *)
(***************************************************************************)
Sources == IF cfg.lineMode THEN lines ELSE cfg.files
Blank(n) == IF cfg.lineMode THEN lines[n] = <<>> ELSE Empty(cfg.files[n])
Cur == IF msg = Nil THEN 0 ELSE msg.n
Over == pc \in {"returned", "exited"}

Place == /\ pc \in IF cfg.lineMode THEN Places \ {"files"} ELSE Places \ {"loop", "next", "tee"}
         /\ pos <= Len(Sources)
         /\ Cur \in 0..pos
         /\ \A k \in (Cur + 1)..pos : Blank(k)
         /\ msg # Nil => Cur # 0 /\ ~Blank(Cur)
         /\ pc \in {"write", "tee"} => msg # Nil /\ Cur = pos

(***************************************************************************)
(* The messages at the broker, or on their way there: they were begun, and *)
(* with acks none is on its way when another one is begun.                 *)
(***************************************************************************)
Begun(m) == m.n \in 1..Cur /\ ~Blank(m.n)

NoStraggler == cfg.acked /\ cfg.lineMode /\ stray # {} =>
                 Over /\ \A m \in stray : m.n = Cur

Appended == pc = "write" /\ copies > 0 => \E i \in DOMAIN log : log[i].n = Cur

Sent == /\ \A i \in DOMAIN log : Begun(log[i])
        /\ \A m \in stray : Begun(m)
        /\ NoStraggler /\ Appended

(***************************************************************************)
(* What is acknowledged: from stdin, all that was taken but the message in *)
(* WriteMessages, or the one whose failure ended the loop.                 *)
(***************************************************************************)
Messaged == {n \in 1..pos : ~Blank(n)}

ButLast == Messaged \ acked \subseteq
             IF pc = "write" \/ (Over /\ failed) THEN {pos} ELSE {}

InLimit == cfg.limit > 0 => \/ msgCount < cfg.limit
                            \/ msgCount = cfg.limit /\ Over /\ ~run /\ ~failed

Confirmed == /\ acked \subseteq Messaged /\ IsFiniteSet(acked)
             /\ pc = "write" => pos \notin acked
             /\ cfg.lineMode => ButLast /\ InLimit /\ Cardinality(acked) = msgCount

(***************************************************************************)
(* The loop tests Run before it takes a line, so that one line at most is  *)
(* taken after Run was cleared.                                            *)
(***************************************************************************)
OnceMore == /\ run => late = 0
            /\ cfg.lineMode => late \in 0..1
            /\ pc = "next" => late = 0

(***************************************************************************)
(* The messages hold what the lines held.                                  *)
(***************************************************************************)
Faithful(m) == Whole(m) \/ Parts(m)

Lossless == cfg.lineMode => /\ msg # Nil => Faithful(msg)
                            /\ \A m \in stray : Faithful(m)
                            /\ \A i \in DOMAIN log : Faithful(log[i])

(***************************************************************************)
(* stdout under -T: behind the acknowledged messages by one at most.       *)
(***************************************************************************)
Behind == acked \ Range(tee) \subseteq
            IF pc = "tee" \/ (Over /\ (failed \/ msgCount = cfg.limit)) THEN {pos} ELSE {}

Teed == /\ \A i, j \in DOMAIN tee : i < j => tee[i] < tee[j]
        /\ pc = "tee" => pos \in acked \ Range(tee)
        /\ cfg.lineMode /\ cfg.tee => Behind

(***************************************************************************)
(* Why the process ends, and with which status.                            *)
(***************************************************************************)
Drained == cfg.lineMode /\ Over /\ ~failed /\ run /\ ~readFailed =>
             closed /\ pos = Len(lines)

Good == \E n \in 1..pos : n \in acked \/ cfg.files[n] = <<>>

SomeGood == ~cfg.lineMode => /\ msgCount = 0 <=> ~Good
                             /\ Over => (failed <=> ~Good) /\ (exitCode = 1 <=> ~Good)

Status == /\ exitCode = 0 \/ Over
          /\ pc = "exited" /\ failed => exitCode = 1

Ended == Drained /\ SomeGood /\ Status

IInv == /\ TypeOK /\ Place /\ Sent /\ Confirmed /\ OnceMore /\ Lossless
        /\ Teed /\ Ended

-----------------------------------------------------------------------------
(***************************************************************************)
(* The message made of a line: nothing of the line is lost.                *)
(***************************************************************************)
Config == /\ ConfigOK(cfg) /\ <<>> \in Seq(Bytes)
          /\ Nil \notin Seq(Bytes) /\ Nil \notin Messages

LEMMA ConfigType == ASSUME cfg \in Configs PROVE Config
BY EmptySeq, ProducerAssumption DEF Config

LEMMA MessageFaithful ==
  ASSUME Config, NEW n \in Nat, NEW l \in Seq(Bytes)
  PROVE  LET m == Message(n, l) IN
         /\ m \in Messages /\ m.n = n
         /\ \/ m.value = l /\ m.key = cfg.fixedKey
            \/ /\ cfg.keyDelim # <<>>
               /\ \/ m.key \o cfg.keyDelim \o m.value = l
                  \/ cfg.nullEmpty /\ m.key = cfg.fixedKey /\ cfg.keyDelim \o m.value = l
<1> DEFINE delim == cfg.keyDelim
           fixed == cfg.fixedKey
           idx == IF delim = <<>> THEN NotFound ELSE Strnstr(l, delim)
           front == SubSeq(l, 1, idx)
           back == SubSeq(l, idx + Len(delim) + 1, Len(l))
           m == Message(n, l)
<1>1. delim \in Seq(Bytes) /\ fixed \in Seq(Bytes) /\ <<>> \in Seq(Bytes) /\ Nil \notin Seq(Bytes)
  BY DEF Config, ConfigOK
<1>2. CASE idx = NotFound
  <2>1. Split(l) = [key |-> Nil, value |-> l]
    BY <1>2 DEF Split
  <2>2. m = [n |-> n, key |-> fixed, value |-> l]
    BY <1>1, <2>1 DEF Message, Copied
  <2> QED
    BY <1>1, <2>2 DEF Messages
<1>3. CASE idx # NotFound
  <2>1. delim # <<>> /\ idx = Strnstr(l, delim)
    BY <1>3
  <2>2. idx \in Nat /\ idx + Len(delim) <= Len(l) /\ MatchesAt(l, delim, idx)
    BY <1>1, <1>3, <2>1, StrnstrMatches
  <2>3. Split(l) = [key |-> NilIfEmpty(front), value |-> NilIfEmpty(back)]
    BY <1>3 DEF Split
  <2> HIDE DEF idx
  <2>4. /\ front \in Seq(Bytes) /\ back \in Seq(Bytes)
        /\ front \o delim \o back = l
        /\ front = <<>> => delim \o back = l
    BY <1>1, <2>2, CutAtMatch, ZenonT(30)
  <2> HIDE DEF front, back
  <2>5. m.value = back /\ m.n = n
    BY <1>1, <2>3, <2>4 DEF Message, Copied, NilIfEmpty
  <2>6. \/ m.key = front
        \/ cfg.nullEmpty /\ front = <<>> /\ m.key = fixed
    BY <1>1, <2>3, <2>4 DEF Message, Copied, NilIfEmpty
  <2>7. m = [n |-> n, key |-> m.key, value |-> m.value]
    BY DEF Message
  <2>8. m \in Messages
    BY <1>1, <2>4, <2>5, <2>6, <2>7 DEF Messages
  <2> QED
    BY <2>1, <2>4, <2>5, <2>6, <2>8
<1> QED
  BY <1>2, <1>3

-----------------------------------------------------------------------------
(***************************************************************************)
(* Facts about the state, and what a step that takes from the source does: *)
(* it skips a line or file, or begins a message made of it.                *)
(***************************************************************************)
LEMMA Numbers ==
  ASSUME TypeOK
  PROVE  /\ Config /\ pos \in Nat /\ msgCount \in Nat /\ late \in Nat /\ cfg.limit \in Nat
         /\ Len(lines) \in Nat /\ DOMAIN lines = 1..Len(lines)
         /\ Len(cfg.files) \in Nat /\ DOMAIN cfg.files = 1..Len(cfg.files)
         /\ Len(log) \in Nat /\ DOMAIN log = 1..Len(log)
         /\ Len(tee) \in Nat /\ DOMAIN tee = 1..Len(tee)
<1>1. Config
  BY ConfigType DEF TypeOK
<1>2. cfg.limit \in Nat /\ cfg.files \in Seq(Seq(Bytes) \cup {Nil})
  BY <1>1 DEF Config, ConfigOK
<1>3. /\ lines \in Seq(Lines) /\ log \in Seq(Messages) /\ tee \in Seq(acked)
      /\ pos \in Nat /\ msgCount \in Nat /\ late \in Nat
  BY DEF TypeOK
<1>4. /\ Len(lines) \in Nat /\ DOMAIN lines = 1..Len(lines)
      /\ Len(log) \in Nat /\ DOMAIN log = 1..Len(log)
      /\ Len(tee) \in Nat /\ DOMAIN tee = 1..Len(tee)
  BY <1>3, LenProperties
<1>5. Len(cfg.files) \in Nat /\ DOMAIN cfg.files = 1..Len(cfg.files)
  BY <1>2, LenProperties
<1> QED
  BY <1>1, <1>2, <1>3, <1>4, <1>5

Skip == /\ Blank(pos + 1)
        /\ UNCHANGED <<msg, copies, late>>
        /\ pc' = IF cfg.lineMode THEN "loop" ELSE "files"
        /\ msgCount' = IF cfg.lineMode \/ cfg.files[pos + 1] = Nil THEN msgCount
                                                                   ELSE msgCount + 1

Begin(m) == /\ ~Blank(pos + 1)
            /\ m \in Messages /\ m.n = pos + 1 /\ m # Nil
            /\ cfg.lineMode => Faithful(m)
            /\ BeginWrite(m)
            /\ UNCHANGED msgCount

Take == /\ pc = IF cfg.lineMode THEN "next" ELSE "files"
        /\ pos' = pos + 1 /\ pos < Len(Sources)
        /\ UNCHANGED <<sigVars, cfg, lines, closed, readFailed, stray, log,
                       acked, tee, failed, exitCode>>
        /\ Skip \/ \E m \in Messages : Begin(m)

LEMMA TakeSteps == ASSUME IInv, TakeLine \/ TakeFile PROVE Take
<1>1. /\ Config /\ pos \in Nat /\ Len(lines) \in Nat /\ Len(cfg.files) \in Nat
  BY Numbers DEF IInv
<1>2. CASE TakeLine
  <2>1. cfg.lineMode /\ pc = "next"
    BY <1>2 DEF TakeLine, IInv, Place, Places
  <2>2. pos + 1 \in 1..Len(lines)
    BY <1>1, <1>2 DEF TakeLine
  <2>3. lines[pos + 1] \in Seq(Bytes)
    BY <2>2, ElementOfSeq, ProducerAssumption DEF IInv, TypeOK
  <2>4. CASE lines[pos + 1] = <<>>
    <3>1. Skip
      BY <1>2, <2>1, <2>4 DEF Skip, Blank, TakeLine
    <3> QED
      BY <1>2, <2>1, <3>1 DEF Take, TakeLine, Sources
  <2>5. CASE lines[pos + 1] # <<>>
    <3> DEFINE m == Message(pos + 1, lines[pos + 1])
    <3>0. Config /\ pos + 1 \in Nat
      BY <1>1
    <3>1. /\ m \in Messages /\ m.n = pos + 1
          /\ \/ m.value = lines[pos + 1] /\ m.key = cfg.fixedKey
             \/ /\ cfg.keyDelim # <<>>
                /\ \/ m.key \o cfg.keyDelim \o m.value = lines[pos + 1]
                   \/ cfg.nullEmpty /\ m.key = cfg.fixedKey /\ cfg.keyDelim \o m.value = lines[pos + 1]
      BY <2>3, <3>0, MessageFaithful, Zenon
    <3>2. BeginWrite(m)
      BY <1>2, <2>5 DEF TakeLine
    <3> HIDE DEF m
    <3>3. Faithful(m)
      BY <3>1 DEF Faithful, Whole, Parts
    <3>4. m # Nil
      BY <1>1, <3>1 DEF Config
    <3>5. ~Blank(pos + 1) /\ UNCHANGED msgCount
      BY <1>2, <2>1, <2>5 DEF Blank, TakeLine
    <3>6. Begin(m)
      BY <3>1, <3>2, <3>3, <3>4, <3>5 DEF Begin
    <3> QED
      BY <1>2, <2>1, <3>1, <3>6 DEF Take, TakeLine, Sources
  <2> QED
    BY <2>4, <2>5
<1>3. CASE TakeFile
  <2>1. ~cfg.lineMode /\ pc = "files"
    BY <1>3 DEF TakeFile, IInv, Place, Places
  <2>2. pos + 1 \in 1..Len(cfg.files)
    BY <1>1, <1>3 DEF TakeFile
  <2>3. cfg.files[pos + 1] \in Seq(Bytes) \cup {Nil}
    BY <1>1, <2>2, ElementOfSeq DEF Config, ConfigOK
  <2>4. CASE Empty(cfg.files[pos + 1])
    <3>1. Skip
      BY <1>3, <2>1, <2>4 DEF Skip, Blank, TakeFile
    <3> QED
      BY <1>3, <2>1, <3>1 DEF Take, TakeFile, Sources
  <2>5. CASE ~Empty(cfg.files[pos + 1])
    <3> DEFINE m == [n |-> pos + 1, key |-> <<>>, value |-> cfg.files[pos + 1]]
    <3>1. m \in Messages /\ m.n = pos + 1
      BY <1>1, <2>3, <2>5 DEF Messages, Empty, Config
    <3>2. BeginWrite(m) /\ UNCHANGED msgCount
      BY <1>3, <2>5 DEF TakeFile
    <3> HIDE DEF m
    <3>3. m # Nil
      BY <1>1, <3>1 DEF Config
    <3>4. Begin(m)
      BY <2>1, <2>5, <3>1, <3>2, <3>3 DEF Begin, Blank
    <3> QED
      BY <1>3, <2>1, <3>1, <3>4 DEF Take, TakeFile, Sources
  <2> QED
    BY <2>4, <2>5
<1> QED
  BY <1>2, <1>3

LEMMA Steps ==
  ASSUME IInv, [Next]_vars
  PROVE  \/ Arrive \/ CloseStdin \/ TestRun \/ Take \/ EndOfInput \/ ReadFails
         \/ BrokerAppends \/ StrayArrives \/ WriteOk \/ WriteFails
         \/ Tee \/ TeeFails \/ FilesDone \/ Exit \/ Signal \/ UNCHANGED vars
BY TakeSteps DEF Next

(***************************************************************************)
(* WriteMessages succeeds: what becomes of the loop.                       *)
(***************************************************************************)
LEMMA WriteOkOutcome ==
  ASSUME IInv, WriteOk
  PROVE  /\ pc = "write" /\ msg # Nil /\ Cur = pos /\ pos \in 1..Len(Sources) /\ ~Blank(pos)
         /\ \/ LimitReached /\ pc' = "returned" /\ run' = FALSE /\ failed' = FALSE
            \/ /\ ~LimitReached /\ run' = run /\ failed' = failed
               /\ pc' = IF ~cfg.lineMode THEN "files"
                        ELSE IF cfg.tee THEN "tee" ELSE "loop"
<1>1. pc = "write"
  BY DEF WriteOk, Acknowledged
<1>2. msg # Nil /\ Cur = pos /\ pos \in 1..Len(Sources) /\ ~Blank(pos)
  BY <1>1, Numbers DEF IInv, Place, Sources
<1>3. CASE LimitReached
  BY <1>1, <1>2, <1>3 DEF WriteOk, Return
<1>4. CASE ~LimitReached
  BY <1>1, <1>2, <1>4 DEF WriteOk
<1> QED
  BY <1>3, <1>4

-----------------------------------------------------------------------------
(***************************************************************************)
(* Every step keeps the types.                                             *)
(***************************************************************************)
LEMMA SignalTypes ==
  ASSUME SigTypeOK, Notify \/ ReceiveSignal PROVE SigTypeOK'
<1>1. sent' \in 0..MaxSignals
  BY ProducerAssumption DEF SigTypeOK, Notify, ReceiveSignal
<1>2. sigCh' \in 0..1
  BY DEF Notify, ReceiveSignal
<1>3. run' \in BOOLEAN /\ watching' \in BOOLEAN
  BY Zenon DEF SigTypeOK, Notify, ReceiveSignal
<1> QED
  BY <1>1, <1>2, <1>3 DEF SigTypeOK

LEMMA TypeStep == IInv /\ [Next]_vars => TypeOK'
<1> SUFFICES ASSUME IInv, [Next]_vars PROVE TypeOK'
  OBVIOUS
<1> USE DEF TypeOK, Places
<1>0. TypeOK
  BY DEF IInv
<1>1. CASE Arrive
  <2>1. PICK l \in Lines : lines' = Append(lines, l)
    BY <1>1 DEF Arrive
  <2>2. lines' \in Seq(Lines) /\ Len(lines') = Len(lines) + 1
    BY <1>0, <2>1, AppendProperties
  <2>3. Len(lines') <= MaxLines
    BY <1>0, <1>1, <2>2, Numbers, ProducerAssumption DEF Arrive
  <2> QED
    BY <1>0, <1>1, <2>2, <2>3 DEF Arrive, sigVars, SigTypeOK
<1>2. CASE CloseStdin
  BY <1>0, <1>2 DEF CloseStdin, sigVars, SigTypeOK
<1>3. CASE TestRun
  BY <1>0, <1>3 DEF TestRun, Return, sigVars, SigTypeOK
<1>4. CASE Take
  <2>1. /\ pos' = pos + 1 /\ pos \in Nat
        /\ UNCHANGED <<sigVars, cfg, lines, closed, readFailed, stray, log,
                       acked, tee, failed, exitCode>>
    BY <1>0, <1>4 DEF Take
  <2>2. acked' \subseteq 1..pos' /\ tee' \in Seq(acked')
    <3>1. 1..pos \subseteq 1..(pos + 1)
      BY <2>1
    <3> QED
      BY <1>0, <2>1, <3>1
  <2>3. /\ pc' \in Places /\ msg' \in Messages \cup {Nil} /\ copies' \in 0..MaxCopies
        /\ msgCount' \in Nat /\ late' \in Nat
    <3>1. CASE Skip
      BY <1>0, <3>1 DEF Skip
    <3>2. CASE \E m \in Messages : Begin(m)
      BY <1>0, <3>2, ProducerAssumption DEF Begin, BeginWrite
    <3> QED
      BY <1>4, <3>1, <3>2 DEF Take
  <2> QED
    BY <1>0, <2>1, <2>2, <2>3 DEF sigVars, SigTypeOK
<1>5. CASE EndOfInput
  BY <1>0, <1>5 DEF EndOfInput, Return, sigVars, SigTypeOK
<1>6. CASE ReadFails
  BY <1>0, <1>6 DEF ReadFails, Return, sigVars, SigTypeOK
<1>7. CASE BrokerAppends
  <2>1. msg \in Messages
    BY <1>7 DEF BrokerAppends, IInv, Place
  <2>2. log' \in Seq(Messages)
    BY <1>0, <1>7, <2>1, AppendProperties DEF BrokerAppends
  <2>3. copies' \in 0..MaxCopies
    BY <1>0, <1>7, ProducerAssumption DEF BrokerAppends
  <2> QED
    BY <1>0, <1>7, <2>2, <2>3 DEF BrokerAppends, sigVars, SigTypeOK
<1>8. CASE StrayArrives
  <2>1. PICK m \in stray : stray' = stray \ {m} /\ log' = Append(log, m)
    BY <1>8 DEF StrayArrives
  <2>2. log' \in Seq(Messages) /\ stray' \subseteq Messages
    BY <1>0, <2>1, AppendProperties
  <2> QED
    BY <1>0, <1>8, <2>2 DEF StrayArrives, sigVars, SigTypeOK
<1>9. CASE WriteOk
  <2>1. run' \in BOOLEAN /\ failed' \in BOOLEAN
    BY <1>0, <1>9, WriteOkOutcome, Zenon DEF SigTypeOK
  <2>2. pc' \in Places /\ msg \in Messages /\ pos \in 1..pos
    <3>1. msg # Nil /\ pos \in 1..Len(Sources)
      BY <1>9, WriteOkOutcome
    <3>2. pc' \in {"returned", "files", "tee", "loop"}
      BY <1>9 DEF WriteOk, Return
    <3> QED
      BY <1>0, <3>1, <3>2
  <2>3. acked' \subseteq 1..pos' /\ acked \subseteq acked' /\ stray' \subseteq Messages
    BY <1>0, <1>9, <2>2 DEF WriteOk
  <2>4. tee' \in Seq(acked')
    BY <1>0, <1>9, <2>3, SeqMonotonic DEF WriteOk
  <2> QED
    BY <1>0, <1>9, <2>1, <2>2, <2>3, <2>4 DEF WriteOk, SigTypeOK
<1>10. CASE WriteFails
  <2>1. msg \in Messages
    BY <1>10 DEF WriteFails, IInv, Place
  <2>2. stray' \subseteq Messages /\ pc' \in Places
    BY <1>0, <1>10, <2>1 DEF WriteFails, Return
  <2>3. failed' \in BOOLEAN
    BY <1>0, <1>10 DEF WriteFails, Return
  <2> QED
    BY <1>0, <1>10, <2>2, <2>3 DEF WriteFails, sigVars, SigTypeOK
<1>11. CASE Tee
  <2>1. tee' \in Seq(acked)
    <3>1. pos \in acked
      BY <1>11 DEF Tee, IInv, Teed
    <3> QED
      BY <1>0, <1>11, <3>1, AppendProperties DEF Tee
  <2> QED
    BY <1>0, <1>11, <2>1 DEF Tee, sigVars, SigTypeOK
<1>12. CASE TeeFails
  BY <1>0, <1>12 DEF TeeFails, Return, sigVars, SigTypeOK
<1>13. CASE FilesDone
  BY <1>0, <1>13 DEF FilesDone, Return, sigVars, SigTypeOK
<1>14. CASE Exit
  BY <1>0, <1>14 DEF Exit, sigVars, SigTypeOK
<1>15. CASE Signal
  BY <1>0, <1>15, SignalTypes DEF Signal, ownVars
<1>16. CASE UNCHANGED vars
  BY <1>0, <1>16 DEF vars, ownVars, sigVars, SigTypeOK
<1> QED
  BY <1>1, <1>2, <1>3, <1>4, <1>5, <1>6, <1>7, <1>8, <1>9, <1>10, <1>11, <1>12,
     <1>13, <1>14, <1>15, <1>16, Steps

-----------------------------------------------------------------------------
(***************************************************************************)
(* A line that arrives changes nothing about those that were there.        *)
(***************************************************************************)
LEMMA LinesGrow ==
  ASSUME IInv, Arrive
  PROVE  /\ cfg.lineMode /\ ~closed /\ Len(lines') = Len(lines) + 1 /\ pos <= Len(lines)
         /\ \A n \in 1..Len(lines) : lines'[n] = lines[n]
         /\ UNCHANGED <<sigVars, cfg, closed, readFailed, pos, pc, msg, copies,
                        stray, log, acked, msgCount, tee, late, failed, exitCode>>
<1>1. PICK l \in Lines : lines' = Append(lines, l)
  BY DEF Arrive
<1>2. lines \in Seq(Lines) /\ pos <= Len(lines)
  BY DEF IInv, TypeOK, Place, Sources, Arrive
<1> QED
  BY <1>1, <1>2, AppendProperties DEF Arrive

LEMMA BlankFrame ==
  ASSUME IInv, Arrive, NEW n \in 1..pos PROVE Blank(n)' <=> Blank(n)
<1>1. n \in 1..Len(lines)
  BY LinesGrow, Numbers DEF IInv
<1> QED
  BY <1>1, LinesGrow DEF Blank

(***************************************************************************)
(* Every step keeps the place in the source.                               *)
(***************************************************************************)
LEMMA PlaceStep == IInv /\ [Next]_vars => Place'
<1> SUFFICES ASSUME IInv, [Next]_vars PROVE Place'
  OBVIOUS
<1>0. /\ Place /\ TypeOK /\ pos \in Nat /\ Len(lines) \in Nat /\ Len(cfg.files) \in Nat
  BY Numbers DEF IInv
<1>1. CASE Arrive
  <2>1. /\ UNCHANGED <<cfg, pos, pc, msg>> /\ cfg.lineMode /\ Len(lines') = Len(lines) + 1
    BY <1>1, LinesGrow
  <2>2. \A n \in 1..pos : Blank(n)' <=> Blank(n)
    BY <1>1, BlankFrame
  <2>3. Cur' = Cur
    BY <2>1 DEF Cur
  <2>4. pos <= Len(lines)
    BY <1>0, <2>1 DEF Place, Sources
  <2>5. pos' <= Len(Sources')
    BY <1>0, <2>1, <2>4 DEF Sources
  <2>6. (msg # Nil => Cur # 0 /\ ~Blank(Cur))'
    BY <1>0, <2>1, <2>2, <2>3 DEF Place
  <2>7. (\A k \in (Cur + 1)..pos : Blank(k))'
    <3>1. \A k \in (Cur + 1)..pos : Blank(k)'
      BY <1>0, <2>2 DEF Place
    <3> QED
      BY <2>1, <2>3, <3>1
  <2> QED
    BY <1>0, <2>1, <2>3, <2>5, <2>6, <2>7 DEF Place, Places
<1>4. CASE Take
  <2>1. /\ pos' = pos + 1 /\ pos < Len(Sources) /\ UNCHANGED <<cfg, lines>>
        /\ pc = IF cfg.lineMode THEN "next" ELSE "files"
    BY <1>4 DEF Take
  <2>2. \A n : Blank(n)' <=> Blank(n)
    BY <2>1 DEF Blank
  <2>3. CASE Skip
    <3>1. UNCHANGED msg /\ Blank(pos + 1) /\ pc' = IF cfg.lineMode THEN "loop" ELSE "files"
      BY <2>3 DEF Skip
    <3>2. Cur' = Cur
      BY <3>1 DEF Cur
    <3>3. \A k \in (Cur + 1)..(pos + 1) : Blank(k)
      BY <1>0, <3>1 DEF Place
    <3>4. (\A k \in (Cur + 1)..pos : Blank(k))'
      BY <2>1, <2>2, <3>2, <3>3
    <3>5. (msg # Nil => Cur # 0 /\ ~Blank(Cur))' /\ Cur' \in 0..pos'
      BY <1>0, <2>1, <2>2, <3>1, <3>2 DEF Place
    <3>6. pos' <= Len(Sources')
      BY <1>0, <2>1 DEF Sources
    <3> QED
      BY <2>1, <3>1, <3>4, <3>5, <3>6 DEF Place, Places
  <2>4. CASE \E m \in Messages : Begin(m)
    <3>1. /\ msg' # Nil /\ msg'.n = pos + 1 /\ pc' = "write" /\ ~Blank(pos + 1)
      BY <2>4 DEF Begin, BeginWrite
    <3>2. Cur' = pos + 1
      BY <3>1 DEF Cur
    <3>3. (\A k \in (Cur + 1)..pos : Blank(k))'
      BY <1>0, <2>1, <3>2
    <3>4. pos' <= Len(Sources')
      BY <1>0, <2>1 DEF Sources
    <3>5. (~Blank(Cur))' /\ Cur' = pos'
      BY <2>1, <2>2, <3>1, <3>2
    <3>6. Cur' \in 0..pos' /\ Cur' # 0
      BY <1>0, <2>1, <3>2
    <3> QED
      BY <2>1, <3>1, <3>3, <3>4, <3>5, <3>6 DEF Place, Places
  <2> QED
    BY <1>4, <2>3, <2>4 DEF Take
<1> USE DEF Place, Sources, Blank, Cur, Places
<1>2. CASE CloseStdin
  BY <1>0, <1>2 DEF CloseStdin
<1>3. CASE TestRun
  BY <1>0, <1>3 DEF TestRun, Return
<1>5. CASE EndOfInput
  BY <1>0, <1>5 DEF EndOfInput, Return
<1>6. CASE ReadFails
  BY <1>0, <1>6 DEF ReadFails, Return
<1>7. CASE BrokerAppends
  BY <1>0, <1>7 DEF BrokerAppends
<1>8. CASE StrayArrives
  BY <1>0, <1>8 DEF StrayArrives
<1>9. CASE WriteOk
  <2>1. pc' \in IF cfg.lineMode THEN {"returned", "tee", "loop"} ELSE {"returned", "files"}
    BY <1>9 DEF WriteOk, Return
  <2>2. UNCHANGED <<cfg, lines, pos, msg>> /\ pc = "write"
    BY <1>9 DEF WriteOk, Acknowledged
  <2> QED
    BY <1>0, <2>1, <2>2
<1>10. CASE WriteFails
  BY <1>0, <1>10 DEF WriteFails, Return
<1>11. CASE Tee
  BY <1>0, <1>11 DEF Tee
<1>12. CASE TeeFails
  BY <1>0, <1>12 DEF TeeFails, Return
<1>13. CASE FilesDone
  BY <1>0, <1>13 DEF FilesDone, Return
<1>14. CASE Exit
  BY <1>0, <1>14 DEF Exit
<1>15. CASE Signal
  BY <1>0, <1>15 DEF Signal, ownVars
<1>16. CASE UNCHANGED vars
  BY <1>0, <1>16 DEF vars, ownVars
<1> QED
  BY <1>1, <1>2, <1>3, <1>4, <1>5, <1>6, <1>7, <1>8, <1>9, <1>10, <1>11, <1>12,
     <1>13, <1>14, <1>15, <1>16, Steps

-----------------------------------------------------------------------------
(***************************************************************************)
(* Every message made is of something taken, and holds what it held.       *)
(***************************************************************************)
Fine(m) == Begun(m) /\ (cfg.lineMode => Faithful(m))

AllFine == /\ msg # Nil => Fine(msg)
           /\ \A m \in stray : Fine(m)
           /\ \A i \in DOMAIN log : Fine(log[i])

LEMMA InvFine == ASSUME IInv PROVE AllFine
<1>1. msg # Nil => Begun(msg)
  BY Numbers DEF IInv, Place, Begun, Cur
<1> QED
  BY <1>1 DEF IInv, Sent, Lossless, AllFine, Fine

LEMMA FineIsSent ==
  AllFine <=> /\ \A i \in DOMAIN log : Begun(log[i])
              /\ \A m \in stray : Begun(m)
              /\ msg # Nil => Begun(msg)
              /\ Lossless
BY DEF AllFine, Fine, Lossless

(***************************************************************************)
(* What the log holds after an append.                                     *)
(***************************************************************************)
LEMMA LogGrows ==
  ASSUME TypeOK, NEW m \in Messages, log' = Append(log, m)
  PROVE  /\ DOMAIN log = 1..Len(log) /\ Len(log) \in Nat
         /\ DOMAIN log' = 1..(Len(log) + 1) /\ log'[Len(log) + 1] = m
         /\ \A i \in 1..Len(log) : log'[i] = log[i]
<1>1. log \in Seq(Messages)
  BY DEF TypeOK
<1>2. /\ log' \in Seq(Messages) /\ Len(log') = Len(log) + 1
      /\ \A i \in 1..Len(log) : log'[i] = log[i]
      /\ log'[Len(log) + 1] = m
  BY <1>1, AppendProperties
<1> QED
  BY <1>1, <1>2, LenProperties

LEMMA FineGrows ==
  ASSUME AllFine, TypeOK, NEW m \in Messages, log' = Append(log, m), Fine(m),
         UNCHANGED <<cfg, lines, msg>>, stray' \subseteq stray
  PROVE  AllFine'
<1>1. \A x : Fine(x)' <=> Fine(x)
  BY DEF Fine, Begun, Blank, Cur, Faithful, Whole, Parts
<1>2. \A i \in DOMAIN log' : log'[i] = m \/ (i \in DOMAIN log /\ log'[i] = log[i])
  BY LogGrows
<1>3. (\A i \in DOMAIN log : Fine(log[i]))'
  BY <1>1, <1>2 DEF AllFine
<1>4. (msg # Nil => Fine(msg))'
  BY <1>1 DEF AllFine
<1>5. (\A x \in stray : Fine(x))'
  BY <1>1 DEF AllFine
<1> QED
  BY <1>3, <1>4, <1>5 DEF AllFine

LEMMA FineFrame ==
  ASSUME AllFine, UNCHANGED <<cfg, lines, log, msg>>,
         stray' \subseteq stray \/ (msg # Nil /\ stray' = stray \cup {msg})
  PROVE  AllFine'
<1>1. \A x : Fine(x)' <=> Fine(x)
  BY DEF Fine, Begun, Blank, Cur, Faithful, Whole, Parts
<1>2. (\A i \in DOMAIN log : Fine(log[i]))'
  BY <1>1 DEF AllFine
<1>3. (msg # Nil => Fine(msg))'
  BY <1>1 DEF AllFine
<1>4. (\A x \in stray : Fine(x))'
  BY <1>1 DEF AllFine
<1> QED
  BY <1>2, <1>3, <1>4 DEF AllFine

LEMMA FineStep == IInv /\ [Next]_vars => AllFine'
<1> SUFFICES ASSUME IInv, [Next]_vars PROVE AllFine'
  OBVIOUS
<1>0. AllFine /\ TypeOK /\ Place
  BY InvFine DEF IInv
<1>1. CASE Arrive
  <2>1. /\ UNCHANGED <<cfg, pos, pc, msg, stray, log>>
        /\ \A n \in 1..Len(lines) : lines'[n] = lines[n]
        /\ pos <= Len(lines)
    BY <1>1, LinesGrow
  <2>2. Cur' = Cur /\ Cur \in 0..pos
    BY <1>0, <2>1 DEF Cur, Place
  <2>3. ASSUME NEW m, Fine(m) PROVE Fine(m)'
    <3>1. m.n \in 1..Len(lines)
      BY <1>0, <2>1, <2>2, <2>3, Numbers DEF Fine, Begun
    <3>2. lines'[m.n] = lines[m.n]
      BY <2>1, <3>1
    <3>3. Begun(m)'
      BY <2>1, <2>2, <2>3, <3>2 DEF Fine, Begun, Blank
    <3>4. Faithful(m) => Faithful(m)'
      BY <2>1, <3>2 DEF Faithful, Whole, Parts
    <3> QED
      BY <2>1, <2>3, <3>3, <3>4 DEF Fine
  <2>4. (msg # Nil => Fine(msg))'
    BY <1>0, <2>1, <2>3 DEF AllFine
  <2>5. (\A x \in stray : Fine(x))'
    BY <1>0, <2>1, <2>3 DEF AllFine
  <2>6. (\A i \in DOMAIN log : Fine(log[i]))'
    BY <1>0, <2>1, <2>3 DEF AllFine
  <2> QED
    BY <2>4, <2>5, <2>6 DEF AllFine
<1>4. CASE Take
  <2>1. UNCHANGED <<cfg, lines, stray, log>> /\ pos \in Nat
    BY <1>0, <1>4 DEF Take, TypeOK
  <2>2. CASE Skip
    BY <1>0, <2>1, <2>2, FineFrame DEF Skip
  <2>3. CASE \E m \in Messages : Begin(m)
    <3>1. PICK m \in Messages : Begin(m)
      BY <2>3
    <3>2. /\ msg' = m /\ m.n = pos + 1 /\ m # Nil /\ ~Blank(m.n)
          /\ cfg.lineMode => Faithful(m)
      BY <3>1 DEF Begin, BeginWrite
    <3>3. Cur' = pos + 1 /\ Cur \in 0..pos
      BY <1>0, <3>2 DEF Place, Cur
    <3>4. \A x : Blank(x)' <=> Blank(x)
      BY <2>1 DEF Blank
    <3>5. \A x : Faithful(x)' <=> Faithful(x)
      BY <2>1 DEF Faithful, Whole, Parts
    <3>6. \A x : Begun(x) => Begun(x)'
      <4>1. \A i : i \in 1..Cur => i \in 1..(pos + 1)
        BY <2>1, <3>3
      <4> QED
        BY <3>3, <3>4, <4>1 DEF Begun
    <3>7. \A x : Fine(x) => Fine(x)'
      BY <2>1, <3>5, <3>6 DEF Fine
    <3>8. Begun(m)'
      <4>1. m.n \in 1..(pos + 1)
        BY <2>1, <3>2
      <4> QED
        BY <3>2, <3>3, <3>4, <4>1 DEF Begun
    <3>9. Fine(m)'
      BY <2>1, <3>2, <3>5, <3>8 DEF Fine
    <3>10. (msg # Nil => Fine(msg))'
      BY <3>2, <3>9
    <3>11. (\A x \in stray : Fine(x))'
      BY <1>0, <2>1, <3>7 DEF AllFine
    <3>12. (\A i \in DOMAIN log : Fine(log[i]))'
      BY <1>0, <2>1, <3>7 DEF AllFine
    <3> QED
      BY <3>10, <3>11, <3>12 DEF AllFine
  <2> QED
    BY <1>4, <2>2, <2>3 DEF Take
<1>7. CASE BrokerAppends
  <2>1. msg # Nil /\ msg \in Messages /\ Fine(msg)
    BY <1>0, <1>7 DEF BrokerAppends, Place, TypeOK, AllFine
  <2> QED
    BY <1>0, <1>7, <2>1, FineGrows DEF BrokerAppends
<1>8. CASE StrayArrives
  <2>1. PICK m \in stray : stray' = stray \ {m} /\ log' = Append(log, m)
    BY <1>8 DEF StrayArrives
  <2>2. m \in Messages /\ Fine(m) /\ UNCHANGED <<cfg, lines, msg>>
    BY <1>0, <1>8, <2>1 DEF TypeOK, AllFine, StrayArrives
  <2> QED
    BY <1>0, <2>1, <2>2, FineGrows
<1>9. CASE WriteOk
  <2>1. msg # Nil
    BY <1>9, WriteOkOutcome
  <2> QED
    BY <1>0, <1>9, <2>1, FineFrame DEF WriteOk
<1>10. CASE WriteFails
  <2>1. msg # Nil
    BY <1>0, <1>10 DEF Place, WriteFails
  <2> QED
    BY <1>0, <1>10, <2>1, FineFrame DEF WriteFails
<1>11. CASE UNCHANGED <<cfg, lines, log, msg, stray>>
  BY <1>0, <1>11, FineFrame
<1>12. CASE CloseStdin \/ TestRun \/ EndOfInput \/ ReadFails \/ Tee \/ TeeFails
            \/ FilesDone \/ Exit \/ Signal \/ UNCHANGED vars
  BY <1>11, <1>12 DEF CloseStdin, TestRun, EndOfInput, ReadFails, Tee, TeeFails,
     FilesDone, Exit, Signal, vars, ownVars
<1> QED
  BY <1>1, <1>4, <1>7, <1>8, <1>9, <1>10, <1>12, Steps

LEMMA SentStep == IInv /\ [Next]_vars => Sent'
<1> SUFFICES ASSUME IInv, [Next]_vars PROVE NoStraggler' /\ Appended'
  BY FineStep, FineIsSent DEF Sent, AllFine, Fine
<1> USE DEF NoStraggler, Appended, Over, Cur
<1>0. NoStraggler /\ Appended /\ TypeOK /\ Place
  BY DEF IInv, Sent
<1>1. CASE Arrive
  BY <1>0, <1>1, LinesGrow
<1>2. CASE CloseStdin
  BY <1>0, <1>2 DEF CloseStdin
<1>3. CASE TestRun
  BY <1>0, <1>3 DEF TestRun, Return
<1>4. CASE Take
  <2>1. /\ UNCHANGED <<cfg, stray, log>> /\ pc \in {"next", "files"}
        /\ cfg.lineMode => pc = "next"
    BY <1>4 DEF Take
  <2>2. NoStraggler'
    BY <1>0, <2>1
  <2>3. pc' = "write" => copies' = 0
    <3>1. CASE Skip
      BY <3>1 DEF Skip
    <3>2. CASE \E m \in Messages : Begin(m)
      BY <3>2 DEF Begin, BeginWrite
    <3> QED
      BY <1>4, <3>1, <3>2 DEF Take
  <2> QED
    BY <2>2, <2>3
<1>5. CASE EndOfInput
  BY <1>0, <1>5 DEF EndOfInput, Return
<1>6. CASE ReadFails
  BY <1>0, <1>6 DEF ReadFails, Return
<1>7. CASE BrokerAppends
  <2>1. msg # Nil /\ msg \in Messages /\ Cur = msg.n
    BY <1>0, <1>7 DEF BrokerAppends, Place, TypeOK
  <2>2. /\ Len(log) + 1 \in DOMAIN log' /\ log'[Len(log) + 1] = msg
    BY <1>0, <1>7, <2>1, LogGrows DEF BrokerAppends
  <2>3. Appended'
    BY <1>7, <2>1, <2>2 DEF BrokerAppends
  <2>4. NoStraggler'
    BY <1>0, <1>7 DEF BrokerAppends
  <2> QED
    BY <2>3, <2>4
<1>8. CASE StrayArrives
  <2>1. PICK m \in stray : stray' = stray \ {m} /\ log' = Append(log, m)
    BY <1>8 DEF StrayArrives
  <2>2. UNCHANGED <<cfg, pc, msg, copies>> /\ m \in Messages
    BY <1>0, <1>8, <2>1 DEF StrayArrives, TypeOK
  <2>3. \A i \in DOMAIN log : i \in DOMAIN log' /\ log'[i] = log[i]
    BY <1>0, <2>1, <2>2, LogGrows
  <2>4. Appended'
    BY <1>0, <2>2, <2>3
  <2>5. NoStraggler'
    BY <1>0, <2>1, <2>2
  <2> QED
    BY <2>4, <2>5
<1>9. CASE WriteOk
  <2>1. pc = "write" /\ pc' # "write" /\ UNCHANGED <<cfg, msg>>
    BY <1>9 DEF WriteOk, Acknowledged, Return
  <2>2. cfg.acked => stray' = stray
    <3>1. cfg.acked => copies > 0
      BY <1>9 DEF WriteOk, Acknowledged
    <3> QED
      BY <1>9, <3>1 DEF WriteOk
  <2> QED
    BY <1>0, <2>1, <2>2
<1>10. CASE WriteFails
  <2>1. /\ msg # Nil /\ pc = "write" /\ UNCHANGED <<cfg, msg>>
        /\ pc' = IF cfg.lineMode THEN "returned" ELSE "files"
        /\ stray' \in {stray, stray \cup {msg}}
    BY <1>0, <1>10 DEF WriteFails, Return, Place
  <2> QED
    BY <1>0, <2>1
<1>11. CASE Tee
  BY <1>0, <1>11 DEF Tee
<1>12. CASE TeeFails
  BY <1>0, <1>12 DEF TeeFails, Return
<1>13. CASE FilesDone
  BY <1>0, <1>13 DEF FilesDone, Return
<1>14. CASE Exit
  BY <1>0, <1>14 DEF Exit
<1>15. CASE Signal
  BY <1>0, <1>15 DEF Signal, ownVars
<1>16. CASE UNCHANGED vars
  BY <1>0, <1>16 DEF vars, ownVars
<1> QED
  BY <1>1, <1>2, <1>3, <1>4, <1>5, <1>6, <1>7, <1>8, <1>9, <1>10, <1>11, <1>12,
     <1>13, <1>14, <1>15, <1>16, Steps

-----------------------------------------------------------------------------
(***************************************************************************)
(* One message at most is begun after Run was cleared.                     *)
(***************************************************************************)
LEMMA OnceMoreStep == IInv /\ [Next]_vars => OnceMore'
<1> SUFFICES ASSUME IInv, [Next]_vars PROVE OnceMore'
  OBVIOUS
<1> USE DEF OnceMore
<1>0. OnceMore /\ late \in Nat
  BY DEF IInv, TypeOK
<1>1. CASE Arrive
  BY <1>0, <1>1, LinesGrow DEF sigVars
<1>2. CASE CloseStdin
  BY <1>0, <1>2 DEF CloseStdin, sigVars
<1>3. CASE TestRun
  BY <1>0, <1>3 DEF TestRun, Return, sigVars
<1>4. CASE Take
  <2>1. UNCHANGED <<cfg, run>> /\ pc' # "next" /\ (cfg.lineMode => late = 0)
    BY <1>0, <1>4 DEF Take, Skip, Begin, BeginWrite, sigVars
  <2>2. late' = late \/ late' = IF run THEN late ELSE late + 1
    BY <1>4 DEF Take, Skip, Begin, BeginWrite
  <2> QED
    BY <1>0, <2>1, <2>2
<1>5. CASE EndOfInput
  BY <1>0, <1>5 DEF EndOfInput, Return, sigVars
<1>6. CASE ReadFails
  BY <1>0, <1>6 DEF ReadFails, Return, sigVars
<1>7. CASE BrokerAppends
  BY <1>0, <1>7 DEF BrokerAppends, sigVars
<1>8. CASE StrayArrives
  BY <1>0, <1>8 DEF StrayArrives, sigVars
<1>9. CASE WriteOk
  <2>1. UNCHANGED <<cfg, late>> /\ pc' # "next"
    BY <1>9 DEF WriteOk, Return
  <2>2. run' => run
    BY <1>9, Zenon DEF WriteOk
  <2> QED
    BY <1>0, <2>1, <2>2
<1>10. CASE WriteFails
  BY <1>0, <1>10 DEF WriteFails, Return, sigVars
<1>11. CASE Tee
  BY <1>0, <1>11 DEF Tee, sigVars
<1>12. CASE TeeFails
  BY <1>0, <1>12 DEF TeeFails, Return, sigVars
<1>13. CASE FilesDone
  BY <1>0, <1>13 DEF FilesDone, Return, sigVars
<1>14. CASE Exit
  BY <1>0, <1>14 DEF Exit, sigVars
<1>15. CASE Signal
  BY <1>0, <1>15 DEF Signal, ownVars, Notify, ReceiveSignal
<1>16. CASE UNCHANGED vars
  BY <1>0, <1>16 DEF vars, ownVars, sigVars
<1> QED
  BY <1>1, <1>2, <1>3, <1>4, <1>5, <1>6, <1>7, <1>8, <1>9, <1>10, <1>11, <1>12,
     <1>13, <1>14, <1>15, <1>16, Steps

-----------------------------------------------------------------------------
(***************************************************************************)
(* Every step keeps the acknowledgements in step with what was taken, and  *)
(* their number within the limit.                                          *)
(***************************************************************************)
LEMMA MessagedFrame ==
  ASSUME IInv, Arrive \/ UNCHANGED <<cfg, lines, pos>> PROVE Messaged' = Messaged
<1>1. CASE Arrive
  BY <1>1, BlankFrame, LinesGrow DEF Messaged
<1>2. CASE UNCHANGED <<cfg, lines, pos>>
  BY <1>2 DEF Messaged, Blank
<1> QED
  BY <1>1, <1>2

LEMMA MessagedGrows ==
  ASSUME IInv, Take
  PROVE  /\ Skip => Messaged' = Messaged
         /\ ~Skip => Messaged' = Messaged \cup {pos + 1}
<1>1. UNCHANGED <<cfg, lines>> /\ pos' = pos + 1 /\ pos \in Nat
  BY DEF Take, IInv, TypeOK
<1>2. \A n : Blank(n)' <=> Blank(n)
  BY <1>1 DEF Blank
<1>3. 1..pos' = (1..pos) \cup {pos + 1}
  BY <1>1
<1>4. Messaged' = {n \in (1..pos) \cup {pos + 1} : ~Blank(n)}
  BY <1>2, <1>3 DEF Messaged
<1>5. Skip => Blank(pos + 1)
  BY DEF Skip
<1>6. ~Skip => ~Blank(pos + 1)
  BY DEF Take, Begin
<1> QED
  BY <1>4, <1>5, <1>6 DEF Messaged

LEMMA ConfirmedFrame ==
  ASSUME Confirmed, Messaged' = Messaged, UNCHANGED <<cfg, acked, pos, msgCount>>,
         pc' = "write" => pc = "write",
         pc = "write" => pc' = "write" \/ (Over /\ failed)',
         Over => Over' /\ failed' = failed, run' => run
  PROVE  Confirmed'
<1>1. ButLast => ButLast'
  BY DEF ButLast
<1>2. InLimit => InLimit'
  <2>1. Over /\ ~run /\ ~failed => (Over /\ ~run /\ ~failed)'
    <3>1. Over /\ ~failed => (Over /\ ~failed)'
      BY Zenon
    <3> QED
      BY <3>1
  <2> QED
    BY <2>1 DEF InLimit
<1> QED
  BY <1>1, <1>2 DEF Confirmed

LEMMA ConfirmedStep == IInv /\ [Next]_vars => Confirmed'
<1> SUFFICES ASSUME IInv, [Next]_vars PROVE Confirmed'
  OBVIOUS
<1> USE DEF Over
<1>0. Confirmed /\ Place /\ pos \in Nat /\ msgCount \in Nat /\ cfg.limit \in Nat /\ acked \subseteq 1..pos
  BY Numbers DEF IInv, TypeOK
<1>1. CASE Arrive
  BY <1>0, <1>1, LinesGrow, MessagedFrame, ConfirmedFrame DEF sigVars
<1>2. CASE CloseStdin
  BY <1>0, <1>2, MessagedFrame, ConfirmedFrame DEF CloseStdin, sigVars
<1>3. CASE TestRun
  BY <1>0, <1>3, MessagedFrame, ConfirmedFrame DEF TestRun, Return, sigVars
<1>4. CASE Take
  <2>1. /\ pc \in {"next", "files"} /\ UNCHANGED <<cfg, acked>> /\ pos' = pos + 1
        /\ pos + 1 \notin acked
    BY <1>0, <1>4 DEF Take
  <2>2. cfg.lineMode => Messaged \subseteq acked
    BY <1>0, <2>1 DEF Confirmed, ButLast
  <2>3. cfg.lineMode => msgCount' = msgCount /\ (cfg.limit > 0 => msgCount < cfg.limit)
    <3>1. cfg.lineMode => msgCount' = msgCount
      BY <1>4 DEF Take, Skip, Begin
    <3>2. cfg.lineMode => (cfg.limit > 0 => msgCount < cfg.limit)
      BY <1>0, <2>1 DEF Confirmed, InLimit
    <3> QED
      BY <3>1, <3>2
  <2>4. (cfg.lineMode => InLimit /\ Cardinality(acked) = msgCount)'
    BY <1>0, <2>1, <2>3 DEF InLimit, Confirmed
  <2>5. CASE Skip
    <3>1. Messaged' = Messaged /\ pc' # "write"
      BY <1>4, <2>5, MessagedGrows DEF Skip
    <3>2. (cfg.lineMode => ButLast)'
      BY <2>1, <2>2, <3>1 DEF ButLast
    <3> QED
      BY <1>0, <2>1, <2>4, <3>1, <3>2 DEF Confirmed
  <2>6. CASE ~Skip
    <3>1. Messaged' = Messaged \cup {pos + 1} /\ pc' = "write"
      BY <1>4, <2>6, MessagedGrows DEF Take, Begin, BeginWrite
    <3>2. (cfg.lineMode => ButLast)'
      BY <2>1, <2>2, <3>1 DEF ButLast
    <3> QED
      BY <1>0, <2>1, <2>4, <3>1, <3>2 DEF Confirmed
  <2> QED
    BY <2>5, <2>6
<1>5. CASE EndOfInput
  BY <1>0, <1>5, MessagedFrame, ConfirmedFrame DEF EndOfInput, Return, sigVars
<1>6. CASE ReadFails
  BY <1>0, <1>6, MessagedFrame, ConfirmedFrame DEF ReadFails, Return, sigVars
<1>7. CASE BrokerAppends
  BY <1>0, <1>7, MessagedFrame, ConfirmedFrame DEF BrokerAppends, sigVars
<1>8. CASE StrayArrives
  BY <1>0, <1>8, MessagedFrame, ConfirmedFrame DEF StrayArrives, sigVars
<1>9. CASE WriteOk
  <2>1. /\ pc = "write" /\ Messaged' = Messaged /\ acked' = acked \cup {pos}
        /\ msgCount' = msgCount + 1 /\ UNCHANGED <<cfg, pos>> /\ pc' # "write"
    BY <1>9, MessagedFrame DEF WriteOk, Acknowledged, Return
  <2>2. pos \in Messaged /\ pos \notin acked
    BY <1>0, <1>9, <2>1, WriteOkOutcome DEF Messaged, Confirmed
  <2>3. IsFiniteSet(acked') /\ Cardinality(acked') = Cardinality(acked) + 1
    BY <1>0, <2>1, <2>2, FS_AddElement DEF Confirmed
  <2>4. (cfg.lineMode => ButLast)'
    BY <1>0, <2>1 DEF Confirmed, ButLast
  <2>5. (cfg.lineMode => InLimit)'
    <3> SUFFICES ASSUME cfg.lineMode, cfg.limit > 0 PROVE InLimit'
      BY <2>1 DEF InLimit
    <3>1. msgCount < cfg.limit
      BY <1>0, <2>1 DEF Confirmed, InLimit
    <3>2. CASE LimitReached
      <4>1. pc' = "returned" /\ run' = FALSE /\ failed' = FALSE
        BY <1>9, <3>2 DEF WriteOk, Return
      <4>2. msgCount + 1 = cfg.limit
        BY <1>0, <3>1, <3>2 DEF LimitReached
      <4> QED
        BY <2>1, <4>1, <4>2 DEF InLimit
    <3>3. CASE ~LimitReached
      <4>1. msgCount + 1 < cfg.limit
        BY <1>0, <3>3 DEF LimitReached
      <4> QED
        BY <2>1, <4>1 DEF InLimit
    <3> QED
      BY <3>2, <3>3
  <2> QED
    BY <1>0, <2>1, <2>2, <2>3, <2>4, <2>5 DEF Confirmed
<1>10. CASE WriteFails
  <2>1. /\ pc = "write" /\ Messaged' = Messaged /\ UNCHANGED <<cfg, pos, acked, msgCount>>
        /\ pc' = IF cfg.lineMode THEN "returned" ELSE "files"
        /\ cfg.lineMode => failed'
    BY <1>10, MessagedFrame DEF WriteFails, Return
  <2>2. (cfg.lineMode => ButLast)'
    BY <1>0, <2>1 DEF Confirmed, ButLast
  <2>3. (cfg.lineMode => InLimit)'
    BY <1>0, <2>1 DEF Confirmed, InLimit
  <2> QED
    BY <1>0, <2>1, <2>2, <2>3 DEF Confirmed
<1>11. CASE Tee
  BY <1>0, <1>11, MessagedFrame, ConfirmedFrame DEF Tee, sigVars
<1>12. CASE TeeFails
  BY <1>0, <1>12, MessagedFrame, ConfirmedFrame DEF TeeFails, Return, sigVars
<1>13. CASE FilesDone
  BY <1>0, <1>13, MessagedFrame, ConfirmedFrame DEF FilesDone, Return, sigVars
<1>14. CASE Exit
  BY <1>0, <1>14, MessagedFrame, ConfirmedFrame DEF Exit, sigVars
<1>15. CASE Signal
  BY <1>0, <1>15, MessagedFrame, ConfirmedFrame DEF Signal, ownVars, Notify, ReceiveSignal
<1>16. CASE UNCHANGED vars
  BY <1>0, <1>16, MessagedFrame, ConfirmedFrame DEF vars, ownVars, sigVars
<1> QED
  BY <1>1, <1>2, <1>3, <1>4, <1>5, <1>6, <1>7, <1>8, <1>9, <1>10, <1>11, <1>12,
     <1>13, <1>14, <1>15, <1>16, Steps

-----------------------------------------------------------------------------
(***************************************************************************)
(* Every step keeps stdout, under -T, one message at most behind.          *)
(***************************************************************************)
LEMMA TeedFrame ==
  ASSUME Teed, UNCHANGED <<cfg, acked, tee, msgCount>>,
         pos' = pos \/ pc \in {"next", "files"},
         pc' = "tee" => pc = "tee" /\ pos' = pos,
         pc = "tee" => pc' = "tee" \/ (Over /\ failed)',
         Over => Over' /\ failed' = failed
  PROVE  Teed'
<1>1. Behind => Behind'
  BY DEF Behind, Over
<1> QED
  BY <1>1 DEF Teed

LEMMA TeedStep == IInv /\ [Next]_vars => Teed'
<1> SUFFICES ASSUME IInv, [Next]_vars PROVE Teed'
  OBVIOUS
<1> USE DEF Over
<1>0. /\ Teed /\ Place /\ Confirmed /\ pos \in Nat /\ acked \subseteq 1..pos
      /\ tee \in Seq(acked) /\ Len(tee) \in Nat /\ DOMAIN tee = 1..Len(tee)
  BY Numbers DEF IInv, TypeOK
<1>00. Range(tee) \subseteq acked
  BY <1>0, ElementOfSeq DEF Range
<1>1. CASE Arrive
  BY <1>0, <1>1, LinesGrow, TeedFrame
<1>2. CASE CloseStdin
  BY <1>0, <1>2, TeedFrame DEF CloseStdin
<1>3. CASE TestRun
  BY <1>0, <1>3, TeedFrame DEF TestRun, Return
<1>4. CASE Take
  <2>1. /\ pc \in {"next", "files"} /\ UNCHANGED <<cfg, acked, tee>>
        /\ pc' \in {"loop", "files", "write"} /\ (cfg.lineMode => pc = "next")
    BY <1>4 DEF Take, Skip, Begin, BeginWrite
  <2>2. cfg.lineMode /\ cfg.tee => acked \ Range(tee) = {}
    BY <1>0, <2>1 DEF Teed, Behind
  <2> QED
    BY <1>0, <2>1, <2>2 DEF Teed, Behind
<1>5. CASE EndOfInput
  BY <1>0, <1>5, TeedFrame DEF EndOfInput, Return
<1>6. CASE ReadFails
  BY <1>0, <1>6, TeedFrame DEF ReadFails, Return
<1>7. CASE BrokerAppends
  BY <1>0, <1>7, TeedFrame DEF BrokerAppends
<1>8. CASE StrayArrives
  BY <1>0, <1>8, TeedFrame DEF StrayArrives
<1>9. CASE WriteOk
  <2>1. /\ pc = "write" /\ acked' = acked \cup {pos}
        /\ msgCount' = msgCount + 1 /\ UNCHANGED <<cfg, pos, tee>>
    BY <1>9 DEF WriteOk, Acknowledged
  <2>2. pos \notin acked
    BY <1>0, <2>1 DEF Confirmed
  <2>3. pc' = "tee" => pos \in acked' \ Range(tee)
    BY <1>00, <2>1, <2>2
  <2>4. ASSUME cfg.lineMode, cfg.tee PROVE Behind'
    <3>1. acked \ Range(tee) = {}
      BY <1>0, <2>1, <2>4 DEF Teed, Behind
    <3>2. (acked \ Range(tee))' \subseteq {pos}
      BY <2>1, <3>1
    <3>3. CASE LimitReached
      <4>1. pc' = "returned"
        BY <1>9, <3>3 DEF WriteOk, Return
      <4>2. msgCount + 1 = cfg.limit
        <5>1. msgCount \in Nat /\ cfg.limit \in Nat
          BY Numbers DEF IInv
        <5>2. cfg.limit > 0 => msgCount < cfg.limit
          BY <2>1, <2>4, <1>0 DEF Confirmed, InLimit
        <5> QED
          BY <3>3, <5>1, <5>2 DEF LimitReached
      <4> QED
        BY <2>1, <3>2, <4>1, <4>2 DEF Behind
    <3>4. CASE ~LimitReached
      <4>1. pc' = "tee"
        BY <1>9, <2>4, <3>4 DEF WriteOk
      <4> QED
        BY <2>1, <3>2, <4>1 DEF Behind
    <3> QED
      BY <3>3, <3>4
  <2> QED
    BY <1>0, <2>1, <2>3, <2>4 DEF Teed
<1>10. CASE WriteFails
  BY <1>0, <1>10, TeedFrame DEF WriteFails, Return
<1>11. CASE Tee
  <2>1. /\ pos \in acked \ Range(tee) /\ tee' = Append(tee, pos) /\ pc = "tee" /\ pc' = "loop"
        /\ UNCHANGED <<cfg, acked, pos>>
    BY <1>0, <1>11 DEF Tee, Teed
  <2>2. /\ tee' \in Seq(acked) /\ Len(tee') = Len(tee) + 1 /\ tee'[Len(tee) + 1] = pos
        /\ \A i \in 1..Len(tee) : tee'[i] = tee[i]
    BY <1>0, <2>1, AppendProperties
  <2>3. DOMAIN tee' = 1..(Len(tee) + 1)
    BY <2>2, LenProperties
  <2>4. \A i \in 1..Len(tee) : tee[i] \in acked /\ tee[i] # pos
    BY <1>0, <2>1, ElementOfSeq DEF Range
  <2>5. ASSUME NEW i \in 1..Len(tee) PROVE tee[i] < pos
    <3>1. tee[i] \in 1..pos /\ tee[i] # pos
      BY <1>0, <2>4
    <3> QED
      BY <1>0, <3>1
  <2>6. (\A i, j \in DOMAIN tee : i < j => tee[i] < tee[j])'
    <3> SUFFICES ASSUME NEW i \in DOMAIN tee', NEW j \in DOMAIN tee', i < j
                 PROVE  tee'[i] < tee'[j]
      OBVIOUS
    <3>1. i \in 1..Len(tee) /\ tee'[i] = tee[i]
      BY <1>0, <2>2, <2>3
    <3>2. CASE j = Len(tee) + 1
      BY <2>2, <2>5, <3>1, <3>2
    <3>3. CASE j \in 1..Len(tee)
      <4>1. tee'[j] = tee[j] /\ tee[i] < tee[j]
        BY <1>0, <2>2, <3>1, <3>3 DEF Teed
      <4> QED
        BY <3>1, <4>1
    <3> QED
      BY <1>0, <2>3, <3>2, <3>3
  <2>7. Range(tee') = Range(tee) \cup {pos}
    <3>1. \A i \in DOMAIN tee : i \in DOMAIN tee' /\ tee'[i] = tee[i]
      BY <1>0, <2>2, <2>3
    <3>2. \A i \in DOMAIN tee' : i \in DOMAIN tee \/ i = Len(tee) + 1
      BY <1>0, <2>3
    <3>3. Len(tee) + 1 \in DOMAIN tee'
      BY <1>0, <2>3
    <3> QED
      BY <2>2, <3>1, <3>2, <3>3 DEF Range
  <2>8. cfg.lineMode /\ cfg.tee => Behind'
    <3>1. cfg.lineMode /\ cfg.tee => acked \ Range(tee) \subseteq {pos}
      BY <1>0, <2>1 DEF Teed, Behind
    <3>2. cfg.lineMode /\ cfg.tee => acked' \ Range(tee') = {}
      BY <2>1, <2>7, <3>1
    <3> QED
      BY <3>2 DEF Behind
  <2> QED
    BY <2>1, <2>6, <2>8 DEF Teed
<1>12. CASE TeeFails
  BY <1>0, <1>12, TeedFrame DEF TeeFails, Return
<1>13. CASE FilesDone
  BY <1>0, <1>13, TeedFrame DEF FilesDone, Return
<1>14. CASE Exit
  BY <1>0, <1>14, TeedFrame DEF Exit
<1>15. CASE Signal
  BY <1>0, <1>15, TeedFrame DEF Signal, ownVars
<1>16. CASE UNCHANGED vars
  BY <1>0, <1>16, TeedFrame DEF vars, ownVars
<1> QED
  BY <1>1, <1>2, <1>3, <1>4, <1>5, <1>6, <1>7, <1>8, <1>9, <1>10, <1>11, <1>12,
     <1>13, <1>14, <1>15, <1>16, Steps

-----------------------------------------------------------------------------
(***************************************************************************)
(* Every step keeps the reasons for which the process ends.                *)
(***************************************************************************)
LEMMA DrainedStep == IInv /\ [Next]_vars => Drained'
<1> SUFFICES ASSUME IInv, [Next]_vars PROVE Drained'
  OBVIOUS
<1> USE DEF Drained, Over
<1>0. Drained /\ Place
  BY DEF IInv, Ended
<1>1. CASE Arrive
  BY <1>0, <1>1, LinesGrow DEF sigVars
<1>2. CASE CloseStdin
  BY <1>0, <1>2 DEF CloseStdin, sigVars
<1>3. CASE TestRun
  BY <1>0, <1>3 DEF TestRun, Return, sigVars
<1>4. CASE Take
  <2>1. pc' \in {"loop", "files", "write"}
    BY <1>4 DEF Take, Skip, Begin, BeginWrite
  <2> QED
    BY <2>1
<1>5. CASE EndOfInput
  BY <1>0, <1>5 DEF EndOfInput, Return, sigVars
<1>6. CASE ReadFails
  BY <1>0, <1>6 DEF ReadFails, Return, sigVars
<1>7. CASE BrokerAppends
  BY <1>0, <1>7 DEF BrokerAppends, sigVars
<1>8. CASE StrayArrives
  BY <1>0, <1>8 DEF StrayArrives, sigVars
<1>9. CASE WriteOk
  BY <1>0, <1>9, WriteOkOutcome DEF WriteOk
<1>10. CASE WriteFails
  BY <1>0, <1>10 DEF WriteFails, Return, sigVars
<1>11. CASE Tee
  BY <1>0, <1>11 DEF Tee, sigVars
<1>12. CASE TeeFails
  BY <1>0, <1>12 DEF TeeFails, Return, sigVars
<1>13. CASE FilesDone
  BY <1>0, <1>13 DEF FilesDone, Return, sigVars, Place
<1>14. CASE Exit
  BY <1>0, <1>14 DEF Exit, sigVars
<1>15. CASE Signal
  BY <1>0, <1>15 DEF Signal, ownVars, Notify, ReceiveSignal
<1>16. CASE UNCHANGED vars
  BY <1>0, <1>16 DEF vars, ownVars, sigVars
<1> QED
  BY <1>1, <1>2, <1>3, <1>4, <1>5, <1>6, <1>7, <1>8, <1>9, <1>10, <1>11, <1>12,
     <1>13, <1>14, <1>15, <1>16, Steps

LEMMA GoodFrame ==
  ASSUME SomeGood, UNCHANGED <<cfg, pos, acked, msgCount, failed, exitCode>>, Over' => Over
  PROVE  SomeGood'
<1>1. Good' <=> Good
  BY DEF Good
<1> QED
  BY <1>1 DEF SomeGood

LEMMA SomeGoodStep == IInv /\ [Next]_vars => SomeGood'
<1> SUFFICES ASSUME IInv, [Next]_vars PROVE SomeGood'
  OBVIOUS
<1>a. cfg' = cfg
  BY Steps DEF Arrive, CloseStdin, TestRun, Take, EndOfInput, ReadFails, BrokerAppends,
     StrayArrives, WriteOk, WriteFails, Tee, TeeFails, FilesDone, Exit, Signal, vars, ownVars
<1> SUFFICES ASSUME ~cfg.lineMode PROVE SomeGood'
  BY <1>a DEF SomeGood
<1> USE DEF Over
<1>0. /\ SomeGood /\ Status /\ Place /\ pos \in Nat /\ msgCount \in Nat /\ acked \subseteq 1..pos
      /\ exitCode \in {0, 1} /\ <<>> \in Seq(Bytes) /\ Nil \notin Seq(Bytes)
  BY Numbers DEF IInv, TypeOK, Ended, Config
<1>3. CASE Arrive \/ CloseStdin \/ TestRun \/ EndOfInput \/ ReadFails \/ Tee \/ TeeFails
  BY <1>0, <1>3 DEF Arrive, CloseStdin, TestRun, EndOfInput, ReadFails, Tee, TeeFails, Place
<1>4. CASE Take
  <2>1. /\ pc = "files" /\ UNCHANGED <<cfg, acked>> /\ pos' = pos + 1
        /\ pc' \in {"files", "write"} /\ pos + 1 \notin acked
        /\ 1..pos' = (1..pos) \cup {pos + 1}
    BY <1>0, <1>4 DEF Take, Skip, Begin, BeginWrite
  <2>2. Good' <=> Good \/ cfg.files[pos + 1] = <<>>
    BY <2>1 DEF Good
  <2>3. CASE Skip
    <3>1. cfg.files[pos + 1] = Nil => msgCount' = msgCount /\ cfg.files[pos + 1] # <<>>
      BY <1>0, <2>3 DEF Skip
    <3>2. cfg.files[pos + 1] # Nil => msgCount' = msgCount + 1 /\ cfg.files[pos + 1] = <<>>
      BY <1>0, <2>3 DEF Skip, Blank, Empty
    <3> QED
      BY <1>0, <2>1, <2>2, <3>1, <3>2 DEF SomeGood
  <2>4. CASE ~Skip
    <3>1. msgCount' = msgCount /\ cfg.files[pos + 1] # <<>>
      BY <1>4, <2>4 DEF Take, Begin, Blank, Empty
    <3> QED
      BY <1>0, <2>1, <2>2, <3>1 DEF SomeGood
  <2> QED
    BY <2>3, <2>4
<1>7. CASE BrokerAppends
  BY <1>0, <1>7, GoodFrame DEF BrokerAppends
<1>8. CASE StrayArrives
  BY <1>0, <1>8, GoodFrame DEF StrayArrives
<1>9. CASE WriteOk
  <2>1. /\ acked' = acked \cup {pos} /\ msgCount' = msgCount + 1 /\ UNCHANGED <<cfg, pos>>
        /\ pc' = "files"
    BY <1>9 DEF WriteOk, LimitReached
  <2>2. pos \in 1..pos
    BY <1>0, <1>9, WriteOkOutcome
  <2>3. Good'
    BY <2>1, <2>2 DEF Good
  <2> QED
    BY <1>0, <2>1, <2>3 DEF SomeGood
<1>10. CASE WriteFails
  BY <1>0, <1>10, GoodFrame DEF WriteFails
<1>13. CASE FilesDone
  <2>1. /\ UNCHANGED <<cfg, pos, acked, msgCount>> /\ pc = "files" /\ exitCode = 0
        /\ exitCode' = IF msgCount = 0 THEN 1 ELSE exitCode
        /\ failed' <=> msgCount = 0
    BY <1>0, <1>13 DEF FilesDone, Return, Status
  <2>2. Good' <=> Good
    BY <2>1 DEF Good
  <2> QED
    BY <1>0, <2>1, <2>2 DEF SomeGood
<1>14. CASE Exit
  <2>1. UNCHANGED <<cfg, pos, acked, msgCount, failed>> /\ Over
        /\ exitCode' = IF failed THEN 1 ELSE exitCode
    BY <1>14 DEF Exit
  <2>2. Good' <=> Good
    BY <2>1 DEF Good
  <2> QED
    BY <1>0, <2>1, <2>2 DEF SomeGood
<1>15. CASE Signal
  BY <1>0, <1>15, GoodFrame DEF Signal, ownVars
<1>16. CASE UNCHANGED vars
  BY <1>0, <1>16, GoodFrame DEF vars, ownVars
<1> QED
  BY <1>3, <1>4, <1>7, <1>8, <1>9, <1>10, <1>13, <1>14, <1>15, <1>16, Steps

LEMMA StatusStep == IInv /\ [Next]_vars => Status'
<1> SUFFICES ASSUME IInv, [Next]_vars PROVE Status'
  OBVIOUS
<1> USE DEF Status, Over
<1>0. Status
  BY DEF IInv, Ended
<1>1. CASE Exit
  BY <1>1 DEF Exit
<1>2. CASE FilesDone
  BY <1>0, <1>2 DEF FilesDone, Return
<1>3. CASE Take
  BY <1>0, <1>3 DEF Take, Skip, Begin, BeginWrite
<1>4. CASE WriteOk
  <2>1. UNCHANGED exitCode /\ pc = "write" /\ pc' # "exited"
    BY <1>4 DEF WriteOk, Acknowledged, Return
  <2> QED
    BY <1>0, <2>1
<1>5. CASE WriteFails
  BY <1>0, <1>5 DEF WriteFails, Return
<1>6. CASE Arrive \/ CloseStdin \/ TestRun
  BY <1>0, <1>6 DEF Arrive, CloseStdin, TestRun, Return
<1>7. CASE EndOfInput \/ ReadFails \/ Tee \/ TeeFails
  BY <1>0, <1>7 DEF EndOfInput, ReadFails, Tee, TeeFails, Return
<1>8. CASE BrokerAppends \/ StrayArrives
  BY <1>0, <1>8 DEF BrokerAppends, StrayArrives
<1>9. CASE Signal \/ UNCHANGED vars
  BY <1>0, <1>9 DEF Signal, vars, ownVars
<1> QED
  BY <1>1, <1>2, <1>3, <1>4, <1>5, <1>6, <1>7, <1>8, <1>9, Steps

-----------------------------------------------------------------------------
(***************************************************************************)
(* The inductive invariant holds in every reachable state.                 *)
(***************************************************************************)
LEMMA InitInvariant == Init => IInv
<1> SUFFICES ASSUME Init PROVE IInv
  OBVIOUS
<1>0. /\ lines = <<>> /\ log = <<>> /\ tee = <<>> /\ pos = 0 /\ msg = Nil /\ copies = 0
      /\ stray = {} /\ acked = {} /\ msgCount = 0 /\ late = 0 /\ exitCode = 0
      /\ pc = IF cfg.lineMode THEN "loop" ELSE "files"
      /\ cfg \in Configs
  BY DEF Init
<1>1. run = TRUE /\ closed = FALSE /\ readFailed = FALSE /\ failed = FALSE
  BY DEF Init, SigInit
<1>2. /\ DOMAIN log = {} /\ DOMAIN tee = {} /\ Len(lines) = 0 /\ pos \in Nat
  BY <1>0
<1>3. Config /\ Len(cfg.files) \in Nat
  BY <1>0, ConfigType, LenProperties DEF Config, ConfigOK
<1>4. TypeOK
  <2>1. SigTypeOK
    BY ProducerAssumption DEF Init, SigInit, SigTypeOK
  <2>2. lines \in Seq(Lines)
    BY <1>0, EmptySeq
  <2>3. log \in Seq(Messages)
    BY <1>0, EmptySeq
  <2>4. tee \in Seq(acked)
    BY <1>0, EmptySeq
  <2>5. closed \in BOOLEAN /\ readFailed \in BOOLEAN /\ failed \in BOOLEAN
    BY <1>1, Zenon
  <2>6. /\ msg \in Messages \cup {Nil} /\ stray \subseteq Messages /\ pc \in Places
    BY <1>0 DEF Places
  <2>7. /\ copies \in 0..MaxCopies /\ acked \subseteq 1..pos /\ msgCount \in Nat
        /\ late \in Nat /\ exitCode \in {0, 1} /\ cfg \in Configs /\ pos \in Nat
    BY <1>0, ProducerAssumption
  <2>8. Len(lines) <= MaxLines
    BY <1>2, ProducerAssumption
  <2> QED
    BY <2>1, <2>2, <2>3, <2>4, <2>5, <2>6, <2>7, <2>8, Zenon DEF TypeOK
<1>5. Cur = 0 /\ Len(Sources) \in Nat
  BY <1>0, <1>2, <1>3 DEF Cur, Sources
<1>6. Place
  BY <1>0, <1>5 DEF Place, Places
<1>7. Sent
  BY <1>0, <1>2 DEF Sent, NoStraggler, Appended
<1>8. Confirmed
  <2>1. Messaged = {}
    BY <1>0 DEF Messaged
  <2>2. cfg.limit \in Nat
    BY <1>3 DEF Config, ConfigOK
  <2>3. ButLast /\ InLimit
    BY <1>0, <2>1, <2>2 DEF ButLast, InLimit
  <2>4. acked = {} /\ msgCount = 0 /\ pc # "write"
    BY <1>0
  <2> QED
    BY <2>1, <2>3, <2>4, FS_EmptySet DEF Confirmed
<1>9. OnceMore /\ Lossless
  BY <1>0, <1>2 DEF OnceMore, Lossless
<1>10. Teed
  BY <1>0, <1>2 DEF Teed, Behind
<1>11. Ended
  <2>1. ~Good
    BY <1>0 DEF Good
  <2> QED
    BY <1>0, <2>1 DEF Ended, Drained, SomeGood, Status, Over
<1> QED
  BY <1>4, <1>6, <1>7, <1>8, <1>9, <1>10, <1>11 DEF IInv

THEOREM Invariance == Spec => []IInv
<1>1. IInv /\ [Next]_vars => Lossless'
  BY FineStep, FineIsSent DEF AllFine, Fine, Lossless
<1>2. IInv /\ [Next]_vars => IInv'
  BY <1>1, TypeStep, PlaceStep, SentStep, ConfirmedStep, OnceMoreStep, TeedStep,
     DrainedStep, SomeGoodStep, StatusStep DEF IInv, Ended
<1> QED
  BY InitInvariant, <1>2, PTL DEF Spec

(***************************************************************************)
(* Every variable keeps its type.                                          *)
(***************************************************************************)
THEOREM TypeCorrect == Spec => []TypeOK
<1>1. IInv => TypeOK
  BY DEF IInv
<1> QED
  BY <1>1, Invariance, PTL

(***************************************************************************)
(* Every message on the topic can be put together to the line it was.      *)
(***************************************************************************)
THEOREM AlwaysLossless == Spec => []KeyValueLossless
<1>1. IInv => KeyValueLossless
  BY DEF IInv, Lossless, Faithful, KeyValueLossless
<1> QED
  BY <1>1, Invariance, PTL

(***************************************************************************)
(* -c n: at most n lines are begun, and the nth acknowledgement ends the   *)
(* loop.                                                                   *)
(***************************************************************************)
THEOREM LimitAlwaysHonoured == Spec => []LimitHonoured
<1>1. ASSUME IInv, cfg.lineMode, cfg.limit > 0
      PROVE  /\ Cardinality({n \in 1..pos : Taken(n)}) <= cfg.limit
             /\ Cardinality(acked) = cfg.limit => pc \in {"returned", "exited"} /\ ~run
  <2>1. /\ Confirmed /\ msgCount \in Nat /\ cfg.limit \in Nat
    BY <1>1, Numbers DEF IInv
  <2>2. /\ ButLast /\ InLimit /\ Cardinality(acked) = msgCount
        /\ IsFiniteSet(acked) /\ acked \subseteq Messaged
    BY <1>1, <2>1 DEF Confirmed
  <2>3. {n \in 1..pos : Taken(n)} = Messaged
    BY <1>1 DEF Taken, Messaged, Blank
  <2>4. Cardinality(Messaged) <= cfg.limit
    <3>1. CASE msgCount < cfg.limit
      <4>1. Messaged = acked \/ Messaged = acked \cup {pos}
        BY <2>2 DEF ButLast
      <4>2. Cardinality(Messaged) \in {msgCount, msgCount + 1}
        BY <2>2, <4>1, FS_AddElement
      <4> QED
        BY <2>1, <3>1, <4>2
    <3>2. CASE msgCount = cfg.limit /\ Over /\ ~run /\ ~failed
      <4>1. Messaged = acked
        BY <2>2, <3>2 DEF ButLast, Over
      <4> QED
        BY <2>1, <2>2, <3>2, <4>1
    <3> QED
      BY <1>1, <2>2, <3>1, <3>2 DEF InLimit
  <2>5. Cardinality(acked) = cfg.limit => ~(msgCount < cfg.limit)
    BY <2>1, <2>2
  <2>6. Cardinality(acked) = cfg.limit => pc \in {"returned", "exited"} /\ ~run
    BY <1>1, <2>2, <2>5 DEF InLimit, Over
  <2> QED
    BY <2>3, <2>4, <2>6
<1>2. IInv => LimitHonoured
  BY <1>1 DEF LimitHonoured
<1> QED
  BY <1>2, Invariance, PTL

(***************************************************************************)
(* -T: stdout has the acknowledged messages, in order, but for the last    *)
(* one at most.                                                            *)
(***************************************************************************)
THEOREM TeeAlwaysFollows == Spec => []TeeFollowsAcks
<1>1. ASSUME IInv PROVE TeeFollowsAcks
  <2>1. Teed /\ tee \in Seq(acked) /\ DOMAIN tee = 1..Len(tee)
    BY <1>1, Numbers DEF IInv, TypeOK
  <2>2. Range(tee) \subseteq acked
    BY <2>1, ElementOfSeq DEF Range
  <2>3. cfg.lineMode /\ cfg.tee => Behind
    BY <2>1 DEF Teed
  <2>4. \A i, j \in DOMAIN tee : i < j => tee[i] < tee[j]
    BY <2>1 DEF Teed
  <2>5. cfg.lineMode /\ cfg.tee =>
          /\ acked \ Range(tee) \subseteq {pos}
          /\ acked \ Range(tee) # {} => pc = "tee" \/ failed \/ msgCount = cfg.limit
    BY <2>3 DEF Behind
  <2> QED
    BY <2>2, <2>4, <2>5 DEF TeeFollowsAcks
<1> QED
  BY <1>1, Invariance, PTL

(***************************************************************************)
(* Exit status 0: all that was taken from stdin is acknowledged, and       *)
(* unless something is known to have cut it short all of stdin was taken;  *)
(* with files, one of them was good.                                       *)
(***************************************************************************)
THEOREM ExitCodeAlwaysTells == Spec => []ExitCodeTells
<1>1. ASSUME IInv, pc = "exited" PROVE ExitCodeTells
  <2>1. Drained /\ SomeGood /\ Status /\ Confirmed /\ exitCode \in {0, 1} /\ Over
    BY <1>1 DEF IInv, Ended, TypeOK, Over
  <2>2. CASE cfg.lineMode
    <3>1. exitCode = 0 => ~failed
      BY <1>1, <2>1 DEF Status
    <3>2. exitCode = 0 => Messaged \subseteq acked
      BY <1>1, <2>1, <2>2, <3>1 DEF Confirmed, ButLast
    <3>3. exitCode = 0 => \A n \in 1..pos : Taken(n) => n \in acked
      BY <2>2, <3>2 DEF Messaged, Taken, Blank
    <3>4. exitCode = 0 => (run /\ ~readFailed => closed /\ pos = Len(lines))
      BY <2>1, <2>2, <3>1 DEF Drained
    <3> QED
      BY <2>2, <3>3, <3>4 DEF ExitCodeTells
  <2>3. CASE ~cfg.lineMode
    <3>1. exitCode = 0 <=> Good
      BY <2>1, <2>3 DEF SomeGood
    <3> QED
      BY <2>3, <3>1 DEF ExitCodeTells, Good
  <2> QED
    BY <2>2, <2>3
<1>2. IInv => ExitCodeTells
  BY <1>1 DEF ExitCodeTells
<1> QED
  BY <1>2, Invariance, PTL

-----------------------------------------------------------------------------
(***************************************************************************)
(* Producer implements Pipe, with the lines or files for the source and    *)
(* the numbers of the messages in the log for what is delivered.           *)
(***************************************************************************)
Source == IF cfg.lineMode THEN [n \in DOMAIN lines |-> lines[n] = <<>>]
                          ELSE [n \in DOMAIN cfg.files |-> Empty(cfg.files[n])]
Delivered == [i \in DOMAIN log |-> log[i].n]

LEMMA SourceIsSeq ==
  ASSUME Config, lines \in Seq(Lines)
  PROVE  /\ Source \in Seq(BOOLEAN) /\ Len(Source) = Len(Sources)
         /\ \A n \in 1..Len(Sources) : Source[n] <=> Blank(n)
<1>1. CASE cfg.lineMode
  <2> DEFINE k == Len(lines)
             f == [n \in 1..k |-> lines[n] = <<>>]
  <2>1. DOMAIN lines = 1..k /\ k \in Nat
    BY LenProperties
  <2>2. Source = f
    BY <1>1, <2>1 DEF Source
  <2> HIDE DEF k
  <2>3. f \in [1..k -> BOOLEAN]
    BY Zenon
  <2>4. f \in Seq(BOOLEAN) /\ Len(f) = k
    BY <2>1, <2>3, SeqDef
  <2>5. \A n \in 1..k : f[n] <=> lines[n] = <<>>
    OBVIOUS
  <2> QED
    BY <1>1, <2>2, <2>4, <2>5 DEF Sources, Blank, k
<1>2. CASE ~cfg.lineMode
  <2> DEFINE k == Len(cfg.files)
             f == [n \in 1..k |-> Empty(cfg.files[n])]
  <2>1. DOMAIN cfg.files = 1..k /\ k \in Nat
    BY LenProperties DEF Config, ConfigOK
  <2>2. Source = f
    BY <1>2, <2>1 DEF Source
  <2> HIDE DEF k
  <2>3. f \in [1..k -> BOOLEAN]
    BY Zenon DEF Empty
  <2>4. f \in Seq(BOOLEAN) /\ Len(f) = k
    BY <2>1, <2>3, SeqDef
  <2>5. \A n \in 1..k : f[n] <=> Empty(cfg.files[n])
    OBVIOUS
  <2> QED
    BY <1>2, <2>2, <2>4, <2>5 DEF Sources, Blank, k
<1> QED
  BY <1>1, <1>2

LEMMA SameTopic ==
  ASSUME UNCHANGED <<cfg, lines, msg, log, acked, late>>
  PROVE  /\ run' = run => UNCHANGED Topic!vars
         /\ run' = FALSE => Topic!Stop
<1>1. UNCHANGED <<Source, cfg.lineMode, cfg.acked, Cur, Delivered, acked, late>>
  BY DEF Source, Cur, Delivered, Empty
<1>2. run' = run => (~run)' = ~run
  OBVIOUS
<1>3. run' = FALSE => (~run)' = TRUE
  OBVIOUS
<1> QED
  BY <1>1, <1>2, <1>3, Zenon DEF Topic!vars, Topic!Stop, Source, Cur, Delivered

LEMMA ArriveImplements == ASSUME IInv, Arrive PROVE Topic!Extend
<1>1. PICK l \in Lines : lines' = Append(lines, l)
  BY DEF Arrive
<1>2. /\ cfg.lineMode /\ UNCHANGED <<cfg, msg, log, acked, late, sigVars>>
      /\ lines \in Seq(Lines)
  BY LinesGrow DEF IInv, TypeOK
<1>3. /\ Len(lines') = Len(lines) + 1 /\ DOMAIN lines' = 1..(Len(lines) + 1)
      /\ DOMAIN lines = 1..Len(lines) /\ Len(lines) \in Nat
      /\ lines'[Len(lines) + 1] = l
      /\ \A n \in 1..Len(lines) : lines'[n] = lines[n]
  <2>1. lines' \in Seq(Lines)
    BY <1>1, <1>2, AppendProperties
  <2> QED
    BY <1>1, <1>2, <2>1, AppendProperties, LenProperties
<1>4. Source' = Append(Source, l = <<>>)
  <2>1. Source' = [n \in 1..(Len(lines) + 1) |-> lines'[n] = <<>>]
    BY <1>2, <1>3 DEF Source
  <2>2. Source = [n \in 1..Len(lines) |-> lines[n] = <<>>] /\ Len(Source) = Len(lines)
    BY <1>2, <1>3 DEF Source
  <2> QED
    BY <1>3, <2>1, <2>2
<1>5. (l = <<>>) \in BOOLEAN
  OBVIOUS
<1>6. \E blank \in BOOLEAN : Source' = Append(Source, blank)
  BY <1>4, <1>5
<1>7. UNCHANGED <<cfg.lineMode, cfg.acked, Cur, Delivered, acked, late>>
  BY <1>2 DEF Cur, Delivered
<1>8. (~run)' = ~run
  BY <1>2 DEF sigVars
<1> QED
  BY <1>6, <1>7, <1>8, Zenon DEF Topic!Extend, Source, Cur, Delivered

LEMMA TakeImplements ==
  ASSUME IInv, Take PROVE Topic!Begin \/ UNCHANGED Topic!vars
<1>1. UNCHANGED <<cfg, lines, log, acked, run>>
  BY DEF Take, sigVars
<1>2. CASE Skip
  BY <1>1, <1>2, SameTopic DEF Skip
<1>3. CASE \E m \in Messages : Begin(m)
  <2>1. PICK m \in Messages : Begin(m)
    BY <1>3
  <2>2. /\ msg' = m /\ m.n = pos + 1 /\ m # Nil /\ ~Blank(pos + 1)
        /\ late' = IF run THEN late ELSE late + 1
    BY <2>1 DEF Begin, BeginWrite
  <2>3. Cur' = pos + 1
    BY <2>2 DEF Cur
  <2>4. /\ pos \in Nat /\ Place /\ lines \in Seq(Lines) /\ Config /\ OnceMore /\ Confirmed
        /\ pos < Len(Sources) /\ Len(Sources) \in Nat
    BY Numbers DEF IInv, TypeOK, Take, Sources
  <2>5. /\ Len(Source) = Len(Sources)
        /\ \A n \in 1..Len(Sources) : Source[n] <=> Blank(n)
    BY <2>4, SourceIsSeq
  <2>6. Cur \in 0..pos /\ \A k \in (Cur + 1)..pos : Blank(k)
    BY <2>4 DEF Place
  <2>7. \E n \in (Cur + 1)..Len(Source) :
          /\ ~Source[n] /\ \A k \in (Cur + 1)..(n - 1) : Source[k]
          /\ Cur' = n
    <3>1. pos + 1 \in (Cur + 1)..Len(Source) /\ ~Source[pos + 1]
      BY <2>2, <2>4, <2>5, <2>6
    <3>2. \A k \in (Cur + 1)..((pos + 1) - 1) : Source[k]
      BY <2>4, <2>5, <2>6
    <3> QED
      BY <2>3, <3>1, <3>2
  <2>8. cfg.lineMode /\ Cur # 0 => Cur \in acked
    <3>1. cfg.lineMode => Messaged \subseteq acked
      BY <2>4 DEF Take, Confirmed, ButLast, Over
    <3>2. Cur # 0 => Cur \in Messaged
      BY <2>4, <2>6 DEF Place, Messaged, Cur
    <3> QED
      BY <3>1, <3>2
  <2>9. cfg.lineMode /\ ~run => late = 0
    BY <2>4 DEF Take, OnceMore
  <2>10. late' = IF ~run THEN late + 1 ELSE late
    BY <2>2
  <2>11. UNCHANGED <<Source, cfg.lineMode, cfg.acked, Delivered, acked>>
    BY <1>1 DEF Source, Delivered, Empty
  <2>12. (~run)' = ~run
    BY <1>1
  <2>13. Topic!Begin
    BY <2>7, <2>8, <2>9, <2>10, <2>11, <2>12, Zenon DEF Topic!Begin, Source, Cur, Delivered
  <2> QED
    BY <2>13
<1> QED
  BY <1>2, <1>3 DEF Take

LEMMA AppendImplements ==
  ASSUME IInv, NEW m \in Messages, Fine(m), log' = Append(log, m),
         cfg.lineMode /\ cfg.acked => m.n = Cur,
         UNCHANGED <<cfg, lines, msg, acked, late, run>>
  PROVE  Topic!Deliver
<1>1. m.n \in 1..Cur /\ ~Blank(m.n)
  BY DEF Fine, Begun
<1>2. ~Source[m.n]
  <2>1. m.n \in 1..Len(Sources)
    BY <1>1, Numbers DEF IInv, Place, Sources
  <2> QED
    BY <1>1, <2>1, SourceIsSeq, Numbers DEF IInv, TypeOK
<1>3. Delivered' = Append(Delivered, m.n)
  <2>1. /\ DOMAIN log = 1..Len(log) /\ Len(log) \in Nat
        /\ DOMAIN log' = 1..(Len(log) + 1) /\ log'[Len(log) + 1] = m
        /\ \A i \in 1..Len(log) : log'[i] = log[i]
    BY LogGrows DEF IInv
  <2>2. Delivered = [i \in 1..Len(log) |-> log[i].n] /\ Len(Delivered) = Len(log)
    BY <2>1 DEF Delivered
  <2>3. Delivered' = [i \in 1..(Len(log) + 1) |-> log'[i].n]
    BY <2>1 DEF Delivered
  <2> QED
    BY <2>1, <2>2, <2>3
<1>4. UNCHANGED <<Source, cfg.lineMode, cfg.acked, Cur, acked, late>>
  BY DEF Source, Cur, Empty
<1>5. (~run)' = ~run
  OBVIOUS
<1> QED
  BY <1>1, <1>2, <1>3, <1>4, <1>5, Zenon DEF Topic!Deliver, Source, Cur, Delivered

LEMMA WriteOkImplements == ASSUME IInv, WriteOk PROVE Topic!Confirm
<1>1. Cur = pos /\ Cur # 0 /\ pc = "write"
  <2>1. Cur = pos /\ pos \in 1..Len(Sources) /\ pc = "write"
    BY WriteOkOutcome
  <2> QED
    BY <2>1
<1>2. cfg.acked => Cur \in Topic!Range(Delivered)
  <2>1. cfg.acked => copies > 0
    BY DEF WriteOk, Acknowledged
  <2>2. cfg.acked => \E i \in DOMAIN log : log[i].n = Cur
    BY <1>1, <2>1 DEF IInv, Sent, Appended
  <2> QED
    BY <2>2 DEF Delivered, Topic!Range
<1>3. acked' = acked \cup {Cur}
  BY <1>1 DEF WriteOk
<1>4. UNCHANGED <<Source, cfg.lineMode, cfg.acked, Cur, Delivered, late>>
  BY DEF WriteOk, Source, Cur, Delivered, Empty
<1>5. (~run)' \in {~run, TRUE}
  <2>1. run' = run \/ run' = FALSE
    BY Zenon DEF WriteOk
  <2>2. (~run)' = ~run \/ (~run)' = TRUE
    BY <2>1
  <2> QED
    BY <2>2, Zenon
<1> QED
  BY <1>1, <1>2, <1>3, <1>4, <1>5, Zenon DEF Topic!Confirm, Source, Cur, Delivered

(***************************************************************************)
(* Every step of Producer is one of Pipe's or changes nothing Pipe sees.   *)
(***************************************************************************)
LEMMA StepImplements == IInv /\ [Next]_vars => [Topic!Next]_(Topic!vars)
<1> SUFFICES ASSUME IInv, [Next]_vars PROVE [Topic!Next]_(Topic!vars)
  OBVIOUS
<1> USE DEF Topic!Next
<1>1. CASE Arrive
  BY <1>1, ArriveImplements
<1>2. CASE Take
  BY <1>2, TakeImplements
<1>3. CASE BrokerAppends
  <2>1. msg \in Messages /\ Fine(msg) /\ Cur = msg.n
    BY <1>3, InvFine DEF BrokerAppends, IInv, Place, TypeOK, AllFine, Cur
  <2> QED
    BY <1>3, <2>1, AppendImplements DEF BrokerAppends, sigVars
<1>4. CASE StrayArrives
  <2>1. PICK m \in stray : log' = Append(log, m)
    BY <1>4 DEF StrayArrives
  <2>2. m \in Messages /\ Fine(m)
    BY <2>1, InvFine DEF IInv, TypeOK, AllFine
  <2>3. cfg.lineMode /\ cfg.acked => m.n = Cur
    BY <2>1 DEF IInv, Sent, NoStraggler
  <2> QED
    BY <1>4, <2>1, <2>2, <2>3, AppendImplements DEF StrayArrives, sigVars
<1>5. CASE WriteOk
  BY <1>5, WriteOkImplements
<1>6. CASE CloseStdin \/ TestRun \/ EndOfInput \/ ReadFails \/ WriteFails
           \/ Tee \/ TeeFails \/ FilesDone \/ Exit
  <2>1. UNCHANGED <<cfg, lines, msg, log, acked, late, run>>
    BY <1>6 DEF CloseStdin, TestRun, EndOfInput, ReadFails, WriteFails, Tee, TeeFails,
       FilesDone, Exit, sigVars
  <2> QED
    BY <2>1, SameTopic
<1>7. CASE Signal
  <2>1. run' = run \/ run' = FALSE
    BY <1>7, Zenon DEF Signal, Notify, ReceiveSignal
  <2> QED
    BY <1>7, <2>1, SameTopic DEF Signal, ownVars
<1>8. CASE UNCHANGED vars
  BY <1>8, SameTopic DEF vars, ownVars, sigVars
<1> QED
  BY <1>1, <1>2, <1>3, <1>4, <1>5, <1>6, <1>7, <1>8, Steps

(***************************************************************************)
(* The topic gets the source's messages one at a time: with acks and from  *)
(* stdin none overtakes another and none is left out, whatever the copies, *)
(* the errors and the stragglers.                                          *)
(***************************************************************************)
THEOREM Implementation == Spec => PipeSpec
<1>1. Init => Topic!Init
  <2> SUFFICES ASSUME Init PROVE Topic!Init
    OBVIOUS
  <2>1. Config /\ lines \in Seq(Lines)
    BY ConfigType, EmptySeq DEF Init
  <2>2. Source \in Seq(BOOLEAN)
    BY <2>1, SourceIsSeq
  <2>3. cfg.lineMode \in BOOLEAN /\ cfg.acked \in BOOLEAN
    BY <2>1 DEF Config, ConfigOK
  <2>4. Cur = 0 /\ Delivered = <<>> /\ acked = {} /\ late = 0 /\ (~run) = FALSE
    BY DEF Init, SigInit, Cur, Delivered
  <2> QED
    BY <2>2, <2>3, <2>4, Zenon DEF Topic!Init, Source, Cur, Delivered
<1> QED
  BY <1>1, StepImplements, Invariance, PTL DEF Spec, PipeSpec, Topic!Spec

=============================================================================
