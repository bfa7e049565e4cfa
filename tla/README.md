# Verification of kcat-go

TLA+ models of kcat-go, a command-line producer and consumer for Apache Kafka,
with the TLC configurations that check them on small instances and the TLAPS
proofs about them. The models are read from the Go source; where this text and
the source disagree, the source is right and this is a mistake.

## 1. The system

kcat is one process. `main` scans the command line, reads a configuration file,
picks a mode and runs its function; a goroutine waits for SIGINT or SIGTERM.
Everything the parts share is in the global `config.Cfg`; its field `Run` is the
one variable that two goroutines use.

| Part | Source | State | Operations | Talks to |
|---|---|---|---|---|
| Start-up | `main.go`, `cmd/root.go`, `config/*.go` | arguments, flag values, `Cfg` | scan, parse, apply, `ReadConfFile`, checks, dispatch | calls one mode |
| Signals | `main.go:275-280` | channel of capacity 1, `Cfg.Run` | `signal.Notify`, one receive | clears the flag the loops test |
| Search | `input/buffer.go`, `util/strnstr.go` | none | `Index`, `IndexBM`, two `Strnstr` | called by the buffer and the producer |
| Input buffer | `input/buffer.go` | a slice with its capacity | `Next` | reads stdin, called by the producer |
| Producer | `kafka/producer.go` | line taken, count, exit code | `produceFromStdin`, `produceFromFiles` | buffer, `kafka.Writer`, stdout |
| Consumer | `kafka/consumer.go` | stop marks, count | `RunConsumer` | `kafka.Reader`, printer |
| Consumer group | `kafka/group.go` | count | `RunConsumerGroup` | `kafka.Reader`, coordinator, printer |
| Clients | `kafka/client.go` | none | three constructors | the library |
| Queries, metadata, mock | `kafka/query.go`, `metadata.go`, `mock.go` | none | one request and its listing | the library |
| Escapes and formats | `ParseDelim`, `format/*.go` | none | resolve, parse, print a message | called at start-up, by both consumers |
| Pack-formats | `serde/pack.go` | none | `PackCheck`, `Unpack` | called by the printer |
| Avro and registry | `serde/avro.go` | schemas by id | `AvroToJSON`, `GetSchema`, decode | the registry over HTTP; called by the printer |

What is hard in it: a byte stream cut at arbitrary places, with a delimiter that
may straddle two reads and a buffer that grows and fills; a signal that comes
while a loop is blocked; a broker that appends a message whose acknowledgement is
lost; a deadline that races a message or a commit; rebalances and crashes
between a commit and a print; a print that waits for a registry or does not end;
binary decoders whose offsets are off by one; exit codes that must tell a script
what happened; a configuration of which one half is read and the other not. `PROJECT.json`
lists each such hazard at its line, with the properties that watch it.

## 2. The modules

Processes, with the abstract specification that each of them implements:

* **Splitter** - what a caller of `Buffer.Next` may rely on: the unreturned part
  of the stream is cut at the first delimiter; the rest comes when the stream is
  closed, and then the end. It has no reads and no buffer.
* **Buffer** - `Buffer.Next`. One iteration of its loop is one step: make room,
  `Read` (any number of bytes up to what is there and fits), search, and one of
  *return a message*, *end of input*, *error* or *go round*. The writer of stdin
  is the environment. `SplitterSpec` is the refinement `Buffer => Splitter`: the
  two share the stream and what was returned, so the mapping is the identity on
  them and hides slice, capacity and reads.
* **Signals** - the channel, the receive and `Cfg.Run`; extended by Producer and
  Consumer. `Run` is read and written without synchronisation, but only ever
  cleared, so the race is the interleaving of the clear with the tests.
* **Pipe** - what whoever pipes data in may rely on. The source holds messages
  that are blank or not; *begin*, *deliver*, *confirm* and *stop* say which
  message may be begun when, what may be delivered, and how many are begun after
  a stop. It knows no buffers, retries, keys, counts or exit codes.
* **Producer** - `RunProducer`. Steps are the loop's test of `Run`, the line taken
  (with its split into key and value and the start of `WriteMessages`), the
  return of the write with the count and the limit, the tee, the file loop, and
  the exit. stdin is seen at the level of Splitter, but for a line that fills the
  buffer (`Fits`): `Next` never returns, and nothing more is taken. The broker is external:
  `BrokerAppends` may happen several times per call, and with `acks=0` after it.
  `PipeSpec` is `Producer => Pipe`; it maps lines or files to the source, the
  topic to the numbers of what it holds, and `Run` to *stopped*.
* **Feed** - what whoever reads the output may rely on: a stretch of the
  partition from some offset on, without a gap or a repetition, and one message
  at most after a stop.
* **Consumer** - `RunConsumer` on one partition: test of `Run`, `ReadMessage`
  (message, deadline or error), stop timestamp, print, count and limit, exit.
  Printing with `-s` is a step with several outcomes: whole, cut off at an error,
  a panic (exit code 2), a pack-format that does not end (place `spins`), or a
  schema that has to be looked up (place `lookup`). `cache` is the registry
  client's map. The registry is external and may answer with a schema, without
  one, with an error, or never. `FeedSpec` is `Consumer => Feed`.
* **Group** - `RunConsumerGroup` in several processes. The library's Reader and
  the coordinator are external: partitions have owners and a generation, a read
  is a fetch and a commit, both under the same deadline, and a commit of an
  earlier generation may still be accepted (the weakest assumption). `Crash` is a
  kill between any two steps; `Stall` is a print in one of the two places above,
  in which the process keeps its partitions. The history variables `dropped` and
  `stale` say what was given up, and that a rebalance came between a fetch and
  its commit.
* **Startup** - `main` up to the mode's loop: scan of the arguments, with `-X` a
  word of its own or attached to what it brings (`XArg`), `flag.Parse` of what it
  brought, mode, file line by line, checks (with `PackCheck` and the parse of
  `-f`), dispatch, start of the mode. A line of the file may be one that the
  scanner does not deliver; only its error, at the end, tells (`FileDone`). Modes L and Q make one request and
  are modelled to their exit: it may fail, and the answer may name no broker.
  Values are kept only where a branch depends on them; `-U` runs the `Strnstr`
  tests of `runTests` on the model of `Strnstr`.

Conversions, as operators on bytes or tokens, or as the loops that they are:

* **Search** - the searchers. `FirstMatch(buf, sep, last)` is the scan from the
  left up to `last`; `Index` and the two `Strnstr` differ in `last`.
* **Escapes** - `ParseDelim`, and `format.Parse` with `resolveEscapes`, one turn of
  a loop a step: the source, how much of it is read, and what is made of it. The
  formatters of a format are their letters plus 256. `DelimParsed` hands what
  `ParseDelim` makes of `-K` to `Parse`, as the consumer without `-f` does.
* **Pack** - `Unpack`, one turn of its loop a step, with its one index for format
  and data, and every way it can end: done, an error, a slice that leaves the data,
  or not at all.
* **Avro** - the decoder: varints, blocks with negative counts, unions, and where
  it errs or panics. **Encoding** is the reference it is checked against, all the
  encodings the Avro specification allows for a value, and models no code.
* **Query** - `ParseToppar`, the grouping of requests by topic, the broker's
  answer per partition, and the printed lines. Where the code walks a map, the
  result is a set.

**SearchInput**, **QueryInput** and **EscapesInput** are state machines whose state
is an input that grows - bytes after a pattern was chosen, arguments of `-Q` after
a broker was, the characters, escapes and formatters of a text that is then
converted - with the references that Search, Query and Escapes are checked
against. EscapesInput keeps, beside the bytes of a text, what they mean item by
item, so the reference needs no parser. **MCText** puts these, Pack and Avro into
one run; `kind` says which of them a behaviour is about. **Documented** states what
the repository's texts say of the conversions and takes the steps of four of them,
one conversion after the other (section 4). The other **MC*** are bounded instances.

**BufferProofs**, **SearchProofs**, **ProducerProofs**, **ConsumerProofs**,
**GroupProofs**, **StartupProofs**, **EscapesProofs** and **TextProofs** hold the
proofs; the last is about SearchInput, QueryInput and Pack. For them the sets that
the models draw data from are constants: `Bytes` of Producer is the alphabet of
keys and values, `Words` of Startup the texts that an argument may be,
`DelimItems` and `FormatItems` what may be written for `-K` and `-f`, any items of
bytes 0..255.

An operator marked `mutant` is a plausible wrong version of the operator that
follows it. It is not used by any specification; putting it in place of the
right one makes the property it is listed with (`PROJECT.json`, "mutants") fail,
which is how we know that the property says something about the code.

## 3. What the runs check

| Run | Instance | Result |
|---|---|---|
| text | patterns of 1..3 in inputs of up to 7 bytes over two values; every turn of the loops over `-K` and `-f` of up to 4 characters, escapes and formatters, and over pack-formats of up to 4 tokens over 0..10 bytes; every encoding of 27 values and every beginning of it, and 7 wrong ones; up to 3 arguments of `-Q` at 2 brokers | each conversion does what its reference says, with the exceptions listed in section 4 |
| documented | searches in up to 3 bytes, `-K` and `-f` of up to 2 of `a`, `1`, `\x41`, pack-formats of up to 3 tokens | **violated** `SomeConversionAsDocumented` |
| buffer | delimiter of 2 bytes that overlaps itself, maxSz 5, first capacity 2, 7 bytes | bounds, nothing lost, refinement, ends unless full |
| buffer_oversize | delimiter of 1 byte, maxSz 3, 4 bytes | **violated** `OversizeReported` |
| producer | 8 command lines, up to 3 lines of 6 shapes, one too long for the buffer, 2 appends, 1 signal | refinement, key and value, limit, tee, exit code, termination unless stuck in a long line |
| producer_usage | `-Z`, and `-T` with `-c`; 2 lines | **violated** `SentAsDocumented` |
| consumer | 9 command lines, 3 messages, timestamps 1..3, 2 schema ids, 2 signals | refinement, stop timestamp, limit, schemas, exit code, stop, drain |
| consumer_eof | `-e` alone, 2 messages | **violated** `ExitsAtEOF` |
| group | 2 processes, partitions of 2 and 1 messages, limit 2, 1 rebalance besides those that exits cause, prints that may stall | accounting, order, at most once, limit |
| group_live | 1 partition of 2 messages | stop, drain |
| startup | all lines of up to 3 of 6 arguments, the usages of the README, 220 lines with `-X`, 5 with it attached, 7 files | what counts, what runs, exit codes 0 and 2 |
| startup_usage | the usages of the README | **violated** `DocumentedUsageRuns` |

No run checks for deadlock, since in every model the system may rightly stop: a
process exits, a stream ends, an input reaches its bound. That a process stops only
when it should is what the liveness properties say.

**Why the bounds are enough.** *Text*: a pattern of 3 over two values has every
kind of self-overlap, and 7 is twice the pattern and one. An escape interacts with
the next character only, so pairs decide; 4 gives pairs a context. Every token of
a pack-format is met at every distance from the end of the data that its test
distinguishes. The numbers for Avro lie on both sides of each change of length up
to three bytes; lists have 0, 1, 2 and more elements and are cut into blocks in
every way. Three arguments of `-Q` can agree, and disagree in topic, partition or time.
*Buffer*: capacity goes 2, 4, 5, so it doubles, is clamped, and shrinks when a
message is cut off; a 2-byte delimiter straddles reads; 7 bytes exceed maxSz.
*Producer*: three lines give one before, one at and one after a limit or a
failure; two appends show a repetition; 2 and 1 for `-c` hit and miss the limit.
*Consumer*: timestamps below, at and above the stop in any order; with three
messages of two ids a schema is looked up, used again and looked up anew, and a
failed lookup is repeated; two signals, since the second is the one swallowed.
*Group*: two processes and two partitions are the least in which a rebalance
disturbs a partition whose owner does not change. *Startup*: three arguments reach
`-X` at the end, before an option and before its value, and attached to one of them.
*Documented* needs no more than one counterexample of each text.

**Fairness.** A process that can take a step takes one (weak fairness of the
loop's steps). *Buffer*: a `Read` that can return does. *Producer*: a write
returns, since the library bounds its retries; a line is sure to be taken only
once stdin is closed, because `Next` reads before it searches, and only if it fits
the buffer: `TakeLine` is disabled for one that does not, and `Terminates` excepts a
producer that is in `Next` before such a line. *Consumer*,
*Group*: `ReadMessage` returns by its deadline; the Reader fetches in the
background, so a message that stays there is returned by one of the calls
(strong fairness of the receive). The goroutine that waits for a signal is
scheduled. Nobody is obliged to write to stdin, close it, append a message, send
a signal, crash or (other than for orphaned partitions) rebalance. The registry
is not obliged to answer, since the lookup has no timeout, and a full stdout is
not obliged to fail; so `StopsWhenAsked` and `Drains` of Consumer and Group
except a process that stays for ever in a lookup or in `Unpack`, and only that.

## 4. Where the code and its documentation disagree

1. `util.Strnstr` does not find an occurrence that lies at the end: its index
   runs over ends but is bounded as if it ran over starts. `runTests`
   (`main.go:456`) expects one it misses, so `-U` exits with 1, and a key
   delimiter near the end of a line does not split it.
2. A hex escape of `-D` or `-K` is not `\xNN` (`buffer.go:12`, `root.go:42`): it takes
   a third digit, which is swallowed, and shifts the first one out.
3. A hex escape of `-f` is not `\xNN` either (`parser.go:32`): what follows it in a
   literal is lost. That may be a backslash: `-f '\x41\x42'` prints `Ax42`.
4. `Unpack` is not "Python struct-like" and does not support what `pack.go:18-21`
   lists: it never comes past a space, `<` or `>`, passes over one byte before each
   value, and slices outside the data, instead of reporting it as truncated, when a
   4- or 8-byte number is one byte short.
5. `Buffer.Next` never reports "exceeded max size": the test cannot hold, and a
   full buffer without a delimiter is read into an empty slice for ever.
6. `-Z` does not send NULL: the nil value is copied into an empty slice.
7. `-T` does not output all sent messages: the one that reaches `-c` ends the loop
   before it is shown.
8. `-e` does not exit after the last message: nothing looks at the end.
9. The usages of the README print the help: only what `-X` brings is parsed.

Run `documented` refutes 1 to 4. Each text is a predicate of Documented -
`StrnstrFindsNeedle` (of SearchInput), `DelimHexIsAByte`, `FormatHexIsAByte`,
`TokensPassedOver`, `ValuesFromTheFirstByte` and `ShortDataIsTruncated` - and a
conversion takes its steps when the text before it is refuted, so the behaviour
goes through all of them; the property is their disjunction, and in the last
state of the counterexample every one is false. Each is refuted at that state by
its own conversion, so none hides another. In the same way `producer_usage` refutes
6 and 7 (`EmptySentAsNull`, `SentIsTeed`). The other three have a run each.

What the conversions do instead is stated exactly, by properties that hold:
`StrnstrMissesOnlyNearEnd`, `EscapesMean` (of `DelimMeans` and `FormatMeans`) and
`UnpackOutcome`; they say how far the disagreement goes, not that it is right. So
does `TeeFollowsAcks`.

Other things that a user may not expect, and of which no text speaks:

* A line that fills the buffer keeps the producer from ending, even when stdin is
  closed and a signal has come (`Terminates`).
* The key delimiter goes through the format parser once more, so a `%` or a `\`
  in it is not shown as it is, and may end the process (`KeyDelimShown`,
  `ExitCodeMeans`).
* A consumer whose pack-format holds a space, `<` or `>` neither stops nor goes on
  (the exception of `StopsWhenAsked` and `Drains`).
* An empty Avro array comes out as null; a negative index ends the process
  (`AvroInverts`).
* An answer of the registry without a schema is kept for the rest of the run, and
  so is a schema; a failed lookup is not (`SchemaSticks`).
* Several `-Q` arguments for one partition share their answers, and any negative
  time means the beginning (`QueryAnswers`).
* `-L -J` at a cluster that names no broker ends in a panic (`ExitCodeMeans`).
* A message that cannot be printed counts for `-c` and leaves the exit code alone;
  a group member whose read fails exits with status 0 (Group's `ReadError`), and so
  does a producer whose read of stdin fails (the exception of `ExitCodeTells`).
* `main` ignores an error of `ParseDelim` (`main.go:134-143`): a `-D` with a bad
  escape leaves the newline, a `-K` leaves the key delimiter empty.

## 5. What is proved

Every invariant that the runs check of a process, every refinement, and what they
check of the searches, of `-Q`, of the escapes and of `Unpack`, for every value of
the constants: any alphabet and delimiter, any set of command lines, any number of
messages, processes, partitions, rebalances, signals and arguments, texts of any
length. The bounds of section 3 are bounds of TLC only.

| Module | Theorems (the property each states) |
|---|---|
| BufferProofs | `TypeCorrect` (`TypeOK`), `CapacityNeverExceeded` (`CapacityBound`), `NothingLost` (`HoldsUnreturned`), `Implementation` (`SplitterSpec`) |
| SearchProofs | `StrnstrSound`: the key search returns what `Index` returns, or nothing |
| ProducerProofs | `TypeCorrect`, `AlwaysLossless` (`KeyValueLossless`), `LimitAlwaysHonoured`, `TeeAlwaysFollows` (`TeeFollowsAcks`), `ExitCodeAlwaysTells`, `Implementation` (`PipeSpec`) |
| ConsumerProofs | `TypeCorrect`, `StopTSAlwaysHonoured`, `LimitAlwaysExact`, `SchemaAlwaysSticks`, `ExitCodeAlwaysTells`, `Implementation` (`FeedSpec`) |
| GroupProofs | `TypeCorrect`, `NothingVanishes` (`CommittedAccountedFor`), `AlwaysInOrder` (`InOrderPerGeneration`), `PrintedAtMostOnce` (`AtMostOnce`), `LimitAlwaysExact` |
| StartupProofs | `TypeCorrect`, `OptionsAlwaysNeedX`, `RunsAlwaysConfigured`, `ExitCodeAlwaysMeans` (`ExitCodeMeans`) |
| TextProofs | `IndexAlwaysFirst` (`IndexIsFirstOccurrence`), `StrnstrAlwaysMissesOnlyNearEnd`, `MatchesStay` (`GrowthKeepsMatch`), `QueryAlwaysAnswers` (`QueryAnswers`), `UnpackAlwaysSo` (`UnpackOutcome`) |
| EscapesProofs | `DelimMeansWritten` and `FormatMeansWritten`, together `EscapesAlwaysMean` (`EscapesMean`), `KeyDelimShownExactly` (`KeyDelimShown`) |

In each module `Invariance` (`EscapesInvariance`, `PackInvariance`, ...) is
`Spec => []IInv` for an inductive invariant `IInv`, a conjunction of named parts
with one lemma for each, by cases on the actions; the theorems follow from it. TLC
checked `IInv` on the small instances first.

**Buffer.** `IInv` is `TypeOK`, `CapacityBound`, `HoldsUnreturned` and
`ReadingIsLive`. The last is needed because `HoldsUnreturned` says more of a
slice set to nil, and only a call that is not in the loop can meet one.
`EnsuredBounds` and `ReadResultsBounds` give the arithmetic of growth,
`FilledIsPending` says the slice after a read is still a stretch of the stream,
`CutIsPending` that cutting off a message leaves one. The refinement needs one
more fact: the first delimiter of what has been read is the first of what is
unreturned, whatever is still to be read.

**Search.** The reference takes prefixes: `PrefixIsMatch` says that a prefix
followed by the pattern is a prefix exactly where the loop's comparison succeeds,
so the two sets of candidates are one, and `MinOfNat` picks the same member of it.

**Consumer.** The invariant counts: the messages read are those printed, and one
more while a message is in hand or after the stop timestamp (`Place`), and `rx` is
behind the output only between a print and its count (`Counted`). The first
version of `Counted` left open whether a run at its limit may also have met the
stop timestamp or a panic, and the proof of `LimitExact` did not go through
without it. The stop timestamp works because the threshold of `stopCnt` is 1
(`Stopped`); schemas stick because a lookup is made only for an id that is not in
the cache and every schema that was used is (`Cached`). For `FeedSpec` only the
prints are visible, and `Place` gives the number of the message that each appends.

**Producer.** `Place` says that what was taken behind the message in hand was
blank, so that numbers in the topic and in `Messaged` mean the same; `Sent` that
nothing is in the topic or on its way that was not begun, and `NoStraggler` that
with acks nothing is on its way when the next one is begun, which is what makes
the order survive repeated appends. `ButLast` is completeness: all that was taken
is acknowledged but the message in `WriteMessages` or the one whose failure ended
the loop; limit, tee and exit code follow from it with the count. A line is not
lost when it is split because `Strnstr` is sound (`StrnstrMatches`, `CutAtMatch`),
whatever it misses.

**Group.** Properties about what is printed are not inductive, since the message
that will be printed next is in somebody's hand: they are stated of `Out(m)`, the
output with the message from its fetch on, and `Done(m)`, from its commit on.
`Place` and `Order` give `InOrderPerGeneration`: every message of this generation
lies below the position, and a fetch adds the one at it. `Covered` says that all
below the committed offset, below the position and below a commit under way is
accounted for; the position has to be in it because a commit under way may be
that of an earlier generation. `Forward`, which holds until a commit comes late,
says that what was committed lies below the committed offset and what is about to
be above it; that is why at most once holds up to that point, and not after.

**Start-up.** `Bare` carries the absence of a word that begins with `-X` through the scan to the exit;
`Configured` relates the lines of the file read so far to the properties set.
That status 2 is one of a refused flag and three panics is read off the steps; that
status 0 is never one of `-U` needs that `-U` fails, which `UnitTestsFail` computes from
the model of `Strnstr`: one of its tests has the delimiter for the whole text, and
such a one is never found.

**Query.** `OneRecord` says that a line comes from the one record of its partition
whoever else asked for it, `RequestAsks` that no argument asks for -1, the code of
the end. So the record has a first offset exactly when one of the arguments for
the partition asks for the beginning, and never a last one, and the rest is cases.

**Unpack.** The loop has no memory of the values it has written but the last, so
`Place` says that while it runs, its index is where the last one ended, or no data
is left to write: `$` and the end of the format move it on only then. A token takes
two of index at least, hence no more values than half the tokens. `Ended` says what
was true of the token at which it stopped; that a slice leaves the data only if a
number of four or eight bytes is one byte short is then arithmetic, by token.

**Escapes.** What a conversion computes would be an induction over the text. As a
loop it is an induction over its turns, and the invariant has to place the loop in
the text. `Marked` says of every item where in the source it begins and where in
the meaning, that its bytes stand there (`CharAt`, `EscAt`, `HexAt`, `FmtAt`), that
items follow each other, and that each byte belongs to one; so a byte that the loop
looks at is a certain byte of a certain item.

* `ParseDelim` always stands where an item begins, never in front of a digit that a
  hex escape has swallowed, and has made exactly what the items before it mean, or
  something shorter (`DelimAt`). Shorter stays shorter, since no item makes more
  bytes than it means.
* `Parse` finds every formatter, because nothing that is written in a literal holds
  a `%` and a literal ends in front of one (`LiteralAt`); so it fails for a formatter
  that is bad. Within a literal, after a hex escape, the loop stands one byte into
  the next item or one byte past the end. `Aligned` names the ways in which it can:
  it has skipped a character, which is lost, or the backslash of an escape, whose
  letter then stands for itself. If the letter is what the escape means (`\q`)
  nothing is lost; if not, a byte differs for good (`Other`). The invariant compares
  only as long as no hex escape is followed by another or by `\\`: there the
  skipped byte is the backslash of `\x` or the first of two, and from then on items
  are read across their boundaries. `FormatMeans` therefore claims nothing of the
  result of such a format, and cannot claim that it differs: `\x413\x33x\x33\x31`
  comes out as it is meant. The first version of the property did claim it, and held
  in the run for texts of 4 items; the proof did not go through.
* The key delimiter in the default format goes through `Parse` as `KeyIInv` tells:
  its bytes are made as they are, one byte behind what is read (`Verbatim`), up to
  the first special one. Each `%` with its letter and each escape takes two bytes
  or more and makes one, so from then on two or more are missing when the `%s` is
  reached (`Gapped`), and the result is too short; the one exception is a `%` at the
  end of the delimiter, which takes the `%` of `%s` with it, and then an `s` comes
  out where the value should (`KeyBehind`).

**Assumptions.** Each is named in the module that declares the constants, and TLC
evaluates it on every run. *Buffer*: the delimiter is a non-empty sequence of bytes
and `0 < InitCap <= MaxSz`; `NewBuffer` is called with 4096 and 1 MiB and with
`"\n"` or a non-empty `-D`. *Producer*, *Consumer*: command lines are of the shape
that `main` lets through (`ConfigOK`), lines are sequences of bytes, nil is none.
*Escapes*: a text is written of characters, of escapes by any letter but `x`, of `\x`
with two hex digits, one or none, and in `-f` of formatters, finished or not, which
take the place of the character `%`. This excludes nothing: every sequence of bytes
can be written so, and with `MayFollow` in exactly one way - a digit behind `\x` is
part of it up to the second, and a backslash is a character of its own only at the
end or in front of a formatter. *Pack*: sizes are numbers. *Group*:
processes and partitions are finite sets. *Startup*: an argument is a word, what follows
`-X` in the same word is one (`XArg`), no known option begins with `-X`, and a file is
a sequence of lines of known kinds or cannot be read. *Query*: a part of an argument
that is read as a number is one or NaN, and a partition that exists has a first
offset (external, section 6).

**Left to TLC.** The liveness properties `EndsUnlessFull`, `Terminates`,
`StopsUnlessWaiting`, `StopsWhenAsked` and `Drains`, since fairness is beyond the
prover; and `AvroInverts`. A schema is a tree, the decoder is recursive over it and
so is the reference, and what a recursion computes for every tree is an induction
over data, which the prover cannot instantiate; as a machine with a stack of
unfinished values the decoder would have an invariant that is the same recursion.

## 6. External assumptions

kafka-go is not part of the repository and is modelled from how it is used:
`WriteMessages` with one message returns nil only when the message is
acknowledged (unless acks is 0), may append it several times, and may append it
and fail. Once it has returned nil with acks, no copy of an earlier attempt is still
on its way. This is an assumption: nothing in the code rules out a copy that arrives
after the acknowledgement of a retry, it could come behind the next message, and the
order that `PipeSpec` states rests on there being none. After a call that failed, or
with `acks=0`, a copy may arrive at any time (`stray`). `ReadMessage` without a group returns the partition in order;
with a group it fetches, commits synchronously (`CommitInterval: 0`) and returns,
all under the caller's deadline, while the Reader keeps up its heartbeats
whatever the caller is doing. A list-offsets request answers each partition and
time it is asked for, -1 for a time behind the last message, and says nothing of
a partition that does not exist. The registry's HTTP client has no timeout. What
the library makes of unusual settings (a topic both in the Writer and in the
message, partition -1000, a start offset without a group, a group without a
topic, since the arguments of `-G` are never passed on) is not modelled: a
consumer may start anywhere.

## 7. Not modelled

* The layout of messages and listings (`format/printer.go`'s fields,
  `kafka/metadata.go`), the NULL texts of keys and values, the text of
  floating-point numbers, and what the Avro decoder truncates to 32 bits or
  compares after an overflow (`avro.go:253`): a print is a step that ends whole,
  cut off, in a panic or not at all.
* TLS and SASL settings, which are handed to the library.
* What `main` does with the values of the other options (`main.go:117-144`, `175-233`:
  copies and conversions), among them the negative offset of `-o` (`main.go:220`),
  listed as a hazard without a property, and the form `-flag=value` of one argument.
* What nothing calls: `serde/json.go`, `util/util.go`, `GetSchemaByName`,
  `LoadSchemaFromFile`, `AvroSchemaID`, `ReadConfigFiles`, `FindConfigFile`,
  `EnvConfigFile`.
* Build and packaging.

## 8. Plan

Done, in this order: Search, Buffer over Splitter with proofs, Producer,
Consumer, Group, Startup; then the conversions (Escapes, Pack, Avro, Query), the
registry in Consumer, stalls in Group, the requests of L and Q in Startup, and
the abstract specifications Pipe and Feed with their refinements.

Done since: the safety invariants of every process and all three refinements,
proved; Search, Query and Escapes given inputs that grow, and `ParseDelim`, `Parse`
and `Unpack` their loops, so that what the runs check of them is proved too.

Left, proofs: the liveness properties and `AvroInverts`, for the reasons given in
section 5.

Left, modelling: the start offset with the values of `-o`, if the library's
treatment of them can be pinned down from the code.
