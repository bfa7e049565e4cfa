------------------------------ MODULE Startup -------------------------------
(***************************************************************************)
(* From the command line to a running mode: main of main.go with the       *)
(* start-up half of the run*Mode functions, and the configuration file     *)
(* that -F names (config/file.go and the setters of config/conf.go).       *)
(*                                                                         *)
(* main does not hand its arguments to the flag package.  It collects the  *)
(* argument of each -X in xArgs and has only those parsed as flags; of the *)
(* rest it looks for the mode letters, and what is not in a list of known  *)
(* option names becomes extraArgs, the files or topics.                    *)
(*                                                                         *)
(* Arguments are strings without further structure: what follows -X in one *)
(* word is given by the constant XArg, and the form "-flag=value" of one   *)
(* argument is left out.  Of the flags those are kept that decide where    *)
(* main goes; the others only copy a value.                                *)
(*                                                                         *)
(* The modes C, G and P go on in modules Consumer, Group and Producer; L   *)
(* and Q make one request to a broker and are modelled here to their end.  *)
(* What they make of the answer to a query is in module Query.             *)
(***************************************************************************)
EXTENDS Search, Functions, FiniteSets

CONSTANTS Words,     \* what an argument may be
          XArg,      \* the words that begin with -X, each with what follows it
          CmdLines,  \* command lines: sequences of arguments
          Files      \* what -F may find: sequences of Kinds, or Unreadable

(***************************************************************************)
(* The flags main defines, by what the flag package expects after them.    *)
(***************************************************************************)
BoolFlags == {"-U", "-V", "-h", "-e", "-l", "-J"}
IntFlags == {"-M"}
StringFlags == {"-G", "-b", "-t", "-F", "-o", "-f", "-s", "-K"}
ValueFlags == IntFlags \cup StringFlags
Numbers == {"0", "3"}

LooksLikeFlag(arg) == arg \in BoolFlags \cup ValueFlags \cup
                              {"-C", "-L", "-Q", "-P"} \cup DOMAIN XArg

(***************************************************************************)
(* The names main keeps out of extraArgs; -e, -l and more are not there.   *)
(***************************************************************************)
KnownNames == {"-h", "-V", "-U", "-P", "-C", "-L", "-Q", "-M", "-G", "-b", "-t",
               "-o", "-F", "-f", "-s", "-K"}

(***************************************************************************)
(* Kinds of lines of a configuration file, by how ReadConfFile handles     *)
(* them: skipped, a property, or a cause to give up.  A "broken" line is   *)
(* one the Scanner does not deliver: too long, or behind a read error.     *)
(***************************************************************************)
BadKinds == {"no =", "bad jaas", "empty registry"}
Settings == {"blank", "jaas", "brokers", "global", "topic"}
Kinds == Settings \cup BadKinds \cup {"broken"}
Unreadable == <<"unreadable">>

ASSUME StartupAssumption == /\ CmdLines \subseteq Seq(Words)
                            /\ DOMAIN XArg \cap KnownNames = {}
                            /\ "-X" \in DOMAIN XArg
                            /\ \A word \in DOMAIN XArg : XArg[word] \in Words
                            /\ Files \subseteq Seq(Kinds) \cup {Unreadable}

VARIABLES argv,      \* os.Args[1:]
          i,         \* arguments, flags or lines dealt with so far
          pc,        \* where main is
          xArgs,     \* the arguments of -X
          extraArgs, \* files or topics
          flags,     \* the flags parsed: their values, TRUE for BoolFlags
          file,      \* the contents of the file named by -F
          props,     \* KafkaConf and TopicConf: kinds of properties set
          seen,      \* BrokersSeen
          mode,      \* config.Cfg.Mode, "none" for 0
          usage,     \* the usage text was printed
          answer,    \* what the request of mode L or Q brought
          exitCode   \* status of a process that has exited

vars == <<argv, i, pc, xArgs, extraArgs, flags, file, props, seen, mode, usage,
          answer, exitCode>>

Answers == {"none", "failed", "offsets", "brokers", "no brokers"}
Modes == {"none", "C", "G", "L", "Q", "M", "P"}
Places == {"scan", "parse", "apply", "file", "checks", "dispatch", "running",
           "exited"}

TypeOK == /\ argv \in CmdLines /\ file \in Files
          /\ i \in Nat /\ (pc \in {"scan", "parse"} => i <= Len(argv))
          /\ pc \in Places /\ mode \in Modes
          /\ xArgs \in Seq(Words) /\ extraArgs \in Seq(Words)
          /\ Len(xArgs) + Len(extraArgs) <= Len(argv)
          /\ DOMAIN flags \subseteq BoolFlags \cup ValueFlags
          /\ props \subseteq Settings
          /\ seen \in BOOLEAN /\ usage \in BOOLEAN
          /\ answer \in Answers /\ exitCode \in 0..2

Init == /\ argv \in CmdLines /\ file \in Files
        /\ i = 0 /\ pc = "scan"
        /\ xArgs = <<>> /\ extraArgs = <<>> /\ flags = <<>>
        /\ props = {} /\ seen = FALSE /\ mode = "none"
        /\ usage = FALSE /\ answer = "none" /\ exitCode = 0

-----------------------------------------------------------------------------
Exit(status) == pc' = "exited" /\ exitCode' = status

PrintUsage(status) == usage' = TRUE /\ Exit(status)

Has(name) == name \in DOMAIN flags

HasModeFlag(name) == name \in Range(argv)

(***************************************************************************)
(* The loop over os.Args.  The argument of -X is the next one, or what is  *)
(* attached to it; that of a -X which is the last argument is empty.       *)
(***************************************************************************)
LastArg == i + 1 = Len(argv)

Detached == argv[i + 1] = "-X" /\ ~LastArg

AfterX == IF argv[i + 1] = "-X" THEN i + 2 ELSE i + 1  \* mutant of NextArg

NextArg == IF Detached THEN i + 2 ELSE i + 1

ScanArg ==
  /\ pc = "scan" /\ i < Len(argv)
  /\ i' = NextArg
  /\ LET arg == argv[i + 1] IN
     IF arg \in DOMAIN XArg
     THEN /\ xArgs' = Append(xArgs, IF Detached THEN argv[i + 2] ELSE XArg[arg])
          /\ UNCHANGED extraArgs
     ELSE /\ extraArgs' = IF arg \in KnownNames THEN extraArgs
                                                ELSE Append(extraArgs, arg)
          /\ UNCHANGED xArgs
  /\ UNCHANGED <<argv, pc, flags, file, props, seen, mode, usage, answer,
                 exitCode>>

ScanDoneAll ==  \* mutant: all arguments are parsed, as flag.Parse does
  /\ pc = "scan" /\ i = Len(argv)
  /\ pc' = "parse" /\ i' = 0 /\ xArgs' = argv /\ extraArgs' = <<>>
  /\ UNCHANGED <<argv, flags, file, props, seen, mode, usage, answer,
                 exitCode>>

ScanDone == /\ pc = "scan" /\ i = Len(argv)
            /\ pc' = "parse" /\ i' = 0
            /\ UNCHANGED <<argv, xArgs, extraArgs, flags, file, props, seen,
                           mode, usage, answer, exitCode>>

(***************************************************************************)
(* flag.CommandLine.Parse(xArgs): one flag per step.  It ends at the first *)
(* argument that does not look like a flag; an unknown flag, or a value    *)
(* that is missing or no number where one is wanted, exits with status 2.  *)
(***************************************************************************)
MoreFlags == i < Len(xArgs) /\ LooksLikeFlag(xArgs[i + 1])

Set(name, value) ==
  [f \in DOMAIN flags \cup {name} |-> IF f = name THEN value ELSE flags[f]]

ParseFlag ==
  /\ pc = "parse" /\ MoreFlags
  /\ LET name == xArgs[i + 1] IN
     IF name \in BoolFlags
     THEN /\ flags' = Set(name, TRUE)
          /\ i' = i + 1
          /\ UNCHANGED <<pc, exitCode>>
     ELSE IF /\ name \in ValueFlags /\ i + 1 < Len(xArgs)
             /\ name \in IntFlags => xArgs[i + 2] \in Numbers
     THEN /\ flags' = Set(name, xArgs[i + 2])
          /\ i' = i + 2
          /\ UNCHANGED <<pc, exitCode>>
     ELSE Exit(2) /\ UNCHANGED <<flags, i>>
  /\ UNCHANGED <<argv, xArgs, extraArgs, file, props, seen, mode, usage,
                 answer>>

ParseDone == /\ pc = "parse"
             /\ ~MoreFlags
             /\ pc' = "apply"
             /\ UNCHANGED <<argv, i, xArgs, extraArgs, flags, file, props,
                            seen, mode, usage, answer, exitCode>>

-----------------------------------------------------------------------------
(***************************************************************************)
(* From the flags to Cfg.                                                  *)
(***************************************************************************)
Value(name) == IF Has(name) THEN flags[name] ELSE ""

SelectedMode ==  \* the last test that holds wins
  IF HasModeFlag("-M") \/ Value("-M") \notin {"", "0"} THEN "M"
  ELSE IF HasModeFlag("-Q") THEN "Q"
  ELSE IF HasModeFlag("-L") THEN "L"
  ELSE IF Value("-G") # "" THEN "G"
  ELSE IF HasModeFlag("-C") THEN "C"
  ELSE "none"

(***************************************************************************)
(* -b is the broker; -F names a file to read; PackCheck, called while the  *)
(* flags are still being copied, panics.                                   *)
(***************************************************************************)
BrokersFlag == Value("-b") # ""

NamesFile == Value("-F") \notin {"", "-", "none"}

Packs == {"avro", "hs"}  \* arguments of -s that main accepts

BadSerdes == Value("-s") # "" /\ Value("-s") \notin Packs

Apply ==
  /\ pc = "apply"
  /\ i' = 0
  /\ mode' = SelectedMode
  /\ seen' = BrokersFlag
  /\ props' = IF BrokersFlag THEN {"brokers"} ELSE {}
  /\ IF BadSerdes THEN Exit(2)
     ELSE pc' = (IF NamesFile THEN "file" ELSE "checks") /\ UNCHANGED exitCode
  /\ UNCHANGED <<argv, xArgs, extraArgs, flags, file, usage, answer>>

(***************************************************************************)
(* ReadConfFile: a line at a time, each applied before the next is read;   *)
(* a bad one leaves those before it applied.                               *)
(***************************************************************************)
OpenFails == /\ pc = "file" /\ file = Unreadable
             /\ PrintUsage(1)
             /\ UNCHANGED <<argv, i, xArgs, extraArgs, flags, file, props,
                            seen, mode, answer>>

SkipBadLine ==  \* mutant: a bad line is only reported
  /\ pc = "file" /\ file # Unreadable /\ i < Len(file)
  /\ file[i + 1] \in BadKinds
  /\ i' = i + 1
  /\ UNCHANGED <<argv, pc, xArgs, extraArgs, flags, file, props, seen, mode,
                 usage, answer, exitCode>>

ReadBadLine == /\ pc = "file" /\ file # Unreadable /\ i < Len(file)
               /\ file[i + 1] \in BadKinds
               /\ PrintUsage(1)
               /\ UNCHANGED <<argv, i, xArgs, extraArgs, flags, file, props,
                              seen, mode, answer>>

ReadLine == /\ pc = "file" /\ file # Unreadable /\ i < Len(file)
            /\ file[i + 1] \in Settings
            /\ i' = i + 1
            /\ props' = props \cup ({file[i + 1]} \ {"blank"})
            /\ seen' = (seen \/ file[i + 1] = "brokers")
            /\ UNCHANGED <<argv, pc, xArgs, extraArgs, flags, file, mode,
                           usage, answer, exitCode>>

(***************************************************************************)
(* Scan is over: at the end of the file, or with an error of the Scanner.  *)
(***************************************************************************)
FileDone == /\ pc = "file" /\ file # Unreadable
            /\ \/ i = Len(file) /\ pc' = "checks" /\ UNCHANGED <<usage, exitCode>>
               \/ i < Len(file) /\ file[i + 1] = "broken" /\ PrintUsage(1)
            /\ UNCHANGED <<argv, i, xArgs, extraArgs, flags, file, props, seen,
                           mode, answer>>

-----------------------------------------------------------------------------
(***************************************************************************)
(* runTests, the tests of -U: Strnstr over strings, here numbers for their *)
(* bytes.  Those of ParseDelim, left out, all succeed.                     *)
(***************************************************************************)
Pre == <<1, 2, 3>>
Sep == <<4, 5, 6>>
Semicolon == <<7>>
Post == <<1, 8, 9, 10>>
KeyDel == <<11, 5, 12, 13, 5, 14>>
Key1 == <<11, 5, 12, 15>>
Value1 == <<16, 17, 14, 18, 5, 15>>

StrnstrTests ==
  { <<Sep \o Semicolon, Sep \o Semicolon \o Post, 0>>,
    <<Sep \o Semicolon, Sep \o Semicolon, 0>>,
    <<Sep \o Semicolon, Pre \o Sep \o Semicolon \o Post, 3>>,
    <<Sep \o Semicolon, Pre \o Sep \o Post, NotFound>>,
    <<KeyDel \o Semicolon, Key1 \o KeyDel \o Semicolon \o Value1, 4>>,
    <<Semicolon, Pre \o Pre \o Semicolon, 6>> }

Failed == {t \in StrnstrTests : Strnstr(t[2], t[1]) # t[3]}

RunTestsLenient == Cardinality(Failed) > 1  \* mutant: fails > 1

RunTests == Cardinality(Failed) > 0

(***************************************************************************)
(* The exits before a mode is run, in their order.                         *)
(***************************************************************************)
NoBrokers == ~seen /\ mode # "M"

AutoMode == IF mode # "none" THEN mode
            ELSE IF extraArgs # <<>> THEN "P" ELSE "C"

Checks ==
  /\ pc = "checks"
  /\ IF Has("-U")
     THEN Exit(IF RunTests THEN 1 ELSE 0) /\ UNCHANGED <<mode, usage>>
     ELSE IF Has("-V")
     THEN Exit(0) /\ UNCHANGED <<mode, usage>>
     ELSE IF Has("-h")
     THEN PrintUsage(0) /\ UNCHANGED mode
     ELSE IF NoBrokers \/ (mode = "Q" /\ Value("-t") = "")
     THEN PrintUsage(1) /\ UNCHANGED mode
     ELSE /\ mode' = AutoMode /\ pc' = "dispatch"
          /\ UNCHANGED <<usage, exitCode>>
  /\ UNCHANGED <<argv, i, xArgs, extraArgs, flags, file, props, seen, answer>>

(***************************************************************************)
(* The start of the mode's function.  NewProducer, NewConsumer and         *)
(* NewConsumerGroup want Cfg.Brokers, which only -b sets.                  *)
(***************************************************************************)
ClientFails == ~BrokersFlag

Toppars == {"t:0:5"}  \* arguments that ParseToppar accepts

StartFails ==
  CASE mode = "C" -> ClientFails \/ Value("-t") = ""
    [] mode = "G" -> extraArgs = <<>> \/ ClientFails \/ Value("-o") = "e@5"
    [] mode \in {"L", "P"} -> ClientFails
    [] mode = "Q" -> extraArgs = <<>> \/ ClientFails
                       \/ ~(Range(extraArgs) \subseteq Toppars)

(***************************************************************************)
(* MustParse panics.  Consumer mode parses the argument of -f, or without  *)
(* one a format made of the key delimiter; group mode only the latter.     *)
(***************************************************************************)
BadFormats == {"%y"}

StartPanics ==
  \/ mode = "C" /\ Value("-f") \in BadFormats
  \/ /\ mode = "G" \/ (mode = "C" /\ Value("-f") = "")
     /\ ~Has("-J") /\ Value("-K") \in BadFormats

Dispatch == /\ pc = "dispatch"
            /\ IF mode = "M" THEN Exit(0)  \* RunMock returns at once
               ELSE IF StartFails THEN Exit(1)
               ELSE IF StartPanics THEN Exit(2)
               ELSE pc' = "running" /\ UNCHANGED exitCode
            /\ UNCHANGED <<argv, i, xArgs, extraArgs, flags, file, props, seen,
                           mode, usage, answer>>

-----------------------------------------------------------------------------
(***************************************************************************)
(* RunMetadata and RunQuery, to the end of main: one request, which fails  *)
(* at the latest when the metadata timeout is over.  The listing as JSON   *)
(* takes the first of the brokers without asking whether there is one.     *)
(***************************************************************************)
RunMetadata ==
  /\ pc = "running" /\ mode = "L"
  /\ answer' \in {"failed", "brokers", "no brokers"}
  /\ Exit(IF answer' = "failed" THEN 1
          ELSE IF answer' = "no brokers" /\ Has("-J") THEN 2 ELSE 0)
  /\ UNCHANGED <<argv, i, xArgs, extraArgs, flags, file, props, seen, mode,
                 usage>>

RunQuery ==
  /\ pc = "running" /\ mode = "Q"
  /\ answer' \in {"failed", "offsets"}
  /\ Exit(IF answer' = "failed" THEN 1 ELSE 0)
  /\ UNCHANGED <<argv, i, xArgs, extraArgs, flags, file, props, seen, mode,
                 usage>>

-----------------------------------------------------------------------------
Next == \/ ScanArg \/ ScanDone \/ ParseFlag \/ ParseDone \/ Apply
        \/ OpenFails \/ ReadBadLine \/ ReadLine \/ FileDone
        \/ Checks \/ Dispatch \/ RunMetadata \/ RunQuery

Spec == Init /\ [][Next]_vars

-----------------------------------------------------------------------------
(***************************************************************************)
(* An option counts only if a -X brings it (main.go 62-82), as the next    *)
(* argument or in the same: without a word that begins with -X the command *)
(* line ends in the usage text and status 1, whatever else is on it, but   *)
(* for a mock cluster.                                                     *)
(***************************************************************************)
OptionsNeedX ==
  Range(argv) \cap DOMAIN XArg = {} =>
    /\ flags = <<>> /\ pc # "running"
    /\ pc = "exited" => \/ usage /\ exitCode = 1
                        \/ mode = "M" /\ exitCode = 0

(***************************************************************************)
(* No mode runs on half a configuration: one that talks to a broker has    *)
(* got its address, and every line of the file named by -F was good and    *)
(* has been applied (file.go 13-71, client.go 24-27).                      *)
(***************************************************************************)
RunsConfigured ==
  pc = "running" =>
    /\ BrokersFlag /\ seen
    /\ NamesFile => file # Unreadable /\ Range(file) \ {"blank"} \subseteq props
    /\ mode \in {"G", "Q"} => extraArgs # <<>>
    /\ ~BadSerdes

(***************************************************************************)
(* What the status of a process that has exited means.                     *)
(*                                                                         *)
(* 0, without a mode having run: the help, the version or a mock cluster   *)
(* was asked for, or the broker's answer was printed (main.go 242-299,     *)
(* metadata.go 31-41); in particular -U never succeeds.                    *)
(*                                                                         *)
(* 2: an argument of -X that is no flag or lacks its value, or a panic,    *)
(* of which there are three: over the argument of -s, over a format, which *)
(* may be made of the key delimiter (consumer.go 23-28), and over a list   *)
(* of brokers that is empty (metadata.go 130).                             *)
(***************************************************************************)
Answered == \/ answer = "offsets" \/ answer = "brokers"
            \/ answer = "no brokers" /\ ~Has("-J")

ZeroMeans == /\ Has("-h") \/ Has("-V") \/ mode = "M" \/ Answered
             /\ ~Has("-U")

TwoMeans == \/ MoreFlags \/ BadSerdes \/ StartPanics
            \/ answer = "no brokers" /\ Has("-J")

ExitCodeMeans == pc = "exited" => /\ exitCode = 0 => ZeroMeans
                                  /\ exitCode = 2 => TwoMeans

(***************************************************************************)
(* What README.md:20 and 23 give as usage, consumer mode and producer      *)
(* mode: "./kcat -b mybroker -t mytopic".  REFUTED: its options are not    *)
(* parsed, and the missing broker leads to the usage text and status 1.    *)
(***************************************************************************)
DocumentedUsageRuns ==
  argv = <<"-b", "mybroker", "-t", "mytopic">> => ~(pc = "exited" /\ usage)

=============================================================================
