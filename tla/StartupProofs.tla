--------------------------- MODULE StartupProofs ----------------------------
(***************************************************************************)
(* Proofs about module Startup, for every set of command lines, of any     *)
(* length, and every contents of the configuration file.                   *)
(***************************************************************************)
EXTENDS Startup, FiniteSetTheorems, SequenceTheorems, TLAPS

(***************************************************************************)
(* The scan has kept at most one argument for each it has dealt with; the  *)
(* flags are parsed from those of -X, and the file is read line by line.   *)
(***************************************************************************)
Counted == /\ pc = "scan" => /\ i <= Len(argv)
                             /\ Len(xArgs) + Len(extraArgs) <= i
           /\ pc = "parse" => i <= Len(xArgs)

(***************************************************************************)
(* Without a -X, with or without something attached, there are no flags,   *)
(* so no broker, no file and no mode but the mock cluster's.               *)
(***************************************************************************)
NoX == Range(argv) \cap DOMAIN XArg = {}

Bare == NoX => /\ xArgs = <<>> /\ flags = <<>> /\ ~seen
               /\ pc \notin {"file", "running"}
               /\ pc = "dispatch" => mode = "M"
               /\ pc = "exited" => \/ usage /\ exitCode = 1
                                   \/ mode = "M" /\ exitCode = 0

(***************************************************************************)
(* What holds from Apply on of a start that has not failed: -s was good, a *)
(* -b was seen, and of the file named by -F the first i lines, or, after   *)
(* it, all lines were good and are applied.                                *)
(***************************************************************************)
Lines(n) == {file[k] : k \in 1..n} \ {"blank"}

Configured ==
  /\ pc \in {"file", "checks", "dispatch", "running"} =>
       ~BadSerdes /\ (BrokersFlag => seen)
  /\ pc = "file" => /\ NamesFile
                    /\ file = Unreadable => i = 0
                    /\ file # Unreadable => i <= Len(file) /\ Lines(i) \subseteq props
  /\ pc \in {"checks", "dispatch", "running"} /\ NamesFile =>
       file # Unreadable /\ Lines(Len(file)) \subseteq props

(***************************************************************************)
(* A mode that is dispatched was selected, and a mode that runs can.       *)
(***************************************************************************)
Dispatched == /\ pc \in {"dispatch", "running"} => mode # "none" /\ ~Has("-U")
              /\ pc = "running" => /\ mode # "M" /\ BrokersFlag
                                   /\ mode \in {"G", "Q"} => extraArgs # <<>>

IInv == /\ TypeOK /\ Counted /\ Bare /\ Configured /\ Dispatched
        /\ ExitCodeMeans

-----------------------------------------------------------------------------
(***************************************************************************)
(* The tests of -U fail: a delimiter that is the whole string is not found *)
(* in it (module Search), and one of the tests wants it to be.             *)
(***************************************************************************)
LEMMA UnitTestsFail == RunTests
<1> DEFINE s == Sep \o Semicolon
<1>1. s \in Seq(Nat) /\ Len(s) = 4 /\ s # <<>>
  BY DEF Sep, Semicolon
<1> HIDE DEF s
<1>2. Strnstr(s, s) = NotFound
  <2>1. Matches(s, s, -3) = {}
    BY DEF Matches
  <2>2. Len(s) - Len(s) - (Len(s) - 1) = -3
    BY <1>1
  <2> QED
    BY <1>1, <2>1, <2>2 DEF Strnstr, FirstMatch
<1> DEFINE t == <<s, s, 0>>
<1>3. t \in StrnstrTests
  BY DEF StrnstrTests, s
<1>4. Strnstr(t[2], t[1]) # t[3]
  BY <1>2 DEF NotFound
<1> HIDE DEF t
<1>5. t \in Failed
  BY <1>3, <1>4 DEF Failed
<1>6. IsFiniteSet(StrnstrTests)
  <2>1. \A a, b, c, d, e, f : IsFiniteSet({a, b, c, d, e, f})
    <3> TAKE a, b, c, d, e, f
    <3>1. IsFiniteSet({a} \cup {b})
      BY FS_Singleton, FS_AddElement
    <3>2. IsFiniteSet(({a} \cup {b}) \cup {c})
      BY <3>1, FS_AddElement
    <3>3. IsFiniteSet((({a} \cup {b}) \cup {c}) \cup {d})
      BY <3>2, FS_AddElement
    <3>4. IsFiniteSet(((({a} \cup {b}) \cup {c}) \cup {d}) \cup {e})
      BY <3>3, FS_AddElement
    <3>5. IsFiniteSet((((({a} \cup {b}) \cup {c}) \cup {d}) \cup {e}) \cup {f})
      BY <3>4, FS_AddElement
    <3>6. (((({a} \cup {b}) \cup {c}) \cup {d}) \cup {e}) \cup {f} = {a, b, c, d, e, f}
      OBVIOUS
    <3> QED
      BY <3>5, <3>6
  <2> QED
    BY <2>1, Zenon DEF StrnstrTests
<1>7. IsFiniteSet(Failed) /\ Cardinality(Failed) # 0
  BY <1>5, <1>6, FS_Subset, FS_EmptySet DEF Failed
<1> QED
  BY <1>7, FS_CardinalityType DEF RunTests

-----------------------------------------------------------------------------
(***************************************************************************)
(* The invariant holds at the start, and every step keeps the types.       *)
(***************************************************************************)
LEMMA InitInvariant == Init => IInv
<1> SUFFICES ASSUME Init PROVE IInv
  OBVIOUS
<1> USE DEF Init
<1>1. argv \in Seq(Words) /\ Len(argv) \in Nat
  BY StartupAssumption, LenProperties
<1>2. xArgs \in Seq(Words) /\ Len(xArgs) = 0 /\ extraArgs \in Seq(Words) /\ Len(extraArgs) = 0
  OBVIOUS
<1>3. DOMAIN flags = {}
  OBVIOUS
<1>6. Len(xArgs) + Len(extraArgs) <= Len(argv) /\ 0 <= Len(argv)
  BY <1>1, <1>2
<1>4. TypeOK
  <2>1. /\ DOMAIN flags \subseteq BoolFlags \cup ValueFlags
        /\ props \subseteq Settings
    BY <1>3
  <2>4. pc \in Places /\ mode \in Modes /\ answer \in Answers
    BY DEF Places, Modes, Answers
  <2>5. seen \in BOOLEAN /\ usage \in BOOLEAN
    BY Zenon
  <2>2. argv \in CmdLines /\ file \in Files /\ i = 0 /\ exitCode = 0
    OBVIOUS
  <2> HIDE DEF Init
  <2>3. i \in Nat /\ i <= Len(argv)
    BY <1>6, <2>2
  <2> QED
    BY <1>2, <1>6, <2>1, <2>2, <2>3, <2>4, <2>5 DEF TypeOK
<1>5. Counted /\ Bare /\ Configured /\ Dispatched /\ ExitCodeMeans
  BY <1>1, <1>2 DEF Counted, Bare, Configured, Dispatched, ExitCodeMeans
<1> QED
  BY <1>4, <1>5 DEF IInv

LEMMA Lengths ==
  ASSUME TypeOK
  PROVE  /\ argv \in Seq(Words) /\ Len(argv) \in Nat
         /\ Len(xArgs) \in Nat /\ Len(extraArgs) \in Nat
         /\ file # Unreadable => file \in Seq(Kinds)
BY StartupAssumption, LenProperties DEF TypeOK

(***************************************************************************)
(* What a step of the scan adds.                                           *)
(***************************************************************************)
LEMMA ScanAdds ==
  ASSUME TypeOK, Counted, ScanArg
  PROVE  /\ xArgs' \in Seq(Words) /\ extraArgs' \in Seq(Words)
         /\ Len(xArgs') + Len(extraArgs') <= i + 1
         /\ i' \in Nat /\ i + 1 <= i' /\ i' <= Len(argv)
         /\ argv[i + 1] \notin DOMAIN XArg => xArgs' = xArgs
<1>0. /\ i \in Nat /\ i < Len(argv) /\ argv \in Seq(Words) /\ Len(argv) \in Nat
      /\ Len(xArgs) \in Nat /\ Len(extraArgs) \in Nat
      /\ Len(xArgs) + Len(extraArgs) <= i
      /\ xArgs \in Seq(Words) /\ extraArgs \in Seq(Words)
  BY Lengths DEF ScanArg, Counted, TypeOK
<1>1. \A k \in 1..Len(argv) : argv[k] \in Words
  BY <1>0, ElementOfSeq
<1>a. i' \in Nat /\ i + 1 <= i' /\ i' <= Len(argv)
  <2>1. i' = NextArg
    BY DEF ScanArg
  <2>2. i + 2 <= Len(argv) \/ ~Detached
    BY <1>0 DEF Detached, LastArg
  <2> QED
    BY <1>0, <2>1, <2>2 DEF NextArg
<1>2. CASE argv[i + 1] \in DOMAIN XArg
  <2>1. PICK arg \in Words : xArgs' = Append(xArgs, arg)
    <3>1. CASE ~Detached
      BY <1>2, <3>1, StartupAssumption DEF ScanArg
    <3>2. CASE Detached
      <4>1. i + 2 \in 1..Len(argv)
        BY <1>0, <3>2 DEF Detached, LastArg
      <4> QED
        BY <1>1, <1>2, <3>2, <4>1 DEF ScanArg
    <3> QED
      BY <3>1, <3>2
  <2>2. xArgs' \in Seq(Words) /\ Len(xArgs') = Len(xArgs) + 1
    BY <2>1, AppendProperties DEF TypeOK
  <2>3. extraArgs' = extraArgs
    BY <1>2 DEF ScanArg
  <2> QED
    BY <1>0, <1>2, <1>a, <2>2, <2>3
<1>3. CASE argv[i + 1] \notin DOMAIN XArg
  <2>1. xArgs' = xArgs
    BY <1>3 DEF ScanArg
  <2>2. extraArgs' = extraArgs \/ extraArgs' = Append(extraArgs, argv[i + 1])
    BY <1>3 DEF ScanArg
  <2>3. argv[i + 1] \in Words
    BY <1>0, <1>1
  <2>4. extraArgs' \in Seq(Words) /\ Len(extraArgs') \in {Len(extraArgs), Len(extraArgs) + 1}
    <3>1. CASE extraArgs' = extraArgs
      BY <1>0, <3>1
    <3>2. CASE extraArgs' = Append(extraArgs, argv[i + 1])
      BY <1>0, <2>3, <3>2, AppendProperties
    <3> QED
      BY <2>2, <3>1, <3>2
  <2> QED
    BY <1>0, <1>a, <2>1, <2>4
<1> QED
  BY <1>2, <1>3

(***************************************************************************)
(* What a step of the flag package does: it takes a flag, with its value   *)
(* when it has one, or exits with status 2.                                *)
(***************************************************************************)
LEMMA FlagTaken ==
  ASSUME TypeOK, Counted, ParseFlag
  PROVE  \/ /\ DOMAIN flags' \subseteq BoolFlags \cup ValueFlags
            /\ i' \in Nat /\ i' <= Len(xArgs)
            /\ UNCHANGED <<pc, exitCode>>
         \/ Exit(2) /\ UNCHANGED <<flags, i>>
<1>0. i \in Nat /\ i < Len(xArgs) /\ Len(xArgs) \in Nat
  BY Lengths DEF ParseFlag, MoreFlags, TypeOK
<1> DEFINE name == xArgs[i + 1]
<1> HIDE DEF name
<1>1. \A v : DOMAIN Set(name, v) = {name} \cup DOMAIN flags
  BY DEF Set
<1>2. CASE name \in BoolFlags
  <2>1. flags' = Set(name, TRUE) /\ i' = i + 1 /\ UNCHANGED <<pc, exitCode>>
    BY <1>2 DEF ParseFlag, name
  <2>2. DOMAIN flags' \subseteq BoolFlags \cup ValueFlags
    BY <1>1, <1>2, <2>1 DEF TypeOK
  <2>3. i' \in Nat /\ i' <= Len(xArgs)
    BY <1>0, <2>1
  <2> QED
    BY <2>1, <2>2, <2>3
<1>3. CASE name \notin BoolFlags /\ name \in ValueFlags /\ i + 1 < Len(xArgs)
           /\ (name \in IntFlags => xArgs[i + 2] \in Numbers)
  <2>1. flags' = Set(name, xArgs[i + 2]) /\ i' = i + 2 /\ UNCHANGED <<pc, exitCode>>
    BY <1>3 DEF ParseFlag, name
  <2>2. DOMAIN flags' \subseteq BoolFlags \cup ValueFlags
    BY <1>1, <1>3, <2>1 DEF TypeOK
  <2>3. i' \in Nat /\ i' <= Len(xArgs)
    BY <1>0, <1>3, <2>1
  <2> QED
    BY <2>1, <2>2, <2>3
<1> QED
  BY <1>2, <1>3 DEF ParseFlag, name

LEMMA TypeStep == IInv /\ [Next]_vars => TypeOK'
<1> SUFFICES ASSUME IInv, [Next]_vars PROVE TypeOK'
  OBVIOUS
<1>0. TypeOK /\ Counted
  BY DEF IInv
<1>a. \A status \in 0..2 : Exit(status) => pc' \in Places /\ pc' = "exited" /\ exitCode' \in 0..2
  BY DEF Exit, Places
<1> USE DEF TypeOK
<1>1. CASE ScanArg
  <2>1. /\ UNCHANGED <<argv, pc, flags, file, props, seen, mode, usage, answer, exitCode>>
        /\ pc = "scan"
    BY <1>1 DEF ScanArg
  <2>2. /\ i' \in Nat /\ i' <= Len(argv) /\ Len(xArgs') + Len(extraArgs') <= Len(argv)
        /\ xArgs' \in Seq(Words) /\ extraArgs' \in Seq(Words)
    <3>1. /\ i' \in Nat /\ i + 1 <= i' /\ i' <= Len(argv) /\ xArgs' \in Seq(Words)
          /\ extraArgs' \in Seq(Words) /\ Len(xArgs') + Len(extraArgs') <= i + 1
      BY <1>0, <1>1, ScanAdds
    <3>2. Len(xArgs') \in Nat /\ Len(extraArgs') \in Nat /\ Len(argv) \in Nat /\ i \in Nat
      BY <1>0, <3>1, Lengths, LenProperties
    <3> QED
      BY <3>1, <3>2
  <2> QED
    BY <1>0, <2>1, <2>2
<1>2. CASE ScanDone
  <2>1. 0 <= Len(argv) /\ i' = 0 /\ pc' \in Places
    BY <1>0, <1>2, Lengths DEF ScanDone, Places
  <2> QED
    BY <1>0, <1>2, <2>1 DEF ScanDone
<1>3. CASE ParseFlag
  <2>1. /\ UNCHANGED <<argv, xArgs, extraArgs, file, props, seen, mode, usage, answer>>
        /\ pc = "parse"
    BY <1>3 DEF ParseFlag
  <2>2. CASE Exit(2) /\ UNCHANGED <<flags, i>>
    BY <1>0, <1>a, <2>1, <2>2
  <2>3. CASE /\ DOMAIN flags' \subseteq BoolFlags \cup ValueFlags
             /\ i' \in Nat /\ i' <= Len(xArgs)
             /\ UNCHANGED <<pc, exitCode>>
    <3>1. i' <= Len(argv)
      BY <1>0, <2>3, Lengths
    <3> QED
      BY <1>0, <2>1, <2>3, <3>1
  <2> QED
    BY <1>0, <1>3, <2>2, <2>3, FlagTaken
<1>4. CASE ParseDone
  BY <1>0, <1>4 DEF ParseDone, Places
<1>5. CASE Apply
  <2>1. /\ UNCHANGED <<argv, xArgs, extraArgs, flags, file, usage, answer>>
        /\ i' = 0 /\ mode' = SelectedMode /\ seen' = BrokersFlag
        /\ props' = IF BrokersFlag THEN {"brokers"} ELSE {}
    BY <1>5 DEF Apply
  <2>2. mode' \in Modes
    BY <2>1 DEF SelectedMode, Modes
  <2>3. seen' \in BOOLEAN
    BY <2>1, Zenon DEF BrokersFlag
  <2>4. props' \subseteq Settings
    BY <2>1 DEF Settings
  <2>5. pc' \in {"checks", "file", "exited"} /\ exitCode' \in 0..2
    <3>1. CASE BadSerdes
      <4>1. pc' = "exited" /\ exitCode' = 2
        BY <1>5, <3>1 DEF Apply, Exit
      <4> QED
        BY <4>1
    <3>2. CASE ~BadSerdes
      BY <1>0, <1>5, <3>2 DEF Apply
    <3> QED
      BY <3>1, <3>2
  <2> QED
    BY <1>0, <2>1, <2>2, <2>3, <2>4, <2>5 DEF Places
<1>6. CASE OpenFails \/ ReadBadLine
  <2>1. /\ UNCHANGED <<argv, i, xArgs, extraArgs, flags, file, props, seen, mode, answer>>
        /\ usage' = TRUE /\ pc' = "exited" /\ exitCode' = 1
    BY <1>6 DEF OpenFails, ReadBadLine, PrintUsage, Exit
  <2> QED
    BY <1>0, <2>1 DEF Places
<1>7. CASE ReadLine
  <2>1. /\ UNCHANGED <<argv, pc, xArgs, extraArgs, flags, file, mode, usage, answer, exitCode>>
        /\ pc = "file" /\ i' = i + 1
        /\ props' = props \cup ({file[i + 1]} \ {"blank"})
        /\ seen' = (seen \/ file[i + 1] = "brokers")
    BY <1>7 DEF ReadLine
  <2>2. file[i + 1] \in Settings
    BY <1>7 DEF ReadLine
  <2>3. seen' \in BOOLEAN
    BY <1>0, <2>1, Zenon
  <2> QED
    BY <1>0, <2>1, <2>2, <2>3
<1>8. CASE FileDone
  <2>1. /\ UNCHANGED <<argv, i, xArgs, extraArgs, flags, file, props, seen, mode, answer>>
        /\ \/ pc' = "checks" /\ UNCHANGED <<usage, exitCode>>
           \/ usage' = TRUE /\ pc' = "exited" /\ exitCode' = 1
    BY <1>8 DEF FileDone, PrintUsage, Exit
  <2>2. usage' \in BOOLEAN
    BY <1>0, <2>1, Zenon
  <2>3. pc' \in {"checks", "exited"} /\ exitCode' \in 0..2
    BY <1>0, <2>1
  <2> QED
    BY <1>0, <2>1, <2>2, <2>3 DEF Places
<1>9. CASE Checks
  <2>1. UNCHANGED <<argv, i, xArgs, extraArgs, flags, file, props, seen, answer>>
    BY <1>9 DEF Checks
  <2>2. usage' \in BOOLEAN
    BY <1>0, <1>9, Zenon DEF Checks, PrintUsage
  <2>3. mode' \in Modes
    BY <1>0, <1>9 DEF Checks, AutoMode, Modes
  <2>4. pc' \in {"dispatch", "exited"} /\ exitCode' \in 0..2
    <3>1. \/ pc' = "exited" /\ exitCode' \in {0, 1}
          \/ pc' = "dispatch" /\ exitCode' = exitCode
      BY <1>9, Zenon DEF Checks, PrintUsage, Exit
    <3> QED
      BY <1>0, <3>1
  <2> QED
    BY <1>0, <2>1, <2>2, <2>3, <2>4 DEF Places
<1>10. CASE Dispatch
  <2>1. pc' \in {"running", "exited"} /\ exitCode' \in 0..2
    BY <1>0, <1>10 DEF Dispatch, Exit
  <2> QED
    BY <1>0, <1>10, <2>1 DEF Dispatch, Places
<1>11. CASE RunMetadata \/ RunQuery
  <2>1. pc' = "exited" /\ exitCode' \in {0, 1, 2}
    BY <1>11, Zenon DEF RunMetadata, RunQuery, Exit
  <2>2. answer' \in {"failed", "brokers", "no brokers", "offsets"}
    BY <1>11 DEF RunMetadata, RunQuery
  <2>3. UNCHANGED <<argv, i, xArgs, extraArgs, flags, file, props, seen, mode, usage>>
    BY <1>11 DEF RunMetadata, RunQuery
  <2>4. exitCode' \in 0..2
    BY <2>1
  <2> QED
    BY <1>0, <2>1, <2>2, <2>3, <2>4 DEF Places, Answers
<1>12. CASE UNCHANGED vars
  BY <1>0, <1>12 DEF vars
<1> QED
  BY <1>1, <1>2, <1>3, <1>4, <1>5, <1>6, <1>7, <1>8, <1>9, <1>10, <1>11, <1>12 DEF Next

LEMMA CountedStep == IInv /\ [Next]_vars => Counted'
<1> SUFFICES ASSUME IInv, [Next]_vars PROVE Counted'
  OBVIOUS
<1>0. TypeOK /\ Counted /\ 0 <= Len(xArgs)
  BY Lengths DEF IInv
<1> USE DEF Counted
<1>1. CASE ScanArg
  <2>1. /\ i' \in Nat /\ i + 1 <= i' /\ i' <= Len(argv) /\ xArgs' \in Seq(Words)
        /\ extraArgs' \in Seq(Words) /\ Len(xArgs') + Len(extraArgs') <= i + 1
    BY <1>0, <1>1, ScanAdds
  <2>2. Len(xArgs') \in Nat /\ Len(extraArgs') \in Nat /\ i \in Nat
    BY <1>0, <2>1, LenProperties DEF TypeOK
  <2>3. Len(xArgs') + Len(extraArgs') <= i'
    BY <2>1, <2>2
  <2> QED
    BY <1>1, <2>1, <2>3 DEF ScanArg
<1>2. CASE ScanDone
  BY <1>0, <1>2 DEF ScanDone
<1>3. CASE ParseFlag
  <2>1. pc = "parse" /\ xArgs' = xArgs
    BY <1>3 DEF ParseFlag
  <2> QED
    BY <1>0, <1>3, <2>1, FlagTaken DEF Exit
<1>4. CASE pc' \notin {"scan", "parse"}
  BY <1>4
<1>5. CASE UNCHANGED vars
  BY <1>0, <1>5 DEF vars
<1>6. ASSUME Next, ~ScanArg, ~ScanDone, ~ParseFlag PROVE pc' \notin {"scan", "parse"}
  BY <1>6 DEF Next, ParseDone, Apply, OpenFails, ReadBadLine, ReadLine, FileDone,
     Checks, Dispatch, RunMetadata, RunQuery, PrintUsage, Exit
<1> QED
  BY <1>1, <1>2, <1>3, <1>4, <1>5, <1>6

-----------------------------------------------------------------------------
(***************************************************************************)
(* Without a -X no step makes a flag, so the start leads to the usage text *)
(* or to the mock cluster.                                                 *)
(***************************************************************************)
LEMMA NoXInArgv ==
  ASSUME TypeOK, NoX, NEW k \in 1..Len(argv) PROVE argv[k] \notin DOMAIN XArg
<1>1. k \in DOMAIN argv
  BY Lengths, LenProperties
<1> QED
  BY <1>1, Zenon DEF NoX, Range

LEMMA NoFlags ==
  ASSUME flags = <<>>
  PROVE  \A name : ~Has(name) /\ Value(name) = ""
BY DEF Has, Value

LEMMA BareStep == IInv /\ [Next]_vars => Bare'
<1> SUFFICES ASSUME IInv, [Next]_vars, NoX' PROVE Bare'
  BY DEF Bare
<1>0. TypeOK /\ Counted /\ argv' = argv
  BY DEF IInv, Next, ScanArg, ScanDone, ParseFlag, ParseDone, Apply, OpenFails,
     ReadBadLine, ReadLine, FileDone, Checks, Dispatch, RunMetadata, RunQuery, vars
<1>a. /\ NoX /\ xArgs = <<>> /\ flags = <<>> /\ ~seen
      /\ pc \notin {"file", "running"}
      /\ pc = "dispatch" => mode = "M"
      /\ pc = "exited" => \/ usage /\ exitCode = 1
                          \/ mode = "M" /\ exitCode = 0
  BY <1>0 DEF IInv, Bare, NoX
<1>b. \A name : ~Has(name) /\ Value(name) = ""
  BY <1>a, NoFlags
<1> USE DEF Bare
<1>1. CASE ScanArg
  <2>1. i + 1 \in 1..Len(argv)
    <3>1. i \in Nat /\ Len(argv) \in Nat /\ i < Len(argv)
      BY <1>0, <1>1, Lengths DEF ScanArg, TypeOK
    <3> QED
      BY <3>1
  <2>2. argv[i + 1] \notin DOMAIN XArg
    BY <1>0, <1>a, <2>1, NoXInArgv
  <2>3. xArgs' = xArgs
    BY <1>0, <1>1, <2>2, ScanAdds
  <2> QED
    BY <1>a, <1>1, <2>3 DEF ScanArg
<1>2. CASE ScanDone
  BY <1>a, <1>2 DEF ScanDone
<1>3. ~ParseFlag
  <2>1. Len(xArgs) = 0 /\ i \in Nat
    BY <1>0, <1>a DEF TypeOK
  <2>2. ~MoreFlags
    BY <2>1 DEF MoreFlags
  <2> QED
    BY <2>2 DEF ParseFlag
<1>4. CASE ParseDone
  BY <1>a, <1>4 DEF ParseDone
<1>5. CASE Apply
  <2>1. ~BadSerdes /\ ~NamesFile /\ ~BrokersFlag
    BY <1>b DEF BadSerdes, NamesFile, BrokersFlag
  <2>2. pc' = "checks" /\ UNCHANGED <<xArgs, flags>>
    BY <1>5, <2>1 DEF Apply
  <2>3. ~seen'
    BY <1>5, <2>1, Zenon DEF Apply
  <2> QED
    BY <1>a, <2>2, <2>3
<1>6. CASE Checks
  <2>1. ~Has("-U") /\ ~Has("-V") /\ ~Has("-h")
    BY <1>b
  <2>2. UNCHANGED <<xArgs, flags, seen>>
    BY <1>6 DEF Checks
  <2>3. CASE mode = "M"
    <3>1. \/ pc' = "exited" /\ usage' /\ exitCode' = 1
          \/ pc' = "dispatch" /\ mode' = "M"
      BY <1>6, <2>1, <2>3, Zenon DEF Checks, PrintUsage, Exit, AutoMode, NoBrokers
    <3> QED
      BY <1>a, <2>2, <3>1
  <2>4. CASE mode # "M"
    <3>1. pc' = "exited" /\ usage' /\ exitCode' = 1
      BY <1>a, <1>6, <2>1, <2>4, Zenon DEF Checks, PrintUsage, Exit, NoBrokers
    <3> QED
      BY <1>a, <2>2, <3>1
  <2> QED
    BY <2>3, <2>4
<1>7. CASE Dispatch
  BY <1>a, <1>7 DEF Dispatch, Exit
<1>8. CASE UNCHANGED vars
  BY <1>a, <1>8 DEF vars
<1> QED
  BY <1>a, <1>1, <1>2, <1>3, <1>4, <1>5, <1>6, <1>7, <1>8 DEF Next, OpenFails,
     ReadBadLine, ReadLine, FileDone, RunMetadata, RunQuery

-----------------------------------------------------------------------------
(***************************************************************************)
(* Every step keeps what the start has found out of its configuration.     *)
(***************************************************************************)
LEMMA SameConfiguration ==
  ASSUME Configured, UNCHANGED <<flags, file, props, seen>>,
         \/ /\ pc \in {"checks", "dispatch"}
            /\ pc' \in {"dispatch", "running", "exited"}
         \/ pc' = pc /\ i' = i
         \/ pc' \notin {"file", "checks", "dispatch", "running"}
  PROVE  Configured'
BY DEF Configured, NamesFile, BrokersFlag, BadSerdes, Lines, Value, Has

LEMMA ConfiguredStep == IInv /\ [Next]_vars => Configured'
<1> SUFFICES ASSUME IInv, [Next]_vars PROVE Configured'
  OBVIOUS
<1>0. TypeOK /\ Configured
  BY DEF IInv
<1> DEFINE Same == UNCHANGED <<flags, file, props, seen>>
<1>1. CASE ScanArg \/ ScanDone \/ ParseFlag \/ ParseDone
  BY <1>1 DEF Configured, ScanArg, ScanDone, ParseFlag, ParseDone, Exit
<1>2. CASE Apply
  <2>1. /\ i' = 0 /\ flags' = flags /\ file' = file /\ \A name : Value(name)' = Value(name)
        /\ seen' = BrokersFlag
    BY <1>2 DEF Apply, Value, Has
  <2>2. CASE BadSerdes
    BY <1>2, <2>2 DEF Apply, Exit, Configured
  <2>3. CASE ~BadSerdes
    <3>1. /\ pc' = "file" => NamesFile
          /\ pc' = "checks" => ~NamesFile
          /\ pc' \in {"file", "checks"}
      BY <1>2, <2>3 DEF Apply
    <3>2. NamesFile' = NamesFile /\ ~BadSerdes'
      BY <2>1, <2>3 DEF NamesFile, BadSerdes
    <3>3. BrokersFlag' => seen'
      BY <2>1, Zenon DEF BrokersFlag
    <3>4. file' # Unreadable => i' <= Len(file') /\ Lines(i)' \subseteq props'
      <4>1. file # Unreadable => 0 <= Len(file)
        BY <1>0, Lengths, LenProperties
      <4>2. Lines(i)' = {}
        <5>1. 1..0 = {}
          OBVIOUS
        <5>2. i' = 0
          BY <2>1
        <5> QED
          BY <5>1, <5>2 DEF Lines
      <4> QED
        BY <2>1, <4>1, <4>2
    <3> QED
      BY <2>1, <2>3, <3>1, <3>2, <3>3, <3>4 DEF Configured
  <2> QED
    BY <2>2, <2>3
<1>3. CASE OpenFails \/ ReadBadLine
  BY <1>3 DEF Configured, OpenFails, ReadBadLine, PrintUsage, Exit
<1>4. CASE ReadLine
  <2>1. /\ pc = "file" /\ pc' = "file" /\ i' = i + 1 /\ flags' = flags /\ file' = file
        /\ \A name : Value(name)' = Value(name)
        /\ props' = props \cup ({file[i + 1]} \ {"blank"})
        /\ seen' = (seen \/ file[i + 1] = "brokers")
        /\ file # Unreadable /\ i < Len(file)
    BY <1>4 DEF ReadLine, Value, Has
  <2>2. /\ ~BadSerdes /\ NamesFile /\ Lines(i) \subseteq props
        /\ BrokersFlag => seen
    BY <1>0, <2>1 DEF Configured
  <2>3. i \in Nat /\ Len(file) \in Nat
    BY <1>0, <2>1, Lengths, LenProperties DEF TypeOK
  <2>4. NamesFile' /\ ~BadSerdes'
    BY <2>1, <2>2 DEF NamesFile, BadSerdes
  <2>5. BrokersFlag' => seen'
    BY <2>1, <2>2, Zenon DEF BrokersFlag
  <2>6. Lines(i)' \subseteq props'
    <3>1. \A k \in 1..(i + 1) : k \in 1..i \/ k = i + 1
      BY <2>3
    <3> QED
      BY <2>1, <2>2, <3>1 DEF Lines
  <2>7. i + 1 <= Len(file)
    BY <2>1, <2>3
  <2> QED
    BY <2>1, <2>2, <2>4, <2>5, <2>6, <2>7 DEF Configured
<1>5. CASE FileDone
  <2>1. pc = "file" /\ Same /\ i' = i /\ file # Unreadable
    BY <1>5 DEF FileDone
  <2>2. CASE pc' = "exited"
    BY <1>0, <2>1, <2>2, SameConfiguration
  <2>3. CASE i = Len(file) /\ pc' = "checks"
    <3>1. Lines(Len(file)) \subseteq props /\ ~BadSerdes /\ (BrokersFlag => seen)
      BY <1>0, <2>1, <2>3 DEF Configured
    <3>2. \A name : Value(name)' = Value(name)
      BY <2>1 DEF Value, Has
    <3>3. Lines(Len(file))' = Lines(Len(file))
      BY <2>1 DEF Lines
    <3>4. ~BadSerdes' /\ (BrokersFlag' => seen')
      BY <2>1, <3>1, <3>2 DEF BadSerdes, BrokersFlag
    <3> QED
      BY <2>1, <2>3, <3>1, <3>3, <3>4 DEF Configured
  <2> QED
    BY <1>5, <2>2, <2>3 DEF FileDone, PrintUsage, Exit
<1>6. CASE Checks
  <2>1. pc = "checks" /\ pc' \in {"dispatch", "exited"} /\ Same
    BY <1>6 DEF Checks, PrintUsage, Exit
  <2> QED
    BY <1>0, <2>1, SameConfiguration
<1>7. CASE Dispatch
  <2>1. pc = "dispatch" /\ pc' \in {"running", "exited"} /\ Same
    BY <1>7 DEF Dispatch, Exit
  <2> QED
    BY <1>0, <2>1, SameConfiguration
<1>8. CASE RunMetadata \/ RunQuery
  BY <1>8 DEF Configured, RunMetadata, RunQuery, Exit
<1>9. CASE UNCHANGED vars
  BY <1>0, <1>9, SameConfiguration DEF vars
<1> QED
  BY <1>1, <1>2, <1>3, <1>4, <1>5, <1>6, <1>7, <1>8, <1>9 DEF Next

-----------------------------------------------------------------------------
(***************************************************************************)
(* What the checks let through has a mode and no -U, and what the start of *)
(* the mode lets through can run.                                          *)
(***************************************************************************)
LEMMA ChecksPass ==
  ASSUME Checks, pc' = "dispatch"
  PROVE  ~Has("-U") /\ mode' # "none"
BY Zenon DEF Checks, PrintUsage, Exit, AutoMode

LEMMA DispatchPasses ==
  ASSUME TypeOK, Dispatched, Dispatch, pc' = "running"
  PROVE  /\ mode # "none" /\ mode # "M" /\ BrokersFlag /\ ~Has("-U")
         /\ mode \in {"G", "Q"} => extraArgs # <<>>
<1>1. pc = "dispatch" /\ mode # "none" /\ ~Has("-U") /\ mode \in Modes
  BY DEF Dispatch, Dispatched, TypeOK
<1>2. mode # "M" /\ ~StartFails
  BY DEF Dispatch, Exit
<1>3. CASE mode = "C"
  BY <1>1, <1>2, <1>3 DEF StartFails, ClientFails
<1>4. CASE mode = "G"
  BY <1>1, <1>2, <1>4 DEF StartFails, ClientFails
<1>5. CASE mode \in {"L", "P"}
  BY <1>1, <1>2, <1>5 DEF StartFails, ClientFails
<1>6. CASE mode = "Q"
  BY <1>1, <1>2, <1>6 DEF StartFails, ClientFails
<1> QED
  BY <1>1, <1>2, <1>3, <1>4, <1>5, <1>6 DEF Modes

LEMMA DispatchedStep == IInv /\ [Next]_vars => Dispatched'
<1> SUFFICES ASSUME IInv, [Next]_vars PROVE Dispatched'
  OBVIOUS
<1>0. TypeOK /\ Dispatched
  BY DEF IInv
<1>1. CASE Checks
  <2>1. pc' \in {"dispatch", "exited"} /\ flags' = flags
    BY <1>1 DEF Checks, PrintUsage, Exit
  <2>2. pc' = "dispatch" => ~Has("-U") /\ mode' # "none"
    BY <1>1, ChecksPass
  <2> QED
    BY <2>1, <2>2 DEF Dispatched, Has
<1>2. CASE Dispatch
  <2>1. pc' \in {"running", "exited"} /\ UNCHANGED <<flags, mode, extraArgs>>
    BY <1>2 DEF Dispatch, Exit
  <2>2. pc' = "running" =>
          /\ mode # "none" /\ mode # "M" /\ BrokersFlag /\ ~Has("-U")
          /\ mode \in {"G", "Q"} => extraArgs # <<>>
    BY <1>0, <1>2, DispatchPasses
  <2> QED
    BY <2>1, <2>2 DEF Dispatched, Has, Value, BrokersFlag
<1>3. CASE UNCHANGED vars
  BY <1>0, <1>3 DEF vars, Dispatched, Has, Value, BrokersFlag
<1>4. CASE pc' \notin {"dispatch", "running"}
  BY <1>4 DEF Dispatched
<1>5. ASSUME Next, ~Checks, ~Dispatch PROVE pc' \notin {"dispatch", "running"}
  BY <1>5 DEF Next, ScanArg, ScanDone, ParseFlag, ParseDone, Apply, OpenFails, ReadBadLine,
     ReadLine, FileDone, RunMetadata, RunQuery, PrintUsage, Exit
<1> QED
  BY <1>1, <1>2, <1>3, <1>4, <1>5

(***************************************************************************)
(* An exit with status 0 comes from -V, -h, the mock cluster or an answer  *)
(* that was printed; -U exits with 1, since its own tests fail.            *)
(***************************************************************************)
ZeroIsMeant == pc = "exited" /\ exitCode = 0 => ZeroMeans

LEMMA ZeroStep == IInv /\ [Next]_vars => ZeroIsMeant'
<1> SUFFICES ASSUME IInv, [Next]_vars PROVE ZeroIsMeant'
  OBVIOUS
<1>0. TypeOK /\ Counted /\ Dispatched /\ ZeroIsMeant
  BY DEF IInv, ExitCodeMeans, ZeroIsMeant
<1>a. 2 # 0
  OBVIOUS
<1> DEFINE Fine == pc' = "exited" /\ exitCode' = 0
<1>1. CASE Checks
  <2>1. flags' = flags
    BY <1>1 DEF Checks
  <2>2. Fine => ~Has("-U")
    <3> SUFFICES ASSUME Has("-U") PROVE exitCode' = 1
      OBVIOUS
    <3>1. Exit(IF RunTests THEN 1 ELSE 0)
      BY <1>1 DEF Checks
    <3> QED
      BY <3>1, UnitTestsFail DEF Exit
  <2>3. Fine => Has("-V") \/ Has("-h")
    BY <1>1, <2>2 DEF Checks, PrintUsage, Exit
  <2> QED
    BY <2>1, <2>2, <2>3 DEF ZeroIsMeant, ZeroMeans, Has
<1>2. CASE Dispatch
  <2>1. flags' = flags /\ mode' = mode /\ pc = "dispatch"
    BY <1>2 DEF Dispatch
  <2>2. Fine => mode = "M"
    BY <1>2 DEF Dispatch, Exit
  <2> QED
    BY <1>0, <2>1, <2>2 DEF ZeroIsMeant, ZeroMeans, Has, Dispatched
<1>3. CASE RunMetadata \/ RunQuery
  <2>1. flags' = flags /\ pc = "running"
    BY <1>3 DEF RunMetadata, RunQuery
  <2>2. Fine => Answered'
    <3> SUFFICES ASSUME Fine PROVE Answered'
      OBVIOUS
    <3>1. CASE RunMetadata
      <4>1. answer' # "failed" /\ ~(answer' = "no brokers" /\ Has("-J"))
        <5>1. exitCode' = IF answer' = "failed" THEN 1
                          ELSE IF answer' = "no brokers" /\ Has("-J") THEN 2 ELSE 0
          BY <3>1, Zenon DEF RunMetadata, Exit
        <5>2. ~(answer' = "failed")
          <6> SUFFICES ASSUME answer' = "failed" PROVE ~Fine
            OBVIOUS
          <6>1. exitCode' = 1
            BY <5>1
          <6> QED
            BY <6>1
        <5>3. ~(answer' = "no brokers" /\ Has("-J"))
          <6> SUFFICES ASSUME answer' = "no brokers" /\ Has("-J") PROVE ~Fine
            OBVIOUS
          <6>1. exitCode' = 2
            BY <5>1
          <6> QED
            BY <1>a, <6>1, Zenon
        <5> QED
          BY <5>2, <5>3
      <4>2. answer' \in {"brokers", "no brokers"}
        BY <3>1, <4>1 DEF RunMetadata
      <4> QED
        BY <2>1, <4>1, <4>2 DEF Answered, Has
    <3>2. CASE RunQuery
      <4>1. answer' # "failed"
        BY <3>2 DEF RunQuery, Exit
      <4> QED
        BY <3>2, <4>1 DEF RunQuery, Answered
    <3> QED
      BY <1>3, <3>1, <3>2
  <2> QED
    BY <1>0, <2>1, <2>2 DEF ZeroIsMeant, ZeroMeans, Has, Dispatched
<1>4. CASE UNCHANGED vars
  BY <1>0, <1>4 DEF vars, ZeroIsMeant, ZeroMeans, Answered, Has
<1>5. CASE ~Fine
  BY <1>5 DEF ZeroIsMeant
<1>6. ASSUME Next, ~Checks, ~Dispatch, ~RunMetadata, ~RunQuery PROVE ~Fine
  <2>1. CASE ScanArg \/ ScanDone \/ ParseDone \/ ReadLine
    BY <2>1 DEF ScanArg, ScanDone, ParseDone, ReadLine
  <2>2. CASE ParseFlag
    <3>1. pc = "parse"
      BY <2>2 DEF ParseFlag
    <3>2. pc' = pc \/ exitCode' = 2
      BY <1>0, <2>2, FlagTaken DEF Exit
    <3> QED
      BY <3>1, <3>2
  <2>3. CASE Apply
    <3>1. CASE ~BadSerdes
      BY <2>3, <3>1 DEF Apply
    <3>2. CASE BadSerdes
      <4>1. exitCode' = 2
        BY <2>3, <3>2 DEF Apply, Exit
      <4> QED
        BY <4>1
    <3> QED
      BY <3>1, <3>2
  <2>4. CASE OpenFails \/ ReadBadLine \/ FileDone
    BY <2>4 DEF OpenFails, ReadBadLine, FileDone, PrintUsage, Exit
  <2> QED
    BY <1>6, <2>1, <2>2, <2>3, <2>4 DEF Next
<1> QED
  BY <1>1, <1>2, <1>3, <1>4, <1>5, <1>6

(***************************************************************************)
(* An exit with status 2 comes from the flag package or from a panic: over *)
(* the argument of -s, over a format or over an empty list of brokers.     *)
(***************************************************************************)
TwoIsMeant == pc = "exited" /\ exitCode = 2 => TwoMeans

LEMMA FlagRefused ==
  ASSUME ParseFlag, pc' = "exited"
  PROVE  MoreFlags'
<1>1. MoreFlags /\ UNCHANGED <<i, xArgs>>
  BY DEF ParseFlag
<1> QED
  BY <1>1, Zenon DEF MoreFlags

LEMMA TwoStep == IInv /\ [Next]_vars => TwoIsMeant'
<1> SUFFICES ASSUME IInv, [Next]_vars PROVE TwoIsMeant'
  OBVIOUS
<1>0. TwoIsMeant
  BY DEF IInv, ExitCodeMeans, TwoIsMeant
<1> DEFINE Two == pc' = "exited" /\ exitCode' = 2
<1>1. CASE ParseFlag
  <2>1. Two => MoreFlags'
    BY <1>1, FlagRefused
  <2> QED
    BY <2>1 DEF TwoIsMeant, TwoMeans
<1>2. CASE Apply
  <2>1. Two => BadSerdes
    BY <1>2 DEF Apply
  <2>2. BadSerdes' <=> BadSerdes
    BY <1>2 DEF Apply, BadSerdes, Value, Has
  <2> QED
    BY <2>1, <2>2 DEF TwoIsMeant, TwoMeans
<1>3. CASE Dispatch
  <2>1. flags' = flags /\ mode' = mode
    BY <1>3 DEF Dispatch
  <2>2. Two => StartPanics
    <3> SUFFICES ASSUME ~StartPanics, pc' = "exited" PROVE exitCode' \in {0, 1}
      OBVIOUS
    <3>1. \/ exitCode' = 0 \/ exitCode' = 1
          \/ pc' = "running"
      BY <1>3, Zenon DEF Dispatch, Exit
    <3> QED
      BY <3>1
  <2>3. StartPanics' <=> StartPanics
    BY <2>1 DEF StartPanics, Value, Has
  <2> QED
    BY <2>2, <2>3 DEF TwoIsMeant, TwoMeans
<1>4. CASE RunMetadata
  <2>1. exitCode' = IF answer' = "failed" THEN 1
                    ELSE IF answer' = "no brokers" /\ Has("-J") THEN 2 ELSE 0
    BY <1>4, Zenon DEF RunMetadata, Exit
  <2>2. flags' = flags
    BY <1>4 DEF RunMetadata
  <2>3. Two => answer' = "no brokers" /\ Has("-J")
    <3>1. \/ answer' = "no brokers" /\ Has("-J")
          \/ exitCode' = 1 \/ exitCode' = 0
      BY <2>1, Zenon
    <3>2. exitCode' = 1 \/ exitCode' = 0 => ~Two
      OBVIOUS
    <3> QED
      BY <3>1, <3>2, Zenon
  <2> QED
    BY <2>2, <2>3 DEF TwoIsMeant, TwoMeans, Has
<1>5. CASE UNCHANGED vars
  BY <1>0, <1>5 DEF vars, TwoIsMeant, TwoMeans, MoreFlags, BadSerdes, StartPanics, Value, Has
<1>6. CASE ~Two
  BY <1>6 DEF TwoIsMeant
<1>7. ASSUME Next, ~ParseFlag, ~Apply, ~Dispatch, ~RunMetadata PROVE ~Two
  <2>1. CASE ScanArg \/ ScanDone \/ ParseDone \/ ReadLine
    BY <2>1 DEF ScanArg, ScanDone, ParseDone, ReadLine
  <2>2. CASE OpenFails \/ ReadBadLine \/ FileDone
    BY <2>2 DEF OpenFails, ReadBadLine, FileDone, PrintUsage, Exit
  <2>3. CASE Checks
    <3>1. pc' # "exited" \/ exitCode' \in {0, 1}
      BY <2>3, Zenon DEF Checks, PrintUsage, Exit
    <3> QED
      BY <3>1
  <2>4. CASE RunQuery
    <3>1. exitCode' \in {0, 1}
      BY <2>4, Zenon DEF RunQuery, Exit
    <3> QED
      BY <3>1
  <2> QED
    BY <1>7, <2>1, <2>2, <2>3, <2>4 DEF Next
<1> QED
  BY <1>1, <1>2, <1>3, <1>4, <1>5, <1>6, <1>7

LEMMA ExitCodeStep == IInv /\ [Next]_vars => ExitCodeMeans'
BY ZeroStep, TwoStep DEF ZeroIsMeant, TwoIsMeant, ExitCodeMeans

-----------------------------------------------------------------------------
(***************************************************************************)
(* The invariant holds in every reachable state, for every command line    *)
(* and configuration file.                                                 *)
(***************************************************************************)
THEOREM Invariance == Spec => []IInv
<1>1. IInv /\ [Next]_vars => IInv'
  BY TypeStep, CountedStep, BareStep, ConfiguredStep, DispatchedStep, ExitCodeStep
     DEF IInv
<1> QED
  BY InitInvariant, <1>1, PTL DEF Spec

(***************************************************************************)
(* The variables keep their types: no argument is counted twice, and       *)
(* nothing but the defined flags is set.                                   *)
(***************************************************************************)
THEOREM TypeCorrect == Spec => []TypeOK
<1>1. IInv => TypeOK
  BY DEF IInv
<1> QED
  BY <1>1, Invariance, PTL

(***************************************************************************)
(* Without a word that begins with -X no option counts: main prints the    *)
(* usage text and exits with status 1, or starts the mock cluster,         *)
(* whatever the command line.                                              *)
(***************************************************************************)
THEOREM OptionsAlwaysNeedX == Spec => []OptionsNeedX
<1>1. IInv => OptionsNeedX
  BY DEF IInv, Bare, NoX, OptionsNeedX
<1> QED
  BY <1>1, Invariance, PTL

(***************************************************************************)
(* A mode that runs has its broker, all the lines of its file, its topics  *)
(* and a format of -s that is one.                                         *)
(***************************************************************************)
THEOREM RunsAlwaysConfigured == Spec => []RunsConfigured
<1>1. IInv => RunsConfigured
  <2> SUFFICES ASSUME IInv, pc = "running" PROVE RunsConfigured
    BY DEF RunsConfigured
  <2>1. BrokersFlag /\ (mode \in {"G", "Q"} => extraArgs # <<>>)
    BY DEF IInv, Dispatched
  <2>2. ~BadSerdes /\ seen
    BY <2>1 DEF IInv, Configured
  <2>3. NamesFile => file # Unreadable /\ Lines(Len(file)) \subseteq props
    BY DEF IInv, Configured
  <2>4. file # Unreadable => Range(file) = {file[k] : k \in 1..Len(file)}
    BY Lengths, LenProperties DEF IInv, Range
  <2> QED
    BY <2>1, <2>2, <2>3, <2>4 DEF RunsConfigured, Lines, BrokersFlag
<1> QED
  BY <1>1, Invariance, PTL

(***************************************************************************)
(* Status 0 without a mode having run was asked for, and is never that of  *)
(* the unit tests of -U; status 2 is that of a flag that is refused or of  *)
(* one of the three panics.                                                *)
(***************************************************************************)
THEOREM ExitCodeAlwaysMeans == Spec => []ExitCodeMeans
<1>1. IInv => ExitCodeMeans
  BY DEF IInv
<1> QED
  BY <1>1, Invariance, PTL

=============================================================================
