----------------------------- MODULE QueryInput -----------------------------
(***************************************************************************)
(* Query mode with any arguments: a broker is chosen once, and -Q brings   *)
(* one argument after the other, as the loop of runQueryMode (main.go      *)
(* 424-432) does.  Every list of arguments is the state of some behaviour, *)
(* and the invariant says what RunQuery prints for it.                     *)
(***************************************************************************)
EXTENDS Query

CONSTANTS Brokers,  \* what a broker may hold: broker[topic][partition][time]
          Args,     \* arguments of -Q, each the sequence of its parts
          MaxArgs   \* bound on their number

(***************************************************************************)
(* A part of an argument that is read as a number is one, or NaN.  A       *)
(* partition that exists has a first offset.                               *)
(***************************************************************************)
ASSUME QueryAssumption ==
  /\ MaxArgs \in Nat
  /\ \A arg \in Args : Accepted(arg) => arg[2] \in Int /\ arg[3] \in Int
  /\ \A broker \in Brokers : \A t \in DOMAIN broker : \A p \in DOMAIN broker[t] :
       broker[t][p][OffsetBeginning] # Unknown

VARIABLES cluster, args

queryVars == <<cluster, args>>

QueryInit == cluster \in Brokers /\ args = <<>>

AddArg ==
  /\ Len(args) < MaxArgs
  /\ \E arg \in Args : args' = Append(args, arg)
  /\ UNCHANGED cluster

QuerySpec == QueryInit /\ [][AddArg]_queryVars

-----------------------------------------------------------------------------
(***************************************************************************)
(* The partition an argument asks for, and whether it asks for its         *)
(* beginning, which any negative time does.                                *)
(***************************************************************************)
PartitionOf(arg) == IF arg[2] = NaN THEN 0 ELSE arg[2]

Same(a, b) == a[1] = b[1] /\ PartitionOf(a) = PartitionOf(b)

Beginning(arg) == arg[3] < 0 /\ arg[3] # NaN

(***************************************************************************)
(* The answer to one argument, had it been asked alone.                    *)
(***************************************************************************)
Truth(broker, arg) ==
  IF Known(broker, arg[1], PartitionOf(arg))
  THEN broker[arg[1]][PartitionOf(arg)][
         IF Beginning(arg) THEN OffsetBeginning ELSE Max({arg[3], 0})]
  ELSE Unknown

(***************************************************************************)
(* Every line of -Q (query.go 58-85) is the answer to its own argument, or *)
(* -1 for a partition that cannot be asked, as long as the arguments ask   *)
(* for a partition at one time only.  With several times, any of the       *)
(* answers may be in any of the lines, but one for the beginning, or a     *)
(* negative time, which means the beginning, takes all of them.            *)
(***************************************************************************)
QueryAnswers ==
  (\A i \in DOMAIN args : Accepted(args[i])) =>
    LET reqs == [i \in DOMAIN args |-> ParseToppar(args[i])]
    IN \A i \in DOMAIN args :
         LET rivals == {j \in DOMAIN args : Same(args[i], args[j])}
             first  == {j \in rivals : Beginning(args[j])}
         IN RunQuery(cluster, reqs)[i] =
              {Truth(cluster, args[j]) : j \in IF first = {} THEN rivals ELSE first}

=============================================================================
