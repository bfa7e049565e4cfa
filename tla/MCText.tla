------------------------------- MODULE MCText -------------------------------
(***************************************************************************)
(* Bounded check of kcat's conversions, each on its own: `kind` says       *)
(* which.  "search", "query", "escapes" and "pack" take the steps of       *)
(* SearchInput, QueryInput, EscapesInput and Pack.  "avro" decodes `data`, *)
(* the beginning of one encoding of a value that grows as it does for the  *)
(* reader of a stream; `par` is the schema, the encoding and what is to be *)
(* expected of it.                                                         *)
(***************************************************************************)
EXTENDS SearchInput, QueryInput, EscapesInput, Pack, TLC

Decoder == INSTANCE Avro
Writer == INSTANCE Encoding

VARIABLES kind, par, data

vars == <<searchVars, queryVars, packVars, inputVars, kind, par, data>>

-----------------------------------------------------------------------------
(***************************************************************************)
(* What is written: the numbers are a, n, q, z, %, o, s, k, and \, % in    *)
(* hex.                                                                    *)
(***************************************************************************)
MCDelimItems ==
  {Item("char", <<97>>), Item("char", <<LetterX>>), Item("char", <<Percent>>),
   Item("char", <<Backslash>>), Item("esc", <<110>>), Item("esc", <<113>>),
   Item("hex", <<>>), Item("hex", <<55>>), Item("hex", <<52, 49>>),
   Item("hex", <<53, 99>>)}

MCFormatItems ==
  {Item("char", <<97>>), Item("char", <<Backslash>>), Item("esc", <<110>>),
   Item("esc", <<113>>), Item("esc", <<Backslash>>), Item("hex", <<>>),
   Item("hex", <<55>>), Item("hex", <<52, 97>>),
   Item("fmt", <<115>>), Item("fmt", <<Percent>>), Item("fmt", <<122>>),
   Item("fmt", <<>>)}

-----------------------------------------------------------------------------
(***************************************************************************)
(* Values to encode, each with its schema.                                 *)
(***************************************************************************)
Longs == {0, -1, 1, 63, 64, -64, -65, 8191, 8192, -8192, -8193}

Str(s) == <<"string", s>>
Num(n) == <<"number", n>>
List(vs) == <<"list", vs>>

Pair == <<"record", <<<<"long">>, <<"string">>>>>>
Optional ==
  <<"union", <<<<"null">>, <<"array", <<"boolean">>>>, <<"fixed", 2>>>>>>

Samples ==
  {<<<<"long">>, Num(n)>> : n \in Longs} \cup
  {<<<<"array", <<"long">>>>, List(vs)>> :
     vs \in {<<>>, <<Num(0)>>, <<Num(64), Num(-65)>>,
             <<Num(1), Num(-1), Num(0)>>}} \cup
  {<<<<"array", Pair>>, List(<<<<"object", <<Num(-64), Str(<<7>>)>>>>,
                               <<"object", <<Num(1), Str(<<>>)>>>>>>)>>} \cup
  {<<<<"map", <<"string">>>>, <<"map", m>>>> :
     m \in {<<>>, <<5>> :> Str(<<1, 2>>),
            (<<5>> :> Str(<<>>)) @@ (<<6>> :> Str(<<0>>))}} \cup
  {<<Optional, v>> :
     v \in {Decoder!Null, List(<<>>), <<"base64", <<129, 3>>>>,
            List(<<<<"boolean", TRUE>>, <<"boolean", FALSE>>>>)}} \cup
  {<<<<"bytes">>, <<"base64", <<200, 0>>>>>>, <<<<"enum", 2>>, <<"symbol", 1>>>>,
   <<<<"float">>, <<"float", <<0, 0, 128, 63>>>>>>,
   <<<<"double">>, <<"float", <<0, 0, 0, 0, 0, 0, 240, 63>>>>>>}

(***************************************************************************)
(* The JSON of a value is the value, but that an empty list is null.       *)
(***************************************************************************)
RECURSIVE JSONOf(_)
JSONOf(v) ==
  CASE v = List(<<>>) -> Decoder!Null
    [] v[1] \in {"list", "object"} ->
         <<v[1], [i \in DOMAIN v[2] |-> JSONOf(v[2][i])]>>
    [] OTHER -> v

Case(schema, enc, end, val) ==
  [schema |-> schema, enc |-> enc, end |-> end, val |-> val]

(***************************************************************************)
(* What no writer writes: an index out of range, above or below, a length  *)
(* below 0, and a number that is no number.                                *)
(***************************************************************************)
Wrong == {Case(<<"enum", 2>>, <<4>>, "error", Decoder!Null),
          Case(<<"enum", 2>>, <<1>>, "panic", Decoder!Null),
          Case(Optional, <<6>>, "error", Decoder!Null),
          Case(Optional, <<3>>, "panic", Decoder!Null),
          Case(<<"string">>, <<1>>, "error", Decoder!Null),
          Case(<<"named">>, <<>>, "error", Decoder!Null),
          Case(<<"float">>, <<0, 0, 192, 127>>, "error", Decoder!Null)}

AvroCases ==
  UNION {{Case(s[1], e, "ok", JSONOf(s[2])) : e \in Writer!Encodings(s[1], s[2])} :
         s \in Samples} \cup Wrong

-----------------------------------------------------------------------------
(***************************************************************************)
(* Arguments of -Q, and brokers that hold two partitions of a topic "t" or *)
(* one that is empty: an offset for the beginning, the end and each time,  *)
(* or -1 for a time behind the last message.  The arguments ask for both   *)
(* partitions at two times and at -1, for times, partitions and topics     *)
(* that are none, with a part too many and with one too few.               *)
(***************************************************************************)
Answers(first, last, atFive, atNine) ==
  (-2 :> first) @@ (-1 :> last) @@ (0 :> first) @@ (5 :> atFive) @@ (9 :> atNine)

Populated == "t" :> ((0 :> Answers(2, 8, 4, 7)) @@ (1 :> Answers(0, 3, 3, -1)))

MCBrokers == {Populated, "t" :> (0 :> Answers(0, 0, -1, -1))}

MCArgs == {<<"t", p, at>> : p \in {0, 1}, at \in {5, 9, -1}}
            \cup {<<"t", 0, NaN>>, <<"u", 0, 5>>, <<"t", NaN, 5>>,
                  <<"t", 1, 5, 9>>, <<"t", 0>>}

-----------------------------------------------------------------------------
(***************************************************************************)
(* What belongs to another kind than the chosen one is one small input     *)
(* that stays as it is.                                                    *)
(***************************************************************************)
Init ==
  /\ \/ kind \in {"search", "query", "pack", "escapes"} /\ par = <<>>
     \/ kind = "avro" /\ par \in AvroCases
  /\ data = <<>>
  /\ kind = "search" \/ pattern = <<1>>
  /\ kind = "query" \/ cluster = Populated
  /\ kind = "pack" \/ (fmt = <<>> /\ size = 0)
  /\ kind = "escapes" \/ use = "delim"
  /\ SearchInit /\ QueryInit /\ PackInit /\ EscapesInit

Next ==
  /\ \/ /\ kind = "search" /\ Read
        /\ UNCHANGED <<queryVars, packVars, inputVars, data>>
     \/ /\ kind = "query" /\ AddArg
        /\ UNCHANGED <<searchVars, packVars, inputVars, data>>
     \/ /\ kind = "pack" /\ PackStep
        /\ UNCHANGED <<searchVars, queryVars, inputVars, data>>
     \/ /\ kind = "escapes" /\ EscapesNext
        /\ UNCHANGED <<searchVars, queryVars, packVars, data>>
     \/ /\ kind = "avro" /\ Len(data) < Len(par.enc)
        /\ data' = Append(data, par.enc[Len(data) + 1])
        /\ UNCHANGED <<searchVars, queryVars, packVars, inputVars>>
  /\ UNCHANGED <<kind, par>>

Spec == Init /\ [][Next]_vars

-----------------------------------------------------------------------------
(***************************************************************************)
(* The decoder (avro.go 184-436) inverts every encoding of a value: any    *)
(* blocks, with and without their sizes, any order of keys; only an empty  *)
(* array comes out as null.  Data that is cut short anywhere is an error,  *)
(* never another value; an index below 0 ends the process.                 *)
(***************************************************************************)
AvroInverts ==
  kind = "avro" =>
    LET r == Decoder!DataToJSON(par.schema, data) IN
    IF data # par.enc THEN r.end = "error"
    ELSE /\ r.end = par.end
         /\ r.end = "ok" => r.val = par.val /\ r.pos = Len(data)

=============================================================================
