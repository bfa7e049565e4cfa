------------------------------ MODULE Encoding ------------------------------
(***************************************************************************)
(* Reference for module Avro: the encodings of a value, written from the   *)
(* writer's side.  Arrays and maps have several, since the writer may cut  *)
(* them into blocks at will, give a block's size or not, and take the keys *)
(* of a map in any order.                                                  *)
(***************************************************************************)
EXTENDS Integers, Sequences, SequencesExt

RECURSIVE Base128(_)
Base128(n) == IF n < 128 THEN <<n>>
              ELSE <<128 + (n % 128)>> \o Base128(n \div 128)

EncLong(n) == Base128(IF n < 0 THEN -2 * n - 1 ELSE 2 * n)

(***************************************************************************)
(* One encoding out of each set, in sequence.                              *)
(***************************************************************************)
Joined(sets) ==
  FoldLeft(LAMBDA acc, s : {e \o f : e \in acc, f \in s}, {<<>>}, sets)

RECURSIVE EncBlocks(_)
EncBlocks(items) ==
  IF items = <<>> THEN {<<0>>}
  ELSE UNION { {head \o body \o rest :
                  head \in {EncLong(k), EncLong(-k) \o EncLong(Len(body))},
                  rest \in EncBlocks(SubSeq(items, k + 1, Len(items)))} :
               <<k, body>> \in
                 UNION {{k} \X Joined(SubSeq(items, 1, k)) : k \in 1..Len(items)} }

KindOf(schema) == CASE schema[1] \in {"int", "long"} -> "number"
                    [] schema[1] = "double" -> "float"
                    [] schema[1] \in {"bytes", "fixed"} -> "base64"
                    [] schema[1] = "array" -> "list"
                    [] schema[1] = "enum" -> "symbol"
                    [] schema[1] = "record" -> "object"
                    [] OTHER -> schema[1]

RECURSIVE Encodings(_, _)
Encodings(schema, val) ==
  CASE schema[1] = "null" -> {<<>>}
    [] schema[1] = "boolean" -> {<<IF val[2] THEN 1 ELSE 0>>}
    [] schema[1] \in {"int", "long", "enum"} -> {EncLong(val[2])}
    [] schema[1] \in {"float", "double", "fixed"} -> {val[2]}
    [] schema[1] \in {"bytes", "string"} -> {EncLong(Len(val[2])) \o val[2]}
    [] schema[1] = "record" ->
         Joined([i \in DOMAIN val[2] |-> Encodings(schema[2][i], val[2][i])])
    [] schema[1] = "array" ->
         EncBlocks([i \in DOMAIN val[2] |-> Encodings(schema[2], val[2][i])])
    [] schema[1] = "map" ->
         UNION {EncBlocks([i \in DOMAIN keys |->
                             {EncLong(Len(keys[i])) \o keys[i] \o e :
                                e \in Encodings(schema[2], val[2][keys[i]])}]) :
                keys \in SetToSeqs(DOMAIN val[2])}
    [] schema[1] = "union" ->
         UNION {{EncLong(i - 1) \o e : e \in Encodings(schema[2][i], val)} :
                i \in {k \in DOMAIN schema[2] : KindOf(schema[2][k]) = val[1]}}

=============================================================================
