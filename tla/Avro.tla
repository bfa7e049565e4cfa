-------------------------------- MODULE Avro --------------------------------
(***************************************************************************)
(* The Avro decoder of serde/avro.go (avroDecoder and avroDataToJSON): the *)
(* bytes behind the schema id of a message, read as the schema says and    *)
(* turned into JSON.                                                       *)
(*                                                                         *)
(* A schema is <<type>> for a primitive type and <<type, parameter>> for   *)
(* an array (of its items), a map (its values), a record (the sequence of  *)
(* its fields), a union (the sequence of its branches), an enum (how many  *)
(* symbols it has) and a fixed (its size).  A JSON value is a pair of its  *)
(* kind and what it holds.  Data is a sequence of bytes.                   *)
(*                                                                         *)
(* A reading is [end, val, pos]: how it ended, the value, and the offset   *)
(* of the first byte not read.  Numbers are kept within three bytes; the   *)
(* truncation of an int to 32 bits is left out.                            *)
(***************************************************************************)
EXTENDS Integers, Sequences, SequencesExt, TLC

Null == <<"null", 0>>

Got(val, pos) == [end |-> "ok", val |-> val, pos |-> pos]
Fault(how) == [end |-> how, val |-> Null, pos |-> 0]
Error == Fault("error")
Panic == Fault("panic")   \* an index below 0, which no test excludes

(***************************************************************************)
(* readLong: seven bits a byte, the lowest first, as long as the top bit   *)
(* is set; zigzag puts the sign into the lowest bit.                       *)
(***************************************************************************)
RECURSIVE Varint(_, _)
Varint(data, pos) ==
  IF pos >= Len(data) THEN Error
  ELSE LET b == data[pos + 1] IN
       IF b < 128 THEN Got(b, pos + 1)
       ELSE LET more == Varint(data, pos + 1) IN
            IF more.end = "ok" THEN Got(b - 128 + 128 * more.val, more.pos)
                               ELSE more

Zigzag(n) == IF n % 2 = 0 THEN n \div 2 ELSE -(n \div 2) - 1

ReadLong(data, pos) ==
  LET n == Varint(data, pos)
  IN IF n.end = "ok" THEN Got(Zigzag(n.val), n.pos) ELSE n

(***************************************************************************)
(* n bytes as they are; readBytes reads n first.                           *)
(***************************************************************************)
Take(data, pos, n, kind) ==
  IF pos + n > Len(data) THEN Error
  ELSE Got(<<kind, SubSeq(data, pos + 1, pos + n)>>, pos + n)

ReadBytes(data, pos, kind) ==
  LET n == ReadLong(data, pos) IN
  IF n.end # "ok" THEN n
  ELSE IF n.val < 0 THEN Error
  ELSE Take(data, n.pos, n.val, kind)

(***************************************************************************)
(* json.Marshal, at the end, takes no NaN and no infinity: all bits of the *)
(* exponent set, in the last two bytes of the little-endian number.        *)
(***************************************************************************)
NotFinite(bits) ==
  LET top == bits[Len(bits)]
      next == bits[Len(bits) - 1]
  IN top % 128 = 127 /\ next >= IF Len(bits) = 4 THEN 128 ELSE 240

ReadPrimitive(type, data, pos) ==
  CASE type = "null" -> Got(Null, pos)
    [] type = "boolean" ->
         IF pos >= Len(data) THEN Error
         ELSE Got(<<"boolean", data[pos + 1] # 0>>, pos + 1)
    [] type \in {"int", "long"} ->
         LET n == ReadLong(data, pos)
         IN IF n.end = "ok" THEN Got(<<"number", n.val>>, n.pos) ELSE n
    [] type = "float" -> Take(data, pos, 4, "float")
    [] type = "double" -> Take(data, pos, 8, "float")
    [] type = "bytes" -> ReadBytes(data, pos, "base64")
    [] type = "string" -> ReadBytes(data, pos, "string")
    [] OTHER -> Error

-----------------------------------------------------------------------------
(***************************************************************************)
(* Composite types.  Blocks is the loop of decodeArray and decodeMap: a    *)
(* count and that many items, until the count is 0; a negative count is    *)
(* followed by the size of the block, which is not needed.                 *)
(***************************************************************************)
NoItems == <<>>

AbsCount(n) == IF n < 0 THEN -n ELSE n

NeverSize(n) == FALSE  \* mutant of HasSize: no size is expected

HasSize(n) == n < 0

RECURSIVE Decode(_, _, _)
RECURSIVE Items(_, _, _, _, _)
RECURSIVE Blocks(_, _, _, _)
RECURSIVE Fields(_, _, _, _)

Fields(schemas, data, pos, vals) ==
  IF schemas = <<>> THEN Got(<<"object", vals>>, pos)
  ELSE LET v == Decode(Head(schemas), data, pos)
       IN IF v.end # "ok" THEN v
          ELSE Fields(Tail(schemas), data, v.pos, Append(vals, v.val))

(***************************************************************************)
(* One item of an array, or one of a map: a key and a value.               *)
(***************************************************************************)
Item(schema, data, pos) ==
  IF schema[1] = "array" THEN Decode(schema[2], data, pos)
  ELSE LET k == ReadBytes(data, pos, "string") IN
       IF k.end # "ok" THEN k
       ELSE LET v == Decode(schema[2], data, k.pos) IN
            IF v.end # "ok" THEN v ELSE Got(<<k.val[2], v.val>>, v.pos)

Items(schema, count, data, pos, vals) ==
  IF count = 0 THEN Blocks(schema, data, pos, vals)
  ELSE LET v == Item(schema, data, pos)
       IN IF v.end # "ok" THEN v
          ELSE Items(schema, count - 1, data, v.pos, Append(vals, v.val))

(***************************************************************************)
(* The list of an empty array was never made, and is null in JSON.  In a   *)
(* map the last of several values of one key stays.                        *)
(***************************************************************************)
Collected(schema, vals) ==
  IF schema[1] = "array"
  THEN IF vals = NoItems THEN Null ELSE <<"list", vals>>
  ELSE <<"map", FoldLeft(LAMBDA m, kv : (kv[1] :> kv[2]) @@ m, <<>>, vals)>>

Blocks(schema, data, pos, vals) ==
  LET n == ReadLong(data, pos) IN
  IF n.end # "ok" THEN n
  ELSE IF n.val = 0 THEN Got(Collected(schema, vals), n.pos)
  ELSE LET size == IF HasSize(n.val) THEN ReadLong(data, n.pos) ELSE n IN
       IF size.end # "ok" THEN size
       ELSE Items(schema, AbsCount(n.val), data, size.pos, vals)

(***************************************************************************)
(* An enum and a union: the index is tested from above only.               *)
(***************************************************************************)
ReadIndex(data, pos, size) ==
  LET n == ReadLong(data, pos) IN
  IF n.end # "ok" THEN n
  ELSE IF n.val >= size THEN Error
  ELSE IF n.val < 0 THEN Panic
  ELSE n

Decode(schema, data, pos) ==
  CASE schema[1] = "record" -> Fields(schema[2], data, pos, <<>>)
    [] schema[1] \in {"array", "map"} -> Blocks(schema, data, pos, NoItems)
    [] schema[1] = "enum" ->
         LET n == ReadIndex(data, pos, schema[2])
         IN IF n.end = "ok" THEN Got(<<"symbol", n.val>>, n.pos) ELSE n
    [] schema[1] = "union" ->
         LET n == ReadIndex(data, pos, Len(schema[2]))
         IN IF n.end = "ok" THEN Decode(schema[2][n.val + 1], data, n.pos) ELSE n
    [] schema[1] = "fixed" -> Take(data, pos, schema[2], "base64")
    [] OTHER -> ReadPrimitive(schema[1], data, pos)

(***************************************************************************)
(* A value with a number that JSON cannot express is an error.             *)
(***************************************************************************)
RECURSIVE Marshals(_)
Marshals(val) ==
  CASE val[1] = "float" -> ~NotFinite(val[2])
    [] val[1] \in {"object", "list"} -> \A i \in DOMAIN val[2] : Marshals(val[2][i])
    [] val[1] = "map" -> \A k \in DOMAIN val[2] : Marshals(val[2][k])
    [] OTHER -> TRUE

(***************************************************************************)
(* avroDataToJSON.  Bytes that are left over are not looked at.            *)
(***************************************************************************)
DataToJSON(schema, data) ==
  LET v == Decode(schema, data, 0)
  IN IF v.end = "ok" /\ ~Marshals(v.val) THEN Error ELSE v

=============================================================================
