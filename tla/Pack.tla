-------------------------------- MODULE Pack --------------------------------
(***************************************************************************)
(* Unpack of serde/pack.go: prints binary data as a pack-format says.      *)
(*                                                                         *)
(* The loop has ONE index, f, for the format and for the data: the token   *)
(* at f reads the data from f + 1 on, and moves f by one more than what it *)
(* read.  The format is a sequence of tokens; of the data only its size    *)
(* decides, so a value is given by the stretch <<from, to>> of the data it *)
(* is made of, from the offset `from` to the one before `to`.  Offsets are *)
(* the code's, from 0.  The byte order would be changed by '<', but the    *)
(* loop does not come past that token.                                     *)
(***************************************************************************)
EXTENDS Integers, Sequences

CONSTANTS PackTokens,  \* characters a pack-format is made of
          MaxFormat,   \* bound on their number
          DataSizes    \* sizes of the data

ASSUME PackAssumption == MaxFormat \in Nat /\ DataSizes \subseteq Nat

VARIABLES fmt, size,
          f,        \* how far the loop has come
          printed,  \* the stretches of the data written out
          outcome   \* "runs", or how the loop ended

packVars == <<fmt, size, f, printed, outcome>>

(***************************************************************************)
(* Tokens that leave f alone, and those that read a fixed number of bytes: *)
(* the offset from f that must be inside the data, and how many are read.  *)
(***************************************************************************)
Still == {" ", "<", ">"}

ByteTokens == {"b", "B", "c"}
ShortTokens == {"h", "H"}
IntTokens == {"i", "I"}
LongTokens == {"q", "Q"}
FixedTokens == ByteTokens \cup ShortTokens \cup IntTokens \cup LongTokens

Tested(tok) == CASE tok \in ByteTokens -> 1 [] tok \in ShortTokens -> 2
                 [] tok \in IntTokens -> 3 [] tok \in LongTokens -> 7

Size(tok) == CASE tok \in ByteTokens -> 1 [] tok \in ShortTokens -> 2
               [] tok \in IntTokens -> 4 [] tok \in LongTokens -> 8

(***************************************************************************)
(* Where f is moved by a token.                                            *)
(***************************************************************************)
AfterShort(tok, at) == at + Size(tok)  \* mutant of After: f is not moved past the token

After(tok, at) == at + 1 + Size(tok)

PackInit ==
  /\ fmt \in UNION {[1..n -> PackTokens] : n \in 0..MaxFormat}
  /\ size \in DataSizes
  /\ f = 0 /\ printed = <<>> /\ outcome = "runs"

-----------------------------------------------------------------------------
(***************************************************************************)
(* One turn of the loop, by the token at f.                                *)
(***************************************************************************)
Token == fmt[f + 1]

At(tokens) == outcome = "runs" /\ f < Len(fmt) /\ Token \in tokens

Stop(how) == outcome' = how /\ UNCHANGED <<fmt, size, f, printed>>

(***************************************************************************)
(* It is the same token in the next turn: no end, except that a space is   *)
(* written each time round, and a write that fails ends the loop.          *)
(***************************************************************************)
Spins == At(Still) /\ Stop("spins")

(***************************************************************************)
(* A number or a character.  "outside" is a slice past the data, which is  *)
(* a panic, or a stale byte when the capacity of the data allows it.       *)
(***************************************************************************)
Fits == f + Tested(Token) < size

Truncated == At(FixedTokens) /\ ~Fits /\ Stop("truncated")

Outside == At(FixedTokens) /\ Fits /\ f + 1 + Size(Token) > size /\ Stop("outside")

Number ==
  /\ At(FixedTokens) /\ Fits /\ f + 1 + Size(Token) <= size
  /\ printed' = Append(printed, <<f + 1, f + 1 + Size(Token)>>)
  /\ f' = After(Token, f)
  /\ UNCHANGED <<fmt, size, outcome>>

(***************************************************************************)
(* 's' takes the rest of the data and ends the format, '$' wants no rest.  *)
(***************************************************************************)
Remaining == size - f - 1

RestOfData ==
  /\ At({"s"})
  /\ printed' = IF Remaining > 0 THEN Append(printed, <<f + 1, size>>) ELSE printed
  /\ f' = Len(fmt)
  /\ UNCHANGED <<fmt, size, outcome>>

Trailing == At({"$"}) /\ Remaining > 0 /\ Stop("trailing")

EndOfData == /\ At({"$"}) /\ Remaining <= 0
             /\ f' = f + 1
             /\ UNCHANGED <<fmt, size, printed, outcome>>

Invalid == At(PackTokens \ (Still \cup FixedTokens \cup {"s", "$"})) /\ Stop("invalid")

Done == outcome = "runs" /\ f >= Len(fmt) /\ Stop("done")

PackStep == \/ Spins \/ Truncated \/ Outside \/ Number
            \/ RestOfData \/ Trailing \/ EndOfData \/ Invalid \/ Done

PackSpec == PackInit /\ [][PackStep]_packVars

-----------------------------------------------------------------------------
(***************************************************************************)
(* What Unpack (pack.go 22-184) does of what its comment (18-21) promises: *)
(* it passes over one byte before each value it prints, never prints a     *)
(* byte twice or one outside the data, and prints no more values than half *)
(* the tokens of the format; it goes on for ever at a space, '<' or '>'    *)
(* that comes first, and leaves the data exactly when a number of four or  *)
(* eight bytes is one byte short.                                          *)
(***************************************************************************)
UnpackOutcome ==
  LET past(k) == IF k = 0 THEN 0 ELSE printed[k][2]
      final == outcome # "runs"
  IN /\ \A k \in DOMAIN printed : /\ printed[k][1] = past(k - 1) + 1
                                   /\ printed[k][1] < printed[k][2]
                                   /\ printed[k][2] <= size
     /\ 2 * Len(printed) <= Len(fmt) + 1
     /\ final /\ fmt # <<>> =>
          (outcome = "spins" /\ f = 0 <=> fmt[1] \in {" ", "<", ">"})
     /\ outcome = "outside" <=>
          /\ final /\ outcome # "done" /\ Token \in {"i", "I", "q", "Q"}
          /\ size - f = IF Token \in {"i", "I"} THEN 4 ELSE 8

=============================================================================
