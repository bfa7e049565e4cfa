------------------------------ MODULE Escapes -------------------------------
(***************************************************************************)
(* What kcat makes of the texts a user writes on the command line:         *)
(*                                                                         *)
(*   input/buffer.go    ParseDelim             -D and -K                   *)
(*   format/parser.go   Parse, resolveEscapes  -f, and the format that the *)
(*                                             consumer makes of -K        *)
(*                                                                         *)
(* Each is a loop over the bytes of `source`, numbers as in ASCII, and a   *)
(* step is one turn of it.                                                 *)
(***************************************************************************)
EXTENDS Integers, Sequences, FiniteSetsExt

VARIABLES source,  \* what is converted
          seen,    \* how many bytes of it are behind the loop
          limit,   \* the end of the literal in resolveEscapes, 0 outside it
          made,    \* the result so far
          loop,    \* "writing", "delim", "format"; "done", "failed", "rejected"
          key      \* KeyDelim: what ParseDelim made of -K

escapeVars == <<source, seen, limit, made, loop, key>>

Percent == 37
Backslash == 92
Newline == 10
LetterX == 120

(***************************************************************************)
(* \n, \t and \r, by the letter after the backslash.                       *)
(***************************************************************************)
Control == [c \in {110, 116, 114} |-> IF c = 110 THEN 10 ELSE IF c = 116 THEN 9 ELSE 13]

HexDigit == (48..57) \cup (65..70) \cup (97..102)

HexVal(d) == IF d <= 57 THEN d - 48 ELSE IF d <= 70 THEN d - 55 ELSE d - 87

RawHexByte(last, n) ==  \* mutant of HexByte: val*16 + byte(c) of buffer.go:48
  (source[last] + 16 * (IF n = 1 THEN 0 ELSE source[last - 1])) % 256

(***************************************************************************)
(* How many digits follow the first `from` bytes, at most `most` of them   *)
(* and not past `end`; and the value of n of them, the last of which is at *)
(* `last`: val <<= 4 and val += digit, in one byte, keep the last two.     *)
(***************************************************************************)
HexRun(from, end, most) ==
  Max({n \in 0..most : /\ from + n <= end
                       /\ \A j \in 1..n : source[from + j] \in HexDigit})

HexByte(last, n) ==
  HexVal(source[last]) + 16 * (IF n = 1 THEN 0 ELSE HexVal(source[last - 1]))

(***************************************************************************)
(* A turn of either loop of escapes, over the bytes before `end`.  They    *)
(* differ in the number of digits taken for \x, in how far the loop steps  *)
(* over a hex escape, and in what is kept of the backslash of an escape    *)
(* that is unknown.  A backslash at the end is kept by both.               *)
(***************************************************************************)
Emit(bytes, n) == /\ made' = made \o bytes
                  /\ seen' = seen + n
                  /\ UNCHANGED loop

Fail(how) == loop' = how /\ UNCHANGED <<seen, made>>

Escaped(end) == source[seen + 1] = Backslash /\ seen + 1 < end

Convert(end, most, over, kept, how) ==
  LET e == source[seen + 2]
      n == HexRun(seen + 2, end, most)
  IN \/ ~Escaped(end) /\ Emit(<<source[seen + 1]>>, 1)
     \/ /\ Escaped(end) /\ e # LetterX
        /\ Emit(IF e \in DOMAIN Control THEN <<Control[e]>> ELSE kept \o <<e>>, 2)
     \/ /\ Escaped(end) /\ e = LetterX /\ n > 0
        /\ Emit(<<HexByte(seen + 2 + n, n)>>, 2 + n + over)
     \/ Escaped(end) /\ e = LetterX /\ n = 0 /\ Fail(how)

-----------------------------------------------------------------------------
(***************************************************************************)
(* ParseDelim.                                                             *)
(***************************************************************************)
DelimDigits == 3

ParseDelim ==
  /\ loop = "delim" /\ seen < Len(source)
  /\ Convert(Len(source), DelimDigits, 0, <<Backslash>>, "rejected")
  /\ UNCHANGED <<source, limit, key>>

(***************************************************************************)
(* The format used without -f: "%k" + KeyDelim + "%s\n", where KeyDelim    *)
(* has been through ParseDelim and goes through Parse as well.  An empty   *)
(* KeyDelim is as good as none, and the format is "%s\n".                  *)
(***************************************************************************)
KeyFormat(d) == <<Percent, 107>> \o d \o <<Percent, 115, Newline>>

DelimParsed ==
  /\ loop = "delim" /\ seen = Len(source) /\ made # <<>>
  /\ key' = made /\ source' = KeyFormat(made)
  /\ seen' = 0 /\ made' = <<>> /\ loop' = "format"
  /\ UNCHANGED limit

-----------------------------------------------------------------------------
(***************************************************************************)
(* Parse.  A token of type TypeStr is given by its bytes, any other by its *)
(* letter behind the % plus Formatter, so that a format is a sequence of   *)
(* numbers in which neighbouring strings are one.                          *)
(***************************************************************************)
Formatter == 256

Letters == {111, 107, 75, 115, 83, 82, 116, 112, 84, 104}  \* o k K s S R t p T h

Parsing == loop = "format" /\ limit = 0 /\ seen < Len(source)

KnownFormatter(c) == c \in Letters \cup {Percent}

TokenOf(c) == IF c = Percent THEN c ELSE Formatter + c

FormatToken ==
  /\ Parsing /\ source[seen + 1] = Percent
  /\ IF seen + 1 < Len(source) /\ KnownFormatter(source[seen + 2])
     THEN Emit(<<TokenOf(source[seen + 2])>>, 2)
     ELSE Fail("failed")
  /\ UNCHANGED <<source, limit, key>>

(***************************************************************************)
(* The literal up to the next % or the end goes through resolveEscapes:    *)
(* after a hex escape the loop's i++ steps over one byte more, and an      *)
(* unknown escape loses its backslash.                                     *)
(***************************************************************************)
NextPercent ==
  Min({Len(source)} \cup {j \in (seen + 1)..(Len(source) - 1) : source[j + 1] = Percent})

Literal ==
  /\ Parsing /\ source[seen + 1] # Percent
  /\ limit' = NextPercent
  /\ UNCHANGED <<source, seen, made, loop, key>>

KeptBackslash == <<Backslash>>  \* mutant of KeptOfUnknown

KeptOfUnknown == <<>>

ResolveEscapes ==
  /\ loop = "format" /\ seen < limit
  /\ Convert(limit, 2, 1, KeptOfUnknown, "failed")
  /\ UNCHANGED <<source, limit, key>>

Resolved ==
  /\ loop = "format" /\ limit # 0 /\ seen >= limit
  /\ seen' = limit /\ limit' = 0
  /\ UNCHANGED <<source, made, loop, key>>

Parsed ==
  /\ loop = "format" /\ limit = 0 /\ seen = Len(source)
  /\ loop' = "done"
  /\ UNCHANGED <<source, seen, limit, made, key>>

EscapeStep == \/ ParseDelim \/ DelimParsed
              \/ FormatToken \/ Literal \/ ResolveEscapes \/ Resolved \/ Parsed

=============================================================================
