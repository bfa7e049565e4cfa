---------------------------- MODULE EscapesInput ----------------------------
(***************************************************************************)
(* What a user writes for -K or -f, and what is made of it.  The text is   *)
(* written item by item: a character, an escape, a byte in hex, or a       *)
(* formatter; then the loops of Escapes run.  Beside the bytes of the text *)
(* grows what it means, so the invariants compare what is made with what   *)
(* was meant, for every text.                                              *)
(***************************************************************************)
EXTENDS Escapes

CONSTANTS DelimItems, FormatItems,  \* what is written for -K and for -f
          MaxWritten                \* bound on the number of items

Byte == 0..255

Item(k, bs) == [k |-> k, bs |-> bs]

(***************************************************************************)
(* \x begins an escape in hex, with two digits or less; in a format, %     *)
(* begins a formatter.  A formatter may be unfinished.  With MayFollow     *)
(* every sequence of bytes is written in exactly one way.                  *)
(***************************************************************************)
Chars(special) == {Item("char", <<c>>) : c \in Byte \ special}
EscapedChars(special) == {Item("esc", <<c>>) : c \in Byte \ special}
HexEscapes == {Item("hex", <<c, d>>) : c, d \in HexDigit}
                \cup {Item("hex", <<c>>) : c \in HexDigit} \cup {Item("hex", <<>>)}
Formatters == {Item("fmt", <<c>>) : c \in Byte} \cup {Item("fmt", <<>>)}

ASSUME EscapesAssumption ==
  /\ MaxWritten \in Nat
  /\ DelimItems \subseteq Chars({}) \cup EscapedChars({LetterX}) \cup HexEscapes
  /\ FormatItems \subseteq
       Chars({Percent}) \cup EscapedChars({LetterX, Percent})
         \cup HexEscapes \cup Formatters

VARIABLES use,   \* "delim" for -K, "format" for -f
          text,  \* the items written, each with where it begins in source
          meant  \*   and in what the text means

inputVars == <<escapeVars, use, text, meant>>

Spelled(w) == CASE w.k = "char" -> w.bs
                [] w.k = "esc" -> <<Backslash>> \o w.bs
                [] w.k = "hex" -> <<Backslash, LetterX>> \o w.bs
                [] w.k = "fmt" -> <<Percent>> \o w.bs

DigitNext(w) == w.k = "char" /\ w.bs[1] \in HexDigit

(***************************************************************************)
(* What belongs to an item is part of it: a hex escape of less than two    *)
(* digits has no digit behind it, a backslash that is a character only a   *)
(* formatter, and an unfinished formatter nothing.                         *)
(***************************************************************************)
MayFollow(last, w) ==
  /\ last.k = "fmt" => last.bs # <<>>
  /\ last.k = "hex" /\ Len(last.bs) < 2 => ~DigitNext(w)
  /\ last.k = "char" /\ last.bs[1] = Backslash => w.k = "fmt"

BadFormatter(w) == w.k = "fmt" /\ (w.bs = <<>> \/ ~KnownFormatter(w.bs[1]))

BadHex(w) == w.k = "hex" /\ w.bs = <<>>

Meant(w) ==
  CASE w.k = "char" -> w.bs
    [] w.k = "esc" -> IF w.bs[1] \in DOMAIN Control THEN <<Control[w.bs[1]]>>
                      ELSE IF use = "delim" THEN <<Backslash>> \o w.bs ELSE w.bs
    [] w.k = "hex" -> IF w.bs = <<>> THEN <<>>
                      ELSE IF Len(w.bs) = 1 THEN <<HexVal(w.bs[1])>>
                      ELSE <<16 * HexVal(w.bs[1]) + HexVal(w.bs[2])>>
    [] w.k = "fmt" -> IF BadFormatter(w) THEN <<>> ELSE <<TokenOf(w.bs[1])>>

EscapesInit ==
  /\ use \in {"delim", "format"} /\ loop = "writing"
  /\ text = <<>> /\ source = <<>> /\ meant = <<>>
  /\ seen = 0 /\ limit = 0 /\ made = <<>> /\ key = <<>>

Write(w) ==
  /\ loop = "writing" /\ Len(text) < MaxWritten
  /\ text # <<>> => MayFollow(text[Len(text)], w)
  /\ text' = Append(text, [k |-> w.k, bs |-> w.bs,
                           at |-> Len(source), shown |-> Len(meant)])
  /\ source' = source \o Spelled(w)
  /\ meant' = meant \o Meant(w)
  /\ UNCHANGED <<seen, limit, made, loop, key, use>>

Enter ==
  /\ loop = "writing" /\ loop' = use
  /\ UNCHANGED <<source, seen, limit, made, key, use, text, meant>>

EscapesNext ==
  \/ \E w \in IF use = "delim" THEN DelimItems ELSE FormatItems : Write(w)
  \/ Enter
  \/ EscapeStep /\ UNCHANGED <<use, text, meant>>

EscapesSpec == EscapesInit /\ [][EscapesNext]_inputVars

-----------------------------------------------------------------------------
HexBefore(Follows(_)) ==
  \E j \in 1..(Len(text) - 1) : text[j].k = "hex" /\ Follows(text[j + 1])

LiteralNext(w) ==
  \/ w.k \in {"char", "hex"}
  \/ w.k = "esc" /\ w.bs[1] \in DOMAIN Control \cup {Backslash}

Reread(w) == w.k = "hex" \/ (w.k = "esc" /\ w.bs[1] = Backslash)

(***************************************************************************)
(* -D and -K (ParseDelim, buffer.go 13-75) are rejected for a \x without   *)
(* digits and for nothing else, and mean what is written unless a hex      *)
(* escape stands before a hex digit, which it swallows.                    *)
(***************************************************************************)
DelimMeans ==
  use = "delim" /\ loop \notin {"writing", "delim"} =>
    IF loop = "rejected" THEN \E j \in DOMAIN text : BadHex(text[j])
    ELSE /\ \A j \in DOMAIN text : ~BadHex(text[j])
         /\ key = meant <=> ~HexBefore(DigitNext)

(***************************************************************************)
(* -f (parser.go 33-143) fails if a formatter is not known or not          *)
(* finished, or a \x is without digits, and else means what is written     *)
(* unless something literal follows a hex escape: that loses its first     *)
(* byte, which is seen, unless it is the backslash of a hex escape or of   *)
(* \\.  Then the rest is read in another way, and can even come out as it  *)
(* was meant: \x413\x33x\x33\x31 does.                                     *)
(***************************************************************************)
FormatMeans ==
  /\ use = "format" /\ loop = "done" =>
       /\ \A j \in DOMAIN text : ~BadFormatter(text[j])
       /\ ~HexBefore(Reread) => /\ \A j \in DOMAIN text : ~BadHex(text[j])
                                /\ made = meant <=> ~HexBefore(LiteralNext)
  /\ use = "format" /\ loop = "failed" =>
       \/ HexBefore(Reread)
       \/ \E j \in DOMAIN text : BadFormatter(text[j]) \/ BadHex(text[j])

(***************************************************************************)
(* A text given to -D, -K or -f means what its items mean (ParseDelim,     *)
(* Parse and resolveEscapes), up to these exceptions and no others.  That  *)
(* \xNN is not always that byte, which buffer.go:12, parser.go:32 and      *)
(* root.go:42 say, is what DelimHexIsAByte and FormatHexIsAByte of module  *)
(* Documented are refuted by.                                              *)
(***************************************************************************)
EscapesMean == DelimMeans /\ FormatMeans

(***************************************************************************)
(* The consumer's default format (consumer.go 23-27, main.go 356-359) puts *)
(* the key delimiter into a format string as it is: the output is the key, *)
(* the delimiter, the value and a newline exactly when the delimiter holds *)
(* no % and no backslash that something follows.                           *)
(***************************************************************************)
NothingSpecial(d) ==
  \A j \in DOMAIN d : d[j] # Percent /\ (d[j] = Backslash => j = Len(d))

KeyDelimShown ==
  use = "delim" /\ loop \in {"done", "failed"} =>
    (loop = "done" /\ made = <<Formatter + 107>> \o key \o <<Formatter + 115, Newline>>)
      <=> NothingSpecial(key)

=============================================================================
