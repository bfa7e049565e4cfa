---------------------------- MODULE Documented -----------------------------
(***************************************************************************)
(* What the repository's own texts say of its conversions, against what    *)
(* the conversions do: util.Strnstr, ParseDelim, Parse and Unpack.  They   *)
(* share nothing, so each has variables of its own.                        *)
(*                                                                         *)
(* Each takes its steps when the one before has shown what differs from    *)
(* its text, so that one behaviour goes through all the disagreements and  *)
(* its last state has one of every text.                                   *)
(***************************************************************************)
EXTENDS SearchInput, EscapesInput, Pack

CONSTANTS NumberTokens,  \* the pack-format and the data of a second Unpack
          NumberSizes

VARIABLES fSource, fSeen, fLimit, fMade, fLoop, fKey, fUse, fText, fMeant,
          nFmt, nSize, nF, nPrinted, nOutcome

Format == INSTANCE EscapesInput
            WITH source <- fSource, seen <- fSeen, limit <- fLimit, made <- fMade,
                 loop <- fLoop, key <- fKey, use <- fUse, text <- fText, meant <- fMeant

Second == INSTANCE Pack
             WITH fmt <- nFmt, size <- nSize, f <- nF, printed <- nPrinted,
                  outcome <- nOutcome, PackTokens <- NumberTokens,
                  DataSizes <- NumberSizes

formatVars == <<fSource, fSeen, fLimit, fMade, fLoop, fKey, fUse, fText, fMeant>>
numberVars == <<nFmt, nSize, nF, nPrinted, nOutcome>>
docVars == <<searchVars, inputVars, formatVars, packVars, numberVars>>

DocInit ==
  /\ SearchInit /\ PackInit /\ Second!PackInit
  /\ EscapesInit /\ use = "delim"
  /\ Format!EscapesInit /\ fUse = "format"

-----------------------------------------------------------------------------
(***************************************************************************)
(* ParseDelim handles \xNN (buffer.go:12, 31), which usage gives as the    *)
(* form of a byte in -D and -K (root.go:42, 44): two digits are the byte,  *)
(* and what follows them is itself.                                        *)
(***************************************************************************)
DelimHexIsAByte ==
  /\ loop \notin {"writing", "delim"}
  /\ \A j \in DOMAIN text : text[j].k = "hex" => Len(text[j].bs) = 2
  => loop # "rejected" /\ key = meant

(***************************************************************************)
(* The literals of -f can contain \xNN (parser.go:32, 107): two digits are *)
(* the byte, and what follows them is itself.                              *)
(***************************************************************************)
FormatHexIsAByte ==
  /\ fLoop = "done"
  /\ \A j \in DOMAIN fText : fText[j].k = "hex" => Len(fText[j].bs) = 2
  => fMade = fMeant

(***************************************************************************)
(* Unpack supports ' ', '<' and '>' (pack.go:18-21): it goes on to the     *)
(* next token after them, as after any.                                    *)
(***************************************************************************)
TokensPassedOver == outcome # "spins"

(***************************************************************************)
(* Unpack is Python struct-like (pack.go:18): the values are the bytes of  *)
(* the data one after another, from the first one on.                      *)
(***************************************************************************)
ValuesFromTheFirstByte ==
  \A k \in DOMAIN printed : printed[k][1] = IF k = 1 THEN 0 ELSE printed[k - 1][2]

(***************************************************************************)
(* A number that the data is too short for is the error "truncated,        *)
(* expected 4 bytes" or 8 (pack.go:92-140).                                *)
(***************************************************************************)
ShortDataIsTruncated == nOutcome # "outside"

-----------------------------------------------------------------------------
(***************************************************************************)
(* One conversion after the other.                                         *)
(***************************************************************************)
SearchTurn == /\ StrnstrFindsNeedle
              /\ Read
              /\ UNCHANGED <<inputVars, formatVars, packVars, numberVars>>

DelimTurn == /\ ~StrnstrFindsNeedle /\ DelimHexIsAByte
             /\ EscapesNext
             /\ UNCHANGED <<searchVars, formatVars, packVars, numberVars>>

FormatTurn == /\ ~DelimHexIsAByte /\ FormatHexIsAByte
              /\ Format!EscapesNext
              /\ UNCHANGED <<searchVars, inputVars, packVars, numberVars>>

PackTurn == /\ ~FormatHexIsAByte /\ (TokensPassedOver \/ ValuesFromTheFirstByte)
            /\ PackStep
            /\ UNCHANGED <<searchVars, inputVars, formatVars, numberVars>>

NumberTurn == /\ ~TokensPassedOver /\ ~ValuesFromTheFirstByte
              /\ Second!PackStep
              /\ UNCHANGED <<searchVars, inputVars, formatVars, packVars>>

DocNext == SearchTurn \/ DelimTurn \/ FormatTurn \/ PackTurn \/ NumberTurn

DocSpec == DocInit /\ [][DocNext]_docVars

(***************************************************************************)
(* One at least of the texts holds: strnstr.go:3 of util.Strnstr, and the  *)
(* ones above of ParseDelim, Parse and Unpack.                             *)
(* REFUTED: in the last state of the counterexample none of them does.     *)
(***************************************************************************)
SomeConversionAsDocumented ==
  \/ StrnstrFindsNeedle
  \/ DelimHexIsAByte
  \/ FormatHexIsAByte
  \/ TokensPassedOver
  \/ ValuesFromTheFirstByte
  \/ ShortDataIsTruncated

=============================================================================
