--------------------------- MODULE EscapesProofs ----------------------------
(***************************************************************************)
(* ParseDelim and Parse, proved for every text that can be written.        *)
(*                                                                         *)
(* The invariant of a loop places it in the text: it stands where an item  *)
(* begins, and what it has made is what the items before it mean, or, once *)
(* it has read an item in another way, something else that can no longer   *)
(* become the same: shorter, or different in a byte.                       *)
(***************************************************************************)
EXTENDS EscapesInput, SearchProofs

WrittenItem == [k : {"char", "esc", "hex", "fmt"}, bs : Seq(Byte), at : Nat, shown : Nat]

TypeOK ==
  /\ source \in Seq(Nat) /\ made \in Seq(Nat) /\ key \in Seq(Nat) /\ meant \in Seq(Nat)
  /\ seen \in Nat /\ limit \in Nat /\ limit <= Len(source)
  /\ use \in {"delim", "format"} /\ text \in Seq(WrittenItem)
  /\ loop \in {"writing", "delim", "format", "done", "failed", "rejected"}
  /\ loop = "writing" => seen = 0 /\ made = <<>> /\ key = <<>>
  /\ loop \in {"writing", "delim"} => limit = 0

(***************************************************************************)
(* Where item k begins in the source and in the meaning; the place behind  *)
(* the last item is the one of an item that could follow.                  *)
(***************************************************************************)
Begin(k) == IF k <= Len(text) THEN text[k].at ELSE Len(source)
Shown(k) == IF k <= Len(text) THEN text[k].shown ELSE Len(meant)

(***************************************************************************)
(* Item k as it stands there.  A backslash that is a character is the last *)
(* of its literal; a hex escape that could be longer has no digit behind.  *)
(***************************************************************************)
Final(k) == k = Len(text) \/ text[k + 1].k = "fmt"

CharAt(k) ==
  LET a == Begin(k)  c == source[a + 1]
  IN /\ text[k].k = "char" /\ text[k].bs[1] = c
     /\ c = Backslash => Final(k)
     /\ use = "format" => c # Percent
     /\ Begin(k + 1) = a + 1
     /\ Shown(k + 1) = Shown(k) + 1 /\ meant[Shown(k) + 1] = c

EscAt(k) ==
  LET a == Begin(k)  e == source[a + 2]
  IN /\ text[k].k = "esc" /\ text[k].bs[1] = e
     /\ source[a + 1] = Backslash /\ e # LetterX /\ (use = "format" => e # Percent)
     /\ Begin(k + 1) = a + 2
     /\ IF e \in DOMAIN Control
        THEN Shown(k + 1) = Shown(k) + 1 /\ meant[Shown(k) + 1] = Control[e]
        ELSE IF use = "delim"
        THEN /\ Shown(k + 1) = Shown(k) + 2
             /\ meant[Shown(k) + 1] = Backslash /\ meant[Shown(k) + 2] = e
        ELSE Shown(k + 1) = Shown(k) + 1 /\ meant[Shown(k) + 1] = e

NoDigitAt(p) == p <= Len(source) => source[p] \notin HexDigit

PairAt(k) ==
  LET a == Begin(k)
  IN /\ text[k].k = "hex" /\ text[k].bs # <<>>
     /\ source[a + 1] = Backslash /\ source[a + 2] = LetterX
     /\ source[a + 3] \in HexDigit /\ source[a + 4] \in HexDigit
     /\ Begin(k + 1) = a + 4
     /\ Shown(k + 1) = Shown(k) + 1
     /\ meant[Shown(k) + 1] = 16 * HexVal(source[a + 3]) + HexVal(source[a + 4])

SingleAt(k) ==
  LET a == Begin(k)
  IN /\ text[k].k = "hex" /\ text[k].bs # <<>> /\ Len(text[k].bs) = 1
     /\ source[a + 1] = Backslash /\ source[a + 2] = LetterX
     /\ source[a + 3] \in HexDigit /\ NoDigitAt(a + 4)
     /\ Begin(k + 1) = a + 3
     /\ Shown(k + 1) = Shown(k) + 1
     /\ meant[Shown(k) + 1] = HexVal(source[a + 3])

BadAt(k) ==
  LET a == Begin(k)
  IN /\ text[k].k = "hex" /\ text[k].bs = <<>>
     /\ source[a + 1] = Backslash /\ source[a + 2] = LetterX /\ NoDigitAt(a + 3)
     /\ Begin(k + 1) = a + 2
     /\ Shown(k + 1) = Shown(k)

HexAt(k) == PairAt(k) \/ SingleAt(k) \/ BadAt(k)

FmtAt(k) ==
  LET a == Begin(k)
  IN /\ text[k].k = "fmt" /\ use = "format" /\ source[a + 1] = Percent
     /\ IF BadFormatter(text[k])
        THEN /\ Shown(k + 1) = Shown(k)
             /\ \/ Begin(k + 1) = a + 2 /\ ~KnownFormatter(source[a + 2])
                \/ Begin(k + 1) = a + 1 /\ k = Len(text) /\ text[k].bs = <<>>
        ELSE /\ Begin(k + 1) = a + 2 /\ KnownFormatter(source[a + 2])
             /\ Shown(k + 1) = Shown(k) + 1
             /\ meant[Shown(k) + 1] = TokenOf(source[a + 2])

Stands(k) == CharAt(k) \/ EscAt(k) \/ HexAt(k) \/ FmtAt(k)

(***************************************************************************)
(* The items follow each other and leave no byte out, as long as the       *)
(* source is still the text.                                               *)
(***************************************************************************)
Own == use = "format" \/ loop \in {"writing", "delim"}

Placed(k) == /\ Begin(k) \in Nat /\ Begin(k + 1) \in Nat
             /\ Begin(k) < Begin(k + 1) /\ Begin(k + 1) <= Len(source)
             /\ Shown(k) \in Nat /\ Shown(k + 1) \in Nat
             /\ Shown(k) <= Shown(k + 1) /\ Shown(k + 1) <= Len(meant)
             /\ Stands(k)

Marked ==
  /\ Begin(1) = 0 /\ Shown(1) = 0
  /\ \A k \in 1..Len(text) : Placed(k)
  /\ \A k, m \in 1..(Len(text) + 1) : k < m => Begin(k) < Begin(m)
  /\ \A p \in 1..Len(source) : \E k \in 1..Len(text) : Begin(k) < p /\ p <= Begin(k + 1)

Kept == TypeOK /\ (Own => Marked)

WholeBefore(k) == \A j \in 1..(k - 1) : ~BadHex(text[j])

-----------------------------------------------------------------------------
(***************************************************************************)
(* ParseDelim stands where item k begins, and has not passed the digit     *)
(* that a hex escape before it would have swallowed.                       *)
(***************************************************************************)
Swallows(j) == text[j].k = "hex" /\ DigitNext(text[j + 1])

SwallowedBefore(k) == \E j \in 1..(Len(text) - 1) : j + 1 < k /\ Swallows(j)

DelimAt(k) ==
  /\ seen = Begin(k) /\ WholeBefore(k)
  /\ 1 < k /\ k <= Len(text) => ~Swallows(k - 1)
  /\ IF SwallowedBefore(k) THEN Len(made) < Shown(k)
     ELSE Len(made) = Shown(k) /\ \A p \in 1..Shown(k) : made[p] = meant[p]

DelimIInv ==
  /\ loop = "delim" => use = "delim" /\ \E k \in 1..(Len(text) + 1) : DelimAt(k)
  /\ DelimMeans

-----------------------------------------------------------------------------
(***************************************************************************)
(* Parse finds every formatter, whatever resolveEscapes does of a literal: *)
(* the literal ends where a formatter begins, or at the end.               *)
(***************************************************************************)
KnownBefore(k) == \A j \in 1..(k - 1) : ~BadFormatter(text[j])

EndsAt(m) == m = Len(text) + 1 \/ text[m].k = "fmt"

LiteralUpTo(k, m) == \A j \in k..(m - 1) : text[j].k # "fmt"

(***************************************************************************)
(* What has been made of the items before k: a byte was lost, or came out  *)
(* as another, if something literal stands behind a hex escape.            *)
(***************************************************************************)
Loses(j) == text[j].k = "hex" /\ LiteralNext(text[j + 1])

LostBefore(k) == \E j \in 1..(Len(text) - 1) : j + 1 < k /\ Loses(j)

LosesInto(k) == 1 < k /\ k <= Len(text) /\ Loses(k - 1)

Same(k) == Len(made) = Shown(k) /\ \A p \in 1..Shown(k) : made[p] = meant[p]

Other(k) == \/ Len(made) < Shown(k)
            \/ Len(made) = Shown(k) /\ \E p \in 1..Shown(k) : made[p] # meant[p]

Compares(k) == WholeBefore(k) /\ IF LostBefore(k) THEN Other(k) ELSE Same(k)

(***************************************************************************)
(* Within a literal, resolveEscapes stands where an item begins, or on the *)
(* second byte of an escape, or, behind a hex escape, past the end.        *)
(***************************************************************************)
Aligned(k, m) ==
  /\ LiteralUpTo(k, m) /\ Compares(k)
  /\ \/ seen = Begin(k) /\ ~LosesInto(k)
     \/ seen = Begin(k) + 1 /\ k = m
     \/ /\ seen = Begin(k) + 1 /\ 1 < k /\ k < m
        /\ text[k - 1].k = "hex" /\ text[k].k = "esc" /\ text[k].bs[1] # Backslash

FormatAt(k) ==
  /\ seen = Begin(k) /\ KnownBefore(k)
  /\ ~HexBefore(Reread) => Compares(k) /\ ~LosesInto(k)

LiteralAt(m) ==
  /\ limit = Begin(m) /\ KnownBefore(m) /\ EndsAt(m)
  /\ ~HexBefore(Reread) => \E k \in 1..m : Aligned(k, m)

FormatIInv ==
  /\ use = "format" /\ loop = "format" =>
       \E k \in 1..(Len(text) + 1) : IF limit = 0 THEN FormatAt(k) ELSE LiteralAt(k)
  /\ FormatMeans

-----------------------------------------------------------------------------
(***************************************************************************)
(* The default format: %k, the n bytes of the key delimiter, %s and a      *)
(* newline.  Up to the first special byte the delimiter is made as it is,  *)
(* one byte behind what was read.  Every formatter and every escape from   *)
(* there on takes two bytes or more and makes one, so that two bytes or    *)
(* more are missing when %s is reached, and the result is too short; or    *)
(* the % of %s was read as the end of %%, and the s comes out as it is.    *)
(***************************************************************************)
LaidOut(f, k) ==
  LET n == Len(k)
  IN /\ f \in Seq(Nat) /\ Len(f) = n + 5
     /\ f[1] = Percent /\ f[2] = 107
     /\ \A j \in 1..n : f[2 + j] = k[j]
     /\ f[n + 3] = Percent /\ f[n + 4] = 115 /\ f[n + 5] = Newline

KeySource == LaidOut(source, key)

AsItIs(j) == /\ key[j] # Percent
             /\ key[j] = Backslash => j = Len(key) \/ key[j + 1] = Percent

Verbatim ==
  LET n == Len(key)
  IN /\ 2 <= seen /\ seen <= n + 2 /\ Len(made) = seen - 1
     /\ made[1] = Formatter + 107
     /\ \A j \in 1..(seen - 2) : made[j + 1] = key[j] /\ AsItIs(j)
     /\ limit # 0 => /\ seen <= limit /\ limit <= n + 2
                     /\ limit < n + 2 => key[limit - 1] = Percent
                     /\ \A j \in (seen - 1)..(limit - 2) : key[j] # Percent

Gapped ==
  /\ ~NothingSpecial(key)
  /\ 2 <= seen /\ Len(made) + 2 <= seen
  /\ IF limit = 0 THEN seen <= Len(key) + 2
     ELSE limit <= Len(key) + 2 /\ Len(made) + 2 <= limit

KeyShown ==
  LET n == Len(key)
  IN /\ NothingSpecial(key)
     /\ seen \in {n + 4, n + 5} /\ limit \in {0, n + 5} /\ Len(made) = seen - 2
     /\ made[1] = Formatter + 107 /\ made[n + 2] = Formatter + 115
     /\ \A j \in 1..n : made[j + 1] = key[j]
     /\ seen = n + 5 => made[n + 3] = Newline

KeyBehind ==
  LET n == Len(key)
  IN /\ ~NothingSpecial(key)
     /\ seen \in {n + 3, n + 4, n + 5} /\ limit \in {0, n + 5}
     /\ \/ Len(made) + 3 <= seen
        \/ Len(made) + 2 = seen /\ (seen >= n + 4 => made[n + 2] = 115)

KeyIInv ==
  /\ use = "delim" /\ loop = "format" =>
       /\ KeySource
       /\ \/ seen = 0 /\ limit = 0 /\ made = <<>>
          \/ Verbatim \/ Gapped \/ KeyShown \/ KeyBehind
  /\ KeyDelimShown

-----------------------------------------------------------------------------
(***************************************************************************)
(* One and two more elements of a sequence.                                *)
(***************************************************************************)
LEMMA OneMore ==
  ASSUME NEW s \in Seq(Nat), NEW c \in Nat
  PROVE  /\ s \o <<c>> \in Seq(Nat) /\ Len(s \o <<c>>) = Len(s) + 1
         /\ \A p \in 1..Len(s) : (s \o <<c>>)[p] = s[p]
         /\ (s \o <<c>>)[Len(s) + 1] = c
BY AppendProperties, AppendIsConcat

LEMMA TwoMore ==
  ASSUME NEW s \in Seq(Nat), NEW c \in Nat, NEW d \in Nat
  PROVE  /\ s \o <<c, d>> \in Seq(Nat) /\ Len(s \o <<c, d>>) = Len(s) + 2
         /\ \A p \in 1..Len(s) : (s \o <<c, d>>)[p] = s[p]
         /\ (s \o <<c, d>>)[Len(s) + 1] = c /\ (s \o <<c, d>>)[Len(s) + 2] = d
<1> DEFINE t == <<c, d>>
<1>1. t \in Seq(Nat) /\ Len(t) = 2 /\ t[1] = c /\ t[2] = d
  OBVIOUS
<1>2. Len(s) \in Nat
  BY LenProperties
<1> HIDE DEF t
<1>3. /\ s \o t \in Seq(Nat) /\ Len(s \o t) = Len(s) + Len(t)
      /\ \A i \in 1..(Len(s) + Len(t)) : (s \o t)[i] = IF i <= Len(s) THEN s[i] ELSE t[i - Len(s)]
  BY <1>1, ConcatProperties
<1>4. /\ s \o t \in Seq(Nat) /\ Len(s \o t) = Len(s) + 2
      /\ \A p \in 1..Len(s) : (s \o t)[p] = s[p]
      /\ (s \o t)[Len(s) + 1] = c /\ (s \o t)[Len(s) + 2] = d
  <2>1. /\ (s \o t)[Len(s) + 1] = t[Len(s) + 1 - Len(s)]
        /\ (s \o t)[Len(s) + 2] = t[Len(s) + 2 - Len(s)]
    BY <1>1, <1>2, <1>3
  <2>2. Len(s) + 1 - Len(s) = 1 /\ Len(s) + 2 - Len(s) = 2
    BY <1>2
  <2>3. \A p \in 1..Len(s) : (s \o t)[p] = s[p]
    BY <1>1, <1>2, <1>3
  <2> QED
    BY <1>1, <1>3, <2>1, <2>2, <2>3
<1> QED
  BY <1>4 DEF t

LEMMA Joined ==
  ASSUME NEW a \in Nat, NEW b \in Nat, NEW c \in Nat, NEW d \in Nat
  PROVE  /\ <<a>> \o <<b>> = <<a, b>> /\ <<a, b>> \o <<c, d>> = <<a, b, c, d>>
         /\ <<a, b>> \o <<c>> = <<a, b, c>>
         /\ <<a>> \o <<>> = <<a>> /\ <<a, b>> \o <<>> = <<a, b>>
<1>1. <<a>> \in Seq(Nat) /\ Len(<<a>>) = 1 /\ <<a>>[1] = a
  OBVIOUS
<1>2. <<a, b>> \in Seq(Nat) /\ Len(<<a, b>>) = 2 /\ <<a, b>>[1] = a /\ <<a, b>>[2] = b
  OBVIOUS
<1>3. /\ <<a, b, c, d>> \in Seq(Nat) /\ Len(<<a, b, c, d>>) = 4
      /\ <<a, b, c, d>>[1] = a /\ <<a, b, c, d>>[2] = b
      /\ <<a, b, c, d>>[3] = c /\ <<a, b, c, d>>[4] = d
  OBVIOUS
<1>4. <<a>> \o <<b>> = <<a, b>>
  <2> DEFINE s == <<a>>
             t == <<a, b>>
             u == s \o <<b>>
  <2>1. /\ u \in Seq(Nat) /\ Len(u) = Len(s) + 1 /\ u[Len(s) + 1] = b
        /\ \A p \in 1..Len(s) : u[p] = s[p]
    BY <1>1, OneMore
  <2> HIDE DEF s, t, u
  <2>2. s \in Seq(Nat) /\ Len(s) = 1 /\ s[1] = a
    BY <1>1 DEF s
  <2>3. t \in Seq(Nat) /\ Len(t) = 2 /\ t[1] = a /\ t[2] = b
    BY <1>2 DEF t
  <2>4. u = t
    BY <2>1, <2>2, <2>3, SeqEqual, SMTT(30)
  <2> QED
    BY <2>4 DEF s, t, u
<1>5. <<a, b>> \o <<c, d>> = <<a, b, c, d>>
  <2> DEFINE s == <<a, b>>
             t == <<a, b, c, d>>
             u == s \o <<c, d>>
  <2>1. /\ u \in Seq(Nat) /\ Len(u) = Len(s) + 2
        /\ u[Len(s) + 1] = c /\ u[Len(s) + 2] = d
        /\ \A p \in 1..Len(s) : u[p] = s[p]
    BY <1>2, TwoMore
  <2> HIDE DEF s, t, u
  <2>2. s \in Seq(Nat) /\ Len(s) = 2 /\ s[1] = a /\ s[2] = b
    BY <1>2 DEF s
  <2>3. t \in Seq(Nat) /\ Len(t) = 4 /\ t[1] = a /\ t[2] = b /\ t[3] = c /\ t[4] = d
    BY <1>3 DEF t
  <2>4. Len(u) = 4 /\ u[1] = a /\ u[2] = b /\ u[3] = c /\ u[4] = d
    BY <2>1, <2>2
  <2>5. \A i \in 1..Len(u) : u[i] = t[i]
    BY <2>3, <2>4
  <2>6. u = t
    BY <2>1, <2>3, <2>4, <2>5, SeqEqual
  <2> QED
    BY <2>6 DEF s, t, u
<1>6. <<a>> \o <<>> = <<a>> /\ <<a, b>> \o <<>> = <<a, b>>
  BY <1>1, <1>2, ConcatEmptySeq
<1>7. <<a, b>> \o <<c>> = <<a, b, c>>
  <2> DEFINE s == <<a, b>>
             t == <<a, b, c>>
             u == s \o <<c>>
  <2>1. /\ u \in Seq(Nat) /\ Len(u) = Len(s) + 1 /\ u[Len(s) + 1] = c
        /\ \A p \in 1..Len(s) : u[p] = s[p]
    BY <1>2, OneMore
  <2>2. t \in Seq(Nat) /\ Len(t) = 3 /\ t[1] = a /\ t[2] = b /\ t[3] = c
    OBVIOUS
  <2> HIDE DEF s, t, u
  <2>3. s \in Seq(Nat) /\ Len(s) = 2 /\ s[1] = a /\ s[2] = b
    BY <1>2 DEF s
  <2>4. Len(u) = 3 /\ u[1] = a /\ u[2] = b /\ u[3] = c
    BY <2>1, <2>3
  <2>5. \A i \in 1..Len(u) : u[i] = t[i]
    BY <2>2, <2>4
  <2>6. u = t
    BY <2>1, <2>2, <2>4, <2>5, SeqEqual
  <2> QED
    BY <2>6 DEF s, t, u
<1> QED
  BY <1>4, <1>5, <1>6, <1>7

LEMMA ThreeMore ==
  ASSUME NEW s \in Seq(Nat), NEW a \in Nat, NEW b \in Nat, NEW c \in Nat
  PROVE  LET t == s \o <<a, b, c>> IN
         /\ t \in Seq(Nat) /\ Len(t) = Len(s) + 3
         /\ \A p \in 1..Len(s) : t[p] = s[p]
         /\ t[Len(s) + 1] = a /\ t[Len(s) + 2] = b /\ t[Len(s) + 3] = c
<1> DEFINE u == s \o <<a, b>>
           t == s \o <<a, b, c>>
<1>1. /\ u \in Seq(Nat) /\ Len(u) = Len(s) + 2
      /\ \A p \in 1..Len(s) : u[p] = s[p]
      /\ u[Len(s) + 1] = a /\ u[Len(s) + 2] = b
  BY TwoMore
<1>2. t = u \o <<c>>
  <2>1. <<a, b>> \in Seq(Nat) /\ <<c>> \in Seq(Nat) /\ <<a, b, c>> = <<a, b>> \o <<c>>
    BY Joined
  <2>2. \A x, y \in Seq(Nat) : s \o (x \o y) = (s \o x) \o y
    BY ConcatAssociative, SMTT(30)
  <2> QED
    BY <2>1, <2>2
<1>3. Len(s) \in Nat
  BY LenProperties
<1> HIDE DEF u
<1>4. /\ u \o <<c>> \in Seq(Nat) /\ Len(u \o <<c>>) = Len(u) + 1
      /\ \A p \in 1..Len(u) : (u \o <<c>>)[p] = u[p]
      /\ (u \o <<c>>)[Len(u) + 1] = c
  BY <1>1, OneMore, SMTT(30)
<1> HIDE DEF t
<1>5. /\ t \in Seq(Nat) /\ Len(t) = Len(s) + 3
      /\ \A p \in 1..Len(s) : t[p] = s[p]
      /\ t[Len(s) + 1] = a /\ t[Len(s) + 2] = b /\ t[Len(s) + 3] = c
  BY <1>1, <1>2, <1>3, <1>4
<1> QED
  BY <1>5 DEF t

LEMMA FourMore ==
  ASSUME NEW s \in Seq(Nat), NEW a \in Nat, NEW b \in Nat, NEW c \in Nat, NEW d \in Nat
  PROVE  LET t == s \o <<a, b, c, d>> IN
         /\ t \in Seq(Nat) /\ Len(t) = Len(s) + 4
         /\ \A p \in 1..Len(s) : t[p] = s[p]
         /\ t[Len(s) + 1] = a /\ t[Len(s) + 2] = b
         /\ t[Len(s) + 3] = c /\ t[Len(s) + 4] = d
<1> DEFINE u == s \o <<a, b>>
           t == s \o <<a, b, c, d>>
<1>1. /\ u \in Seq(Nat) /\ Len(u) = Len(s) + 2
      /\ \A p \in 1..Len(s) : u[p] = s[p]
      /\ u[Len(s) + 1] = a /\ u[Len(s) + 2] = b
  BY TwoMore
<1>2. t = u \o <<c, d>>
  <2>1. <<a, b>> \in Seq(Nat) /\ <<c, d>> \in Seq(Nat) /\ <<a, b, c, d>> = <<a, b>> \o <<c, d>>
    BY Joined
  <2>2. \A x, y \in Seq(Nat) : s \o (x \o y) = (s \o x) \o y
    BY ConcatAssociative, SMTT(30)
  <2> QED
    BY <2>1, <2>2
<1>3. Len(s) \in Nat
  BY LenProperties
<1> HIDE DEF u
<1>4. /\ u \o <<c, d>> \in Seq(Nat) /\ Len(u \o <<c, d>>) = Len(u) + 2
      /\ \A p \in 1..Len(u) : (u \o <<c, d>>)[p] = u[p]
      /\ (u \o <<c, d>>)[Len(u) + 1] = c /\ (u \o <<c, d>>)[Len(u) + 2] = d
  BY <1>1, TwoMore, SMTT(30)
<1> HIDE DEF t
<1>5. /\ t \in Seq(Nat) /\ Len(t) = Len(s) + 4
      /\ \A p \in 1..Len(s) : t[p] = s[p]
      /\ t[Len(s) + 1] = a /\ t[Len(s) + 2] = b
      /\ t[Len(s) + 3] = c /\ t[Len(s) + 4] = d
  <2>1. t[Len(s) + 3] = c /\ t[Len(s) + 4] = d
    <3>1. Len(u) + 1 = Len(s) + 3 /\ Len(u) + 2 = Len(s) + 4
      BY <1>1, <1>3
    <3> QED
      BY <1>2, <1>4, <3>1
  <2> QED
    BY <1>1, <1>2, <1>3, <1>4, <2>1
<1> QED
  BY <1>5 DEF t

(***************************************************************************)
(* The number of hex digits is the n that cannot be exceeded.              *)
(***************************************************************************)
LEMMA RunIs ==
  ASSUME NEW from \in Nat, NEW end \in Nat, NEW most \in Nat, NEW n \in 0..most,
         from + n <= end, \A j \in 1..n : source[from + j] \in HexDigit,
         n = most \/ from + n = end \/ source[from + n + 1] \notin HexDigit
  PROVE  HexRun(from, end, most) = n
<1> DEFINE S == {k \in 0..most : /\ from + k <= end
                                 /\ \A j \in 1..k : source[from + j] \in HexDigit}
<1>1. n \in S
  OBVIOUS
<1>2. ASSUME NEW k \in S PROVE k <= n
  <2>1. SUFFICES ASSUME k > n PROVE FALSE
    OBVIOUS
  <2>2. n # most /\ from + n # end /\ n + 1 \in 1..k
    BY <2>1
  <2>3. source[from + (n + 1)] \in HexDigit
    BY <2>2
  <2>4. from + (n + 1) = from + n + 1
    OBVIOUS
  <2> QED
    BY <2>2, <2>3, <2>4
<1>3. \A x \in S : (\A y \in S : x >= y) => x = n
  BY <1>1, <1>2
<1> HIDE DEF S
<1>4. Max(S) = n
  <2>1. \A y \in S : n >= y
    <3>1. S \subseteq Nat
      BY DEF S
    <3> QED
      BY <1>2, <3>1
  <2> QED
    BY <1>1, <1>3, <2>1 DEF Max
<1> QED
  BY <1>4 DEF HexRun, S

(***************************************************************************)
(* In general it is some number of them, within the bounds.                *)
(***************************************************************************)
LEMMA RunBounded ==
  ASSUME NEW from \in Nat, NEW end \in Nat, NEW most \in Nat, from <= end
  PROVE  LET n == HexRun(from, end, most) IN
         /\ n \in 0..most /\ from + n <= end
         /\ \A j \in 1..n : source[from + j] \in HexDigit
<1> DEFINE Fit(k) == /\ from + k <= end
                     /\ \A j \in 1..k : source[from + j] \in HexDigit
           left == {most - k : k \in {n \in 0..most : Fit(n)}}
<1>1. Fit(0)
  OBVIOUS
<1>2. left \in SUBSET Nat /\ left # {}
  <2>1. 0 \in {n \in 0..most : Fit(n)}
    BY <1>1
  <2> HIDE DEF Fit
  <2> QED
    BY <2>1
<1> HIDE DEF Fit
<1>3. Min(left) \in left /\ \A l \in left : Min(left) <= l
  BY <1>2, MinOfNat
<1>4. PICK n \in 0..most : Fit(n) /\ \A k \in 0..most : Fit(k) => most - n <= most - k
  <2>1. PICK n \in 0..most : Fit(n) /\ Min(left) = most - n
    BY <1>3
  <2>2. \A k \in 0..most : Fit(k) => most - k \in left
    OBVIOUS
  <2> QED
    BY <2>1, <2>2, <1>3
<1> DEFINE S == {k \in 0..most : Fit(k)}
<1>5. n \in S /\ \A k \in S : n >= k
  BY <1>4
<1> HIDE DEF S
<1>6. Max(S) \in S
  BY <1>5 DEF Max
<1>7. HexRun(from, end, most) \in S
  BY <1>6 DEF HexRun, S, Fit
<1> QED
  BY <1>7 DEF S, Fit

-----------------------------------------------------------------------------
(***************************************************************************)
(* The items that can be written, what they look like and what they mean.  *)
(***************************************************************************)
CharOf(w, c) == w.k = "char" /\ w.bs = <<c>> /\ (use = "format" => c # Percent)
EscOf(w, c) == w.k = "esc" /\ w.bs = <<c>> /\ c # LetterX /\ (use = "format" => c # Percent)
HexOf(w, c, d) == w.k = "hex" /\ w.bs = <<c, d>>
ShortHexOf(w, c) == w.k = "hex" /\ w.bs = <<c>>
OpenHex(w) == w.k = "hex" /\ w.bs = <<>>
FmtOf(w, c) == w.k = "fmt" /\ w.bs = <<c>> /\ use = "format"
OpenFmt(w) == w.k = "fmt" /\ w.bs = <<>> /\ use = "format"

Writable == IF use = "delim" THEN DelimItems ELSE FormatItems

LEMMA ItemIs ==
  ASSUME NEW w \in Writable, use \in {"delim", "format"}
  PROVE  \/ \E c \in Byte : CharOf(w, c)
         \/ \E c \in Byte : EscOf(w, c)
         \/ \E c, d \in HexDigit : HexOf(w, c, d)
         \/ \E c \in HexDigit : ShortHexOf(w, c)
         \/ OpenHex(w)
         \/ \E c \in Byte : FmtOf(w, c)
         \/ OpenFmt(w)
<1>1. CASE use = "delim"
  <2>1. w \in Chars({}) \cup EscapedChars({LetterX}) \cup HexEscapes
    BY <1>1, EscapesAssumption DEF Writable
  <2>2. CASE w \in Chars({})
    BY <1>1, <2>2 DEF Chars, Item, CharOf
  <2>3. CASE w \in EscapedChars({LetterX})
    BY <1>1, <2>3 DEF EscapedChars, Item, EscOf
  <2>4. CASE w \in HexEscapes
    BY <2>4 DEF HexEscapes, Item, HexOf, ShortHexOf, OpenHex
  <2> QED
    BY <2>1, <2>2, <2>3, <2>4
<1>2. CASE use = "format"
  <2>1. w \in Chars({Percent}) \cup EscapedChars({LetterX, Percent})
                \cup HexEscapes \cup Formatters
    BY <1>2, EscapesAssumption DEF Writable
  <2>2. CASE w \in Chars({Percent})
    BY <2>2 DEF Chars, Item, CharOf
  <2>3. CASE w \in EscapedChars({LetterX, Percent})
    BY <2>3 DEF EscapedChars, Item, EscOf
  <2>4. CASE w \in HexEscapes
    BY <2>4 DEF HexEscapes, Item, HexOf, ShortHexOf, OpenHex
  <2>5. CASE w \in Formatters
    BY <2>5, <1>2 DEF Formatters, Item, FmtOf, OpenFmt
  <2> QED
    BY <2>1, <2>2, <2>3, <2>4, <2>5
<1> QED
  BY <1>1, <1>2

LEMMA Special ==
  /\ Percent \in Nat /\ Backslash \in Nat /\ LetterX \in Nat /\ Newline \in Nat
  /\ Percent # Backslash
BY DEF Percent, Backslash, LetterX, Newline

LEMMA SpelledAndMeant ==
  ASSUME NEW w
  PROVE  /\ \A c \in Nat : CharOf(w, c) => Spelled(w) = <<c>> /\ Meant(w) = <<c>>
         /\ \A c \in Nat : EscOf(w, c) =>
              /\ Spelled(w) = <<Backslash, c>>
              /\ Meant(w) = IF c \in DOMAIN Control THEN <<Control[c]>>
                            ELSE IF use = "delim" THEN <<Backslash, c>> ELSE <<c>>
         /\ \A c, d \in Nat : HexOf(w, c, d) =>
              /\ Spelled(w) = <<Backslash, LetterX, c, d>>
              /\ Meant(w) = <<16 * HexVal(c) + HexVal(d)>>
         /\ \A c \in Nat : ShortHexOf(w, c) =>
              Spelled(w) = <<Backslash, LetterX, c>> /\ Meant(w) = <<HexVal(c)>>
         /\ OpenHex(w) => Spelled(w) = <<Backslash, LetterX>> /\ Meant(w) = <<>>
         /\ \A c \in Nat : FmtOf(w, c) =>
              /\ Spelled(w) = <<Percent, c>>
              /\ BadFormatter(w) <=> ~KnownFormatter(c)
              /\ Meant(w) = IF ~KnownFormatter(c) THEN <<>> ELSE <<TokenOf(c)>>
         /\ OpenFmt(w) => Spelled(w) = <<Percent>> /\ BadFormatter(w) /\ Meant(w) = <<>>
<1>1. ASSUME NEW c \in Nat, CharOf(w, c)
      PROVE  Spelled(w) = <<c>> /\ Meant(w) = <<c>>
  BY <1>1 DEF CharOf, Spelled, Meant
<1>2. ASSUME NEW c \in Nat, EscOf(w, c)
      PROVE  /\ Spelled(w) = <<Backslash, c>>
             /\ Meant(w) = IF c \in DOMAIN Control THEN <<Control[c]>>
                           ELSE IF use = "delim" THEN <<Backslash, c>> ELSE <<c>>
  <2>1. w.bs = <<c>> /\ w.bs[1] = c
    BY <1>2 DEF EscOf
  <2>2. Spelled(w) = <<Backslash>> \o w.bs
    BY <1>2 DEF EscOf, Spelled
  <2>3. Meant(w) = IF w.bs[1] \in DOMAIN Control THEN <<Control[w.bs[1]]>>
                   ELSE IF use = "delim" THEN <<Backslash>> \o w.bs ELSE w.bs
    BY <1>2 DEF EscOf, Meant
  <2>4. <<Backslash>> \o <<c>> = <<Backslash, c>>
    BY Joined, Special
  <2> QED
    BY <2>1, <2>2, <2>3, <2>4
<1>3. ASSUME NEW c \in Nat, NEW d \in Nat, HexOf(w, c, d)
      PROVE  /\ Spelled(w) = <<Backslash, LetterX, c, d>>
             /\ Meant(w) = <<16 * HexVal(c) + HexVal(d)>>
  <2>1. /\ w.bs = <<c, d>> /\ w.bs[1] = c /\ w.bs[2] = d
        /\ w.bs # <<>> /\ Len(w.bs) # 1
    BY <1>3 DEF HexOf
  <2>2. Spelled(w) = <<Backslash, LetterX>> \o w.bs
    BY <1>3 DEF HexOf, Spelled
  <2>3. Meant(w) = <<16 * HexVal(w.bs[1]) + HexVal(w.bs[2])>>
    BY <1>3, <2>1 DEF HexOf, Meant
  <2>4. <<Backslash, LetterX>> \o <<c, d>> = <<Backslash, LetterX, c, d>>
    <3>1. \A a, b \in Nat : <<a, b>> \o <<c, d>> = <<a, b, c, d>>
      BY Joined, ZenonT(30)
    <3> QED
      BY <3>1, Special
  <2> QED
    BY <2>1, <2>2, <2>3, <2>4
<1>4. ASSUME NEW c \in Nat, FmtOf(w, c)
      PROVE  /\ Spelled(w) = <<Percent, c>>
             /\ BadFormatter(w) <=> ~KnownFormatter(c)
             /\ Meant(w) = IF ~KnownFormatter(c) THEN <<>> ELSE <<TokenOf(c)>>
  <2>1. w.bs = <<c>> /\ w.bs[1] = c /\ w.bs # <<>>
    BY <1>4 DEF FmtOf
  <2>2. Spelled(w) = <<Percent>> \o w.bs
    BY <1>4 DEF FmtOf, Spelled
  <2>3. Meant(w) = IF BadFormatter(w) THEN <<>> ELSE <<TokenOf(w.bs[1])>>
    BY <1>4 DEF FmtOf, Meant
  <2>4. <<Percent>> \o <<c>> = <<Percent, c>>
    BY Joined, Special
  <2>5. BadFormatter(w) <=> ~KnownFormatter(c)
    BY <1>4, <2>1 DEF BadFormatter, FmtOf
  <2> QED
    BY <2>1, <2>2, <2>3, <2>4, <2>5
<1>5. ASSUME OpenFmt(w)
      PROVE  Spelled(w) = <<Percent>> /\ BadFormatter(w) /\ Meant(w) = <<>>
  <2>1. w.bs = <<>> /\ BadFormatter(w)
    BY <1>5 DEF OpenFmt, BadFormatter
  <2>2. Spelled(w) = <<Percent>> \o w.bs
    BY <1>5 DEF OpenFmt, Spelled
  <2>3. Meant(w) = <<>>
    BY <1>5, <2>1 DEF OpenFmt, Meant
  <2>4. <<Percent>> \o <<>> = <<Percent>>
    BY Joined, Special
  <2> QED
    BY <2>1, <2>2, <2>3, <2>4
<1>6. ASSUME NEW c \in Nat, ShortHexOf(w, c)
      PROVE  Spelled(w) = <<Backslash, LetterX, c>> /\ Meant(w) = <<HexVal(c)>>
  <2>1. w.bs = <<c>> /\ w.bs[1] = c /\ w.bs # <<>> /\ Len(w.bs) = 1
    BY <1>6 DEF ShortHexOf
  <2>2. Spelled(w) = <<Backslash, LetterX>> \o w.bs
    BY <1>6 DEF ShortHexOf, Spelled
  <2>3. Meant(w) = <<HexVal(w.bs[1])>>
    BY <1>6, <2>1 DEF ShortHexOf, Meant
  <2>4. <<Backslash, LetterX>> \o <<c>> = <<Backslash, LetterX, c>>
    <3>1. \A a, b \in Nat : <<a, b>> \o <<c>> = <<a, b, c>>
      BY Joined, ZenonT(30)
    <3> QED
      BY <3>1, Special
  <2> QED
    BY <2>1, <2>2, <2>3, <2>4
<1>7. ASSUME OpenHex(w)
      PROVE  Spelled(w) = <<Backslash, LetterX>> /\ Meant(w) = <<>>
  <2>1. w.bs = <<>> /\ Meant(w) = <<>>
    BY <1>7 DEF OpenHex, Meant
  <2>2. Spelled(w) = <<Backslash, LetterX>> \o w.bs
    BY <1>7 DEF OpenHex, Spelled
  <2>3. <<Backslash, LetterX>> \o <<>> = <<Backslash, LetterX>>
    <3>1. \A a, b \in Nat : <<a, b>> \o <<>> = <<a, b>>
      BY Joined, ZenonT(30)
    <3> QED
      BY <3>1, Special
  <2> QED
    BY <2>1, <2>2, <2>3
<1> QED
  BY <1>1, <1>2, <1>3, <1>4, <1>5, <1>6, <1>7

-----------------------------------------------------------------------------
(***************************************************************************)
(* Writing an item: it stands behind the others, which stay where they     *)
(* are.  n, a and s are the lengths before it.                             *)
(***************************************************************************)
LEMMA NewItem ==
  ASSUME TypeOK, NEW w \in Writable, Write(w),
         NEW n \in Nat, NEW a \in Nat, NEW s \in Nat,
         n = Len(text), a = Len(source), s = Len(meant)
  PROVE  /\ text' \in Seq(WrittenItem) /\ Len(text') = n + 1
         /\ \A k \in 1..n : text'[k] = text[k]
         /\ text'[n + 1].at = a /\ text'[n + 1].shown = s
         /\ source' \in Seq(Nat) /\ Len(source') > a
         /\ \A p \in 1..a : source'[p] = source[p]
         /\ meant' \in Seq(Nat) /\ Len(meant') >= s
         /\ \A p \in 1..s : meant'[p] = meant[p]
         /\ Stands(n + 1)'
         /\ text'[n + 1].k = w.k /\ text'[n + 1].bs = w.bs
         /\ source'[a + 1] \in HexDigit => DigitNext(w)
<1> DEFINE it == [k |-> w.k, bs |-> w.bs, at |-> a, shown |-> s]
<1>1. /\ source \in Seq(Nat) /\ meant \in Seq(Nat) /\ text \in Seq(WrittenItem)
      /\ use \in {"delim", "format"} /\ use' = use
      /\ text' = Append(text, it)
      /\ source' = source \o Spelled(w) /\ meant' = meant \o Meant(w)
  BY DEF TypeOK, Write
<1>2. \/ \E c \in Byte : CharOf(w, c)
      \/ \E c \in Byte : EscOf(w, c)
      \/ \E c, d \in HexDigit : HexOf(w, c, d)
      \/ \E c \in HexDigit : ShortHexOf(w, c)
      \/ OpenHex(w)
      \/ \E c \in Byte : FmtOf(w, c)
      \/ OpenFmt(w)
  BY <1>1, ItemIs
<1>b. Byte \subseteq Nat /\ HexDigit \subseteq Byte
  BY DEF Byte, HexDigit
<1>3. w.k \in {"char", "esc", "hex", "fmt"} /\ w.bs \in Seq(Byte)
  <2>1. CASE \E c \in Byte : CharOf(w, c)
    BY <2>1 DEF CharOf
  <2>2. CASE \E c \in Byte : EscOf(w, c)
    BY <2>2 DEF EscOf
  <2>3. CASE \E c, d \in HexDigit : HexOf(w, c, d)
    <3>1. PICK c \in Byte, d \in Byte : HexOf(w, c, d)
      BY <2>3, <1>b
    <3> QED
      BY <3>1 DEF HexOf
  <2>4. CASE \E c \in Byte : FmtOf(w, c)
    BY <2>4 DEF FmtOf
  <2>5. CASE OpenFmt(w) \/ OpenHex(w)
    BY <2>5, EmptySeq DEF OpenFmt, OpenHex
  <2>6. CASE \E c \in HexDigit : ShortHexOf(w, c)
    BY <2>6, <1>b DEF ShortHexOf
  <2> QED
    BY <1>2, <2>1, <2>2, <2>3, <2>4, <2>5, <2>6
<1>4. it \in WrittenItem
  BY <1>3 DEF WrittenItem
<1>5. /\ text' \in Seq(WrittenItem) /\ Len(text') = n + 1
      /\ \A k \in 1..n : text'[k] = text[k]
      /\ text'[n + 1] = it
  <2> HIDE DEF it
  <2> QED
    BY <1>1, <1>4, AppendProperties
<1>6. /\ text'[n + 1].at = a /\ text'[n + 1].shown = s
      /\ text'[n + 1].k = w.k /\ text'[n + 1].bs = w.bs
  BY <1>5
<1>7. /\ Begin(n + 1)' = a /\ Begin(n + 1 + 1)' = Len(source')
      /\ Shown(n + 1)' = s /\ Shown(n + 1 + 1)' = Len(meant')
  BY <1>5, <1>6 DEF Begin, Shown
<1> HIDE DEF it
<1> DEFINE Facts == /\ source' \in Seq(Nat) /\ Len(source') > a
                    /\ \A p \in 1..a : source'[p] = source[p]
                    /\ meant' \in Seq(Nat) /\ Len(meant') >= s
                    /\ \A p \in 1..s : meant'[p] = meant[p]
                    /\ Stands(n + 1)'
                    /\ source'[a + 1] \in HexDigit => DigitNext(w)
<1>m. Backslash \notin HexDigit /\ Percent \notin HexDigit
  BY DEF HexDigit, Backslash, Percent
<1>8. ASSUME NEW c \in Byte, CharOf(w, c) PROVE Facts
  <2>1. source' = source \o <<c>> /\ meant' = meant \o <<c>> /\ c \in Nat
    BY <1>1, <1>8, <1>b, SpelledAndMeant
  <2>2. /\ source' \in Seq(Nat) /\ Len(source') = a + 1 /\ source'[a + 1] = c
        /\ \A p \in 1..a : source'[p] = source[p]
    BY <1>1, <2>1, OneMore
  <2>3. /\ meant' \in Seq(Nat) /\ Len(meant') = s + 1 /\ meant'[s + 1] = c
        /\ \A p \in 1..s : meant'[p] = meant[p]
    BY <1>1, <2>1, OneMore
  <2>4. /\ w.k = "char" /\ w.bs[1] = c
        /\ use = "format" => c # Percent
    BY <1>8 DEF CharOf
  <2>5. CharAt(n + 1)'
    BY <1>1, <1>5, <1>6, <1>7, <2>2, <2>3, <2>4 DEF CharAt, Final
  <2>6. source'[a + 1] \in HexDigit => DigitNext(w)
    BY <2>2, <2>4 DEF DigitNext
  <2> QED
    BY <2>2, <2>3, <2>5, <2>6 DEF Stands
<1>9. ASSUME NEW c \in Byte, EscOf(w, c) PROVE Facts
  <2>1. /\ source' = source \o <<Backslash, c>> /\ c \in Nat
        /\ meant' = meant \o IF c \in DOMAIN Control THEN <<Control[c]>>
                             ELSE IF use = "delim" THEN <<Backslash, c>> ELSE <<c>>
    BY <1>1, <1>9, <1>b, SpelledAndMeant
  <2>2. /\ source' \in Seq(Nat) /\ Len(source') = a + 2
        /\ source'[a + 1] = Backslash /\ source'[a + 2] = c
        /\ \A p \in 1..a : source'[p] = source[p]
    BY <1>1, <2>1, TwoMore, Special
  <2>3. /\ meant' \in Seq(Nat)
        /\ \A p \in 1..s : meant'[p] = meant[p]
        /\ IF c \in DOMAIN Control THEN Len(meant') = s + 1 /\ meant'[s + 1] = Control[c]
           ELSE IF use = "delim"
           THEN Len(meant') = s + 2 /\ meant'[s + 1] = Backslash /\ meant'[s + 2] = c
           ELSE Len(meant') = s + 1 /\ meant'[s + 1] = c
    <3>1. CASE c \in DOMAIN Control
      <4>1. Control[c] \in Nat
        BY <3>1 DEF Control
      <4> QED
        BY <1>1, <2>1, <3>1, <4>1, OneMore
    <3>2. CASE c \notin DOMAIN Control /\ use = "delim"
      BY <1>1, <2>1, <3>2, TwoMore, Special
    <3>3. CASE c \notin DOMAIN Control /\ use # "delim"
      BY <1>1, <2>1, <3>3, OneMore
    <3> QED
      BY <3>1, <3>2, <3>3
  <2>4. /\ w.k = "esc" /\ w.bs[1] = c
        /\ c # LetterX /\ (use = "format" => c # Percent)
    BY <1>9 DEF EscOf
  <2>5. EscAt(n + 1)'
    BY <1>1, <1>6, <1>7, <2>2, <2>3, <2>4 DEF EscAt
  <2> QED
    BY <1>m, <2>2, <2>3, <2>5 DEF Stands
<1>10. ASSUME NEW c \in HexDigit, NEW d \in HexDigit, HexOf(w, c, d) PROVE Facts
  <2>1. /\ source' = source \o <<Backslash, LetterX, c, d>> /\ c \in Nat /\ d \in Nat
        /\ meant' = meant \o <<16 * HexVal(c) + HexVal(d)>>
    BY <1>1, <1>10, <1>b, SpelledAndMeant
  <2>2. /\ source' \in Seq(Nat) /\ Len(source') = a + 4
        /\ source'[a + 1] = Backslash /\ source'[a + 2] = LetterX
        /\ source'[a + 3] = c /\ source'[a + 4] = d
        /\ \A p \in 1..a : source'[p] = source[p]
    <3>1. \A x, y \in Nat :
            LET t == source \o <<x, y, c, d>> IN
            /\ t \in Seq(Nat) /\ Len(t) = a + 4
            /\ \A p \in 1..a : t[p] = source[p]
            /\ t[a + 1] = x /\ t[a + 2] = y /\ t[a + 3] = c /\ t[a + 4] = d
      BY <1>1, <2>1, FourMore, SMTT(30)
    <3> QED
      BY <2>1, <3>1, Special
  <2>3. /\ meant' \in Seq(Nat) /\ Len(meant') = s + 1
        /\ meant'[s + 1] = 16 * HexVal(c) + HexVal(d)
        /\ \A p \in 1..s : meant'[p] = meant[p]
    <3>1. 16 * HexVal(c) + HexVal(d) \in Nat
      BY DEF HexVal, HexDigit
    <3> QED
      BY <1>1, <2>1, <3>1, OneMore
  <2>4. w.k = "hex" /\ w.bs # <<>>
    BY <1>10 DEF HexOf
  <2>5. PairAt(n + 1)'
    BY <1>1, <1>6, <1>7, <2>2, <2>3, <2>4 DEF PairAt
  <2>6. Stands(n + 1)'
    BY <2>5 DEF Stands, HexAt
  <2> QED
    BY <1>m, <2>2, <2>3, <2>6, SMTT(30)
<1>14. ASSUME NEW c \in HexDigit, ShortHexOf(w, c) PROVE Facts
  <2>1. /\ source' = source \o <<Backslash, LetterX, c>> /\ c \in Nat
        /\ meant' = meant \o <<HexVal(c)>>
    BY <1>1, <1>14, <1>b, SpelledAndMeant
  <2>2. /\ source' \in Seq(Nat) /\ Len(source') = a + 3
        /\ source'[a + 1] = Backslash /\ source'[a + 2] = LetterX /\ source'[a + 3] = c
        /\ \A p \in 1..a : source'[p] = source[p]
    <3>1. \A x, y \in Nat :
            LET t == source \o <<x, y, c>> IN
            /\ t \in Seq(Nat) /\ Len(t) = a + 3
            /\ \A p \in 1..a : t[p] = source[p]
            /\ t[a + 1] = x /\ t[a + 2] = y /\ t[a + 3] = c
      BY <1>1, <2>1, ThreeMore, SMTT(30)
    <3> QED
      BY <2>1, <3>1, Special
  <2>3. /\ meant' \in Seq(Nat) /\ Len(meant') = s + 1 /\ meant'[s + 1] = HexVal(c)
        /\ \A p \in 1..s : meant'[p] = meant[p]
    <3>1. HexVal(c) \in Nat
      BY DEF HexVal, HexDigit
    <3> QED
      BY <1>1, <2>1, <3>1, OneMore
  <2>4. w.k = "hex" /\ w.bs # <<>> /\ Len(w.bs) = 1
    BY <1>14 DEF ShortHexOf
  <2>5. SingleAt(n + 1)'
    <3>1. ~(a + 4 <= Len(source'))
      BY <2>2
    <3> QED
      BY <1>1, <1>6, <1>7, <2>2, <2>3, <2>4, <3>1 DEF SingleAt, NoDigitAt
  <2>6. Stands(n + 1)'
    BY <2>5 DEF Stands, HexAt
  <2> QED
    BY <1>m, <2>2, <2>3, <2>6, SMTT(30)
<1>15. ASSUME OpenHex(w) PROVE Facts
  <2>1. source' = source \o <<Backslash, LetterX>> /\ meant' = meant \o <<>>
    BY <1>1, <1>15, SpelledAndMeant
  <2>2. /\ source' \in Seq(Nat) /\ Len(source') = a + 2
        /\ source'[a + 1] = Backslash /\ source'[a + 2] = LetterX
        /\ \A p \in 1..a : source'[p] = source[p]
    BY <1>1, <2>1, TwoMore, Special
  <2>3. meant' = meant
    BY <1>1, <2>1, ConcatEmptySeq
  <2>4. w.k = "hex" /\ w.bs = <<>>
    BY <1>15 DEF OpenHex
  <2>5. BadAt(n + 1)'
    <3>1. ~(a + 3 <= Len(source'))
      BY <2>2
    <3> QED
      BY <1>1, <1>6, <1>7, <2>2, <2>3, <2>4, <3>1 DEF BadAt, NoDigitAt
  <2>6. Stands(n + 1)'
    BY <2>5 DEF Stands, HexAt
  <2> QED
    BY <1>1, <1>m, <2>2, <2>3, <2>6
<1>11. ASSUME NEW c \in Byte, FmtOf(w, c) PROVE Facts
  <2>1. /\ source' = source \o <<Percent, c>> /\ c \in Nat
        /\ BadFormatter(w) <=> ~KnownFormatter(c)
        /\ meant' = meant \o IF ~KnownFormatter(c) THEN <<>> ELSE <<TokenOf(c)>>
    BY <1>1, <1>11, <1>b, SpelledAndMeant
  <2>2. /\ source' \in Seq(Nat) /\ Len(source') = a + 2
        /\ source'[a + 1] = Percent /\ source'[a + 2] = c
        /\ \A p \in 1..a : source'[p] = source[p]
    BY <1>1, <2>1, TwoMore, Special
  <2>3. /\ meant' \in Seq(Nat)
        /\ \A p \in 1..s : meant'[p] = meant[p]
        /\ IF ~KnownFormatter(c) THEN Len(meant') = s
           ELSE Len(meant') = s + 1 /\ meant'[s + 1] = TokenOf(c)
    <3>1. CASE ~KnownFormatter(c)
      BY <1>1, <2>1, <3>1, ConcatEmptySeq
    <3>2. CASE KnownFormatter(c)
      <4>1. TokenOf(c) \in Nat
        BY <2>1 DEF TokenOf, Formatter
      <4> QED
        BY <1>1, <2>1, <3>2, <4>1, OneMore
    <3> QED
      BY <3>1, <3>2
  <2>4. /\ w.k = "fmt" /\ use = "format"
        /\ BadFormatter(text[n + 1])' <=> ~KnownFormatter(c)
    BY <1>6, <1>11, <2>1 DEF FmtOf, BadFormatter
  <2>5. FmtAt(n + 1)'
    BY <1>1, <1>6, <1>7, <2>2, <2>3, <2>4 DEF FmtAt
  <2> QED
    BY <1>m, <2>2, <2>3, <2>5 DEF Stands
<1>12. ASSUME OpenFmt(w) PROVE Facts
  <2>1. source' = source \o <<Percent>> /\ meant' = meant \o <<>> /\ BadFormatter(w)
    BY <1>1, <1>12, SpelledAndMeant
  <2>2. /\ source' \in Seq(Nat) /\ Len(source') = a + 1 /\ source'[a + 1] = Percent
        /\ \A p \in 1..a : source'[p] = source[p]
    BY <1>1, <2>1, OneMore, Special
  <2>3. meant' = meant
    BY <1>1, <2>1, ConcatEmptySeq
  <2>4. /\ w.k = "fmt" /\ use = "format" /\ w.bs = <<>>
        /\ BadFormatter(text[n + 1])'
    BY <1>6, <1>12, <2>1 DEF OpenFmt, BadFormatter
  <2>5. FmtAt(n + 1)'
    BY <1>1, <1>5, <1>6, <1>7, <2>2, <2>3, <2>4 DEF FmtAt
  <2> QED
    BY <1>1, <1>m, <2>2, <2>3, <2>5 DEF Stands
<1>13. Facts
  BY <1>2, <1>8, <1>9, <1>10, <1>11, <1>12, <1>14, <1>15
<1> QED
  BY <1>5, <1>6, <1>13

(***************************************************************************)
(* So the items written before, and the new one, are marked.               *)
(***************************************************************************)
LEMMA WriteKeepsMarked ==
  ASSUME TypeOK, Marked, NEW w \in Writable, Write(w)
  PROVE  Marked'
<1>1. PICK n \in Nat, a \in Nat, s \in Nat : n = Len(text) /\ a = Len(source) /\ s = Len(meant)
  BY LenProperties DEF TypeOK
<1>2. /\ text' \in Seq(WrittenItem) /\ Len(text') = n + 1
      /\ \A k \in 1..n : text'[k] = text[k]
      /\ text'[n + 1].at = a /\ text'[n + 1].shown = s
      /\ source' \in Seq(Nat) /\ Len(source') > a
      /\ \A p \in 1..a : source'[p] = source[p]
      /\ meant' \in Seq(Nat) /\ Len(meant') >= s
      /\ \A p \in 1..s : meant'[p] = meant[p]
      /\ Stands(n + 1)'
      /\ text'[n + 1].k = w.k /\ text'[n + 1].bs = w.bs
      /\ source'[a + 1] \in HexDigit => DigitNext(w)
  <2>1. n = Len(text) /\ a = Len(source) /\ s = Len(meant)
    BY <1>1
  <2> HIDE <1>1
  <2> QED
    BY <2>1, NewItem, ZenonT(60)
<1>3. \A k \in 1..(n + 1) : Begin(k)' = Begin(k) /\ Shown(k)' = Shown(k)
  <2> SUFFICES ASSUME NEW k \in 1..(n + 1) PROVE Begin(k)' = Begin(k) /\ Shown(k)' = Shown(k)
    OBVIOUS
  <2>1. CASE k \in 1..n
    <3>1. text'[k] = text[k] /\ k <= Len(text) /\ k <= Len(text')
      BY <1>1, <1>2, <2>1
    <3>2. Begin(k) = text[k].at /\ Shown(k) = text[k].shown
      BY <3>1 DEF Begin, Shown
    <3>3. Begin(k)' = text'[k].at /\ Shown(k)' = text'[k].shown
      BY <3>1 DEF Begin, Shown
    <3> QED
      BY <3>1, <3>2, <3>3
  <2>2. CASE k = n + 1
    <3>1. Begin(n + 1) = a /\ Shown(n + 1) = s
      BY <1>1 DEF Begin, Shown
    <3>2. Begin(n + 1)' = a /\ Shown(n + 1)' = s
      BY <1>2 DEF Begin, Shown
    <3> QED
      BY <2>2, <3>1, <3>2
  <2> QED
    BY <2>1, <2>2
<1>4. /\ Begin(n + 1) = a /\ Shown(n + 1) = s
      /\ Begin(n + 1 + 1)' = Len(source') /\ Shown(n + 1 + 1)' = Len(meant')
      /\ Len(source') \in Nat /\ Len(meant') \in Nat
  BY <1>1, <1>2, LenProperties, SMTT(30) DEF Begin, Shown
<1>5. /\ use' = use
      /\ text # <<>> => MayFollow(text[Len(text)], w)
  BY DEF Write
<1>6. ASSUME NEW k \in 1..n PROVE Placed(k)'
  <2>1. Placed(k) /\ k + 1 \in 1..(n + 1) /\ text'[k] = text[k]
    <3>1. Placed(k)
      BY <1>1, Zenon DEF Marked
    <3>2. text'[k] = text[k]
      BY <1>2, Zenon
    <3>3. k + 1 \in 1..(n + 1)
      OBVIOUS
    <3> QED
      BY <3>1, <3>2, <3>3
  <2>2. /\ Begin(k)' = Begin(k) /\ Begin(k + 1)' = Begin(k + 1)
        /\ Shown(k)' = Shown(k) /\ Shown(k + 1)' = Shown(k + 1)
    BY <1>3, <2>1
  <2>3. PICK b \in Nat, c \in Nat, t \in Nat, u \in Nat :
             /\ Begin(k) = b /\ Begin(k + 1) = c /\ Shown(k) = t /\ Shown(k + 1) = u
             /\ b < c /\ c <= a /\ t <= u /\ u <= s
    BY <1>1, <2>1 DEF Placed
  <2>4. Begin(k)' = b /\ Begin(k + 1)' = c /\ Shown(k)' = t /\ Shown(k + 1)' = u
    BY <2>2, <2>3
  <2>s. /\ \A p \in 1..c : source'[p] = source[p]
        /\ \A p \in 1..u : meant'[p] = meant[p]
    BY <1>2, <2>3, SMTT(30)
  <2>x. k = n => MayFollow(text[k], w)
    <3>1. k = n => text # <<>> /\ text[k] = text[Len(text)]
      BY <1>1, EmptySeq
    <3> QED
      BY <1>1, <1>5, <3>1
  <2>d. NoDigitAt(c + 1) /\ text[k].k = "hex" /\ Len(text[k].bs) < 2 => NoDigitAt(c + 1)'
    <3>1. CASE c < a
      <4>1. c + 1 \in 1..a /\ c + 1 <= Len(source)
        BY <1>1, <3>1
      <4>2. source'[c + 1] = source[c + 1]
        BY <1>2, <4>1
      <4> QED
        BY <4>1, <4>2 DEF NoDigitAt
    <3>2. CASE c = a
      <4>1. k = n
        <5>1. SUFFICES ASSUME k < n PROVE FALSE
          OBVIOUS
        <5>2. k + 1 \in 1..(n + 1) /\ n + 1 \in 1..(n + 1) /\ k + 1 < n + 1
          BY <5>1
        <5>3. Begin(k + 1) < Begin(n + 1)
          BY <1>1, <5>2 DEF Marked
        <5> QED
          BY <1>4, <2>3, <3>2, <5>3
      <4>2. text[k].k = "hex" /\ Len(text[k].bs) < 2 => ~DigitNext(w)
        BY <2>x, <4>1 DEF MayFollow
      <4> QED
        BY <1>2, <3>2, <4>2 DEF NoDigitAt
    <3> QED
      BY <2>3, <3>1, <3>2
  <2>5. ASSUME CharAt(k) PROVE CharAt(k)'
    <3>1. /\ text[k].k = "char" /\ text[k].bs[1] = source[b + 1]
          /\ source[b + 1] = Backslash => Final(k)
          /\ use = "format" => source[b + 1] # Percent
          /\ c = b + 1 /\ u = t + 1 /\ meant[t + 1] = source[b + 1]
      BY <2>3, <2>5 DEF CharAt
    <3>2. source'[b + 1] = source[b + 1] /\ meant'[t + 1] = meant[t + 1]
      BY <2>s, <3>1
    <3>3. source[b + 1] = Backslash => Final(k)'
      <4> SUFFICES ASSUME source[b + 1] = Backslash PROVE text'[k + 1].k = "fmt"
        BY DEF Final
      <4>1. CASE k = n
        BY <1>2, <2>x, <3>1, <4>1 DEF MayFollow
      <4>2. CASE k # n
        <5>1. text[k + 1].k = "fmt" /\ k + 1 \in 1..n
          BY <1>1, <3>1, <4>2 DEF Final
        <5> QED
          BY <1>2, <5>1
      <4> QED
        BY <4>1, <4>2
    <3> QED
      BY <1>5, <2>1, <2>4, <3>1, <3>2, <3>3 DEF CharAt
  <2>6. ASSUME EscAt(k) PROVE EscAt(k)'
    <3> DEFINE e == source[b + 2]
    <3>1. /\ text[k].k = "esc" /\ text[k].bs[1] = e
          /\ source[b + 1] = Backslash /\ e # LetterX /\ (use = "format" => e # Percent)
          /\ c = b + 2
          /\ IF e \in DOMAIN Control THEN u = t + 1 /\ meant[t + 1] = Control[e]
             ELSE IF use = "delim"
             THEN u = t + 2 /\ meant[t + 1] = Backslash /\ meant[t + 2] = e
             ELSE u = t + 1 /\ meant[t + 1] = e
      BY <2>3, <2>6 DEF EscAt
    <3>2. source'[b + 1] = source[b + 1] /\ source'[b + 2] = source[b + 2]
      BY <2>s, <3>1
    <3>3. IF source'[b + 2] \in DOMAIN Control
          THEN u = t + 1 /\ meant'[t + 1] = Control[source'[b + 2]]
          ELSE IF use' = "delim"
          THEN u = t + 2 /\ meant'[t + 1] = Backslash /\ meant'[t + 2] = source'[b + 2]
          ELSE u = t + 1 /\ meant'[t + 1] = source'[b + 2]
      <4>1. /\ u = t + 1 => meant'[t + 1] = meant[t + 1]
            /\ u = t + 2 => meant'[t + 1] = meant[t + 1] /\ meant'[t + 2] = meant[t + 2]
        BY <2>s
      <4> QED
        BY <1>5, <3>1, <3>2, <4>1
    <3> QED
      BY <1>5, <2>1, <2>4, <3>1, <3>2, <3>3 DEF EscAt
  <2>7. ASSUME HexAt(k) PROVE HexAt(k)'
    <3>1. CASE PairAt(k)
      <4>1. /\ text[k].k = "hex" /\ text[k].bs # <<>>
            /\ source[b + 1] = Backslash /\ source[b + 2] = LetterX
            /\ source[b + 3] \in HexDigit /\ source[b + 4] \in HexDigit
            /\ c = b + 4 /\ u = t + 1
            /\ meant[t + 1] = 16 * HexVal(source[b + 3]) + HexVal(source[b + 4])
        BY <2>3, <3>1 DEF PairAt
      <4>2. /\ source'[b + 1] = source[b + 1] /\ source'[b + 2] = source[b + 2]
            /\ source'[b + 3] = source[b + 3] /\ source'[b + 4] = source[b + 4]
            /\ meant'[t + 1] = meant[t + 1]
        BY <2>s, <4>1, SMTT(30)
      <4> QED
        BY <2>1, <2>4, <4>1, <4>2 DEF HexAt, PairAt
    <3>2. CASE SingleAt(k)
      <4>1. /\ text[k].k = "hex" /\ text[k].bs # <<>> /\ Len(text[k].bs) = 1
            /\ source[b + 1] = Backslash /\ source[b + 2] = LetterX
            /\ source[b + 3] \in HexDigit /\ c = b + 3 /\ u = t + 1
            /\ meant[t + 1] = HexVal(source[b + 3])
        BY <2>3, <3>2 DEF SingleAt
      <4>2. /\ source'[b + 1] = source[b + 1] /\ source'[b + 2] = source[b + 2]
            /\ source'[b + 3] = source[b + 3] /\ meant'[t + 1] = meant[t + 1]
        BY <2>s, <4>1
      <4>3. NoDigitAt(b + 4)'
        <5>1. NoDigitAt(b + 4) /\ b + 4 = c + 1
          BY <2>3, <3>2, <4>1 DEF SingleAt
        <5> QED
          BY <2>d, <4>1, <5>1
      <4> QED
        BY <2>1, <2>4, <4>1, <4>2, <4>3 DEF HexAt, SingleAt
    <3>3. CASE BadAt(k)
      <4>1. /\ text[k].k = "hex" /\ text[k].bs = <<>>
            /\ source[b + 1] = Backslash /\ source[b + 2] = LetterX
            /\ c = b + 2 /\ u = t
        BY <2>3, <3>3 DEF BadAt
      <4>2. source'[b + 1] = source[b + 1] /\ source'[b + 2] = source[b + 2]
        BY <2>s, <4>1
      <4>3. NoDigitAt(b + 3)'
        <5>1. NoDigitAt(b + 3) /\ b + 3 = c + 1
          BY <2>3, <3>3, <4>1 DEF BadAt
        <5>2. Len(text[k].bs) < 2
          BY <4>1, EmptySeq
        <5> QED
          BY <2>d, <4>1, <5>1, <5>2
      <4> QED
        BY <2>1, <2>4, <4>1, <4>2, <4>3 DEF HexAt, BadAt
    <3> QED
      BY <2>7, <3>1, <3>2, <3>3 DEF HexAt
  <2>8. ASSUME FmtAt(k) PROVE FmtAt(k)'
    <3>1. BadFormatter(text[k])' <=> BadFormatter(text[k])
      BY <2>1 DEF BadFormatter
    <3>2. /\ text[k].k = "fmt" /\ use = "format" /\ source[b + 1] = Percent
          /\ IF BadFormatter(text[k])
             THEN u = t /\ c = b + 2 /\ ~KnownFormatter(source[b + 2])
             ELSE /\ c = b + 2 /\ KnownFormatter(source[b + 2])
                  /\ u = t + 1 /\ meant[t + 1] = TokenOf(source[b + 2])
      <4>1. ~(k = Len(text) /\ text[k].bs = <<>>)
        BY <1>1, <2>8, <2>x DEF FmtAt, MayFollow
      <4> QED
        BY <2>3, <2>8, <4>1 DEF FmtAt
    <3>3. source'[b + 1] = source[b + 1] /\ source'[b + 2] = source[b + 2]
      BY <2>s, <3>2
    <3>4. u = t + 1 => meant'[t + 1] = meant[t + 1]
      BY <2>s
    <3>5. CASE BadFormatter(text[k])
      BY <1>5, <2>1, <2>4, <3>1, <3>2, <3>3, <3>5 DEF FmtAt
    <3>6. CASE ~BadFormatter(text[k])
      BY <1>5, <2>1, <2>4, <3>1, <3>2, <3>3, <3>4, <3>6 DEF FmtAt
    <3> QED
      BY <3>5, <3>6
  <2>9. Stands(k)'
    BY <2>1, <2>5, <2>6, <2>7, <2>8 DEF Stands, Placed
  <2> QED
    <3>0. PICK x \in Nat, y \in Nat : x = Len(source') /\ y = Len(meant') /\ a <= x /\ s <= y
      BY <1>2, <1>4, SMTT(30)
    <3>1. /\ Begin(k)' \in Nat /\ Begin(k + 1)' \in Nat /\ Begin(k)' < Begin(k + 1)'
          /\ Begin(k + 1)' <= Len(source')
      BY <2>3, <2>4, <3>0, SMTT(30)
    <3>2. /\ Shown(k)' \in Nat /\ Shown(k + 1)' \in Nat /\ Shown(k)' <= Shown(k + 1)'
          /\ Shown(k + 1)' <= Len(meant')
      BY <2>3, <2>4, <3>0, SMTT(30)
    <3> QED
      BY <2>9, <3>1, <3>2, Zenon DEF Placed
<1>7. Placed(n + 1)'
  BY <1>2, <1>3, <1>4 DEF Placed
<1>8. ASSUME NEW k \in 1..(n + 1 + 1), NEW m \in 1..(n + 1 + 1), k < m
      PROVE  Begin(k)' < Begin(m)'
  <2>1. k \in 1..(n + 1)
    BY <1>8
  <2>2. CASE m \in 1..(n + 1)
    BY <1>1, <1>3, <1>8, <2>1, <2>2 DEF Marked
  <2>3. CASE m = n + 1 + 1
    <3>1. k = n + 1 \/ (k \in 1..n /\ k + 1 \in 1..(n + 1))
      BY <2>1
    <3>2. Begin(k) \in Nat /\ Begin(k) <= a
      BY <1>1, <1>4, <3>1 DEF Marked, Placed
    <3> QED
      BY <1>2, <1>3, <1>4, <2>1, <2>3, <3>2
  <2> QED
    BY <2>2, <2>3
<1>9. ASSUME NEW p \in 1..Len(source')
      PROVE  \E k \in 1..(n + 1) : Begin(k)' < p /\ p <= Begin(k + 1)'
  <2>1. CASE p <= a
    <3>1. PICK k \in 1..n : Begin(k) < p /\ p <= Begin(k + 1)
      BY <1>1, <2>1 DEF Marked
    <3>2. k \in 1..(n + 1) /\ k + 1 \in 1..(n + 1)
      OBVIOUS
    <3> QED
      BY <1>3, <3>1, <3>2
  <2>2. CASE p > a
    <3>1. Begin(n + 1)' < p /\ p <= Begin(n + 1 + 1)'
      BY <1>3, <1>4, <2>2
    <3> QED
      BY <3>1
  <2> QED
    BY <2>1, <2>2
<1>10. Begin(1)' = 0 /\ Shown(1)' = 0
  BY <1>3 DEF Marked
<1>11. \A k \in 1..Len(text') : Placed(k)'
  <2>1. \A k \in 1..Len(text') : k \in 1..n \/ k = n + 1
    BY <1>2
  <2> QED
    BY <1>6, <1>7, <2>1, Zenon
<1>12. \A k, m \in 1..(Len(text') + 1) : k < m => Begin(k)' < Begin(m)'
  BY <1>2, <1>8, Zenon
<1>13. \A p \in 1..Len(source') : \E k \in 1..Len(text') : Begin(k)' < p /\ p <= Begin(k + 1)'
  BY <1>2, <1>9, Zenon
<1> QED
  BY <1>10, <1>11, <1>12, <1>13, Zenon DEF Marked

-----------------------------------------------------------------------------
(***************************************************************************)
(* What a turn of the loops makes is a byte, and a sequence of bytes.      *)
(***************************************************************************)
LEMMA ByteOfHex ==
  ASSUME NEW last \in Nat, NEW n \in Nat, source[last] \in HexDigit,
         n # 1 => source[last - 1] \in HexDigit
  PROVE  HexByte(last, n) \in Nat
<1>1. \A d \in HexDigit : HexVal(d) \in Nat
  BY DEF HexDigit, HexVal
<1>2. HexVal(source[last]) \in Nat /\ (n # 1 => HexVal(source[last - 1]) \in Nat)
  BY <1>1
<1>3. CASE n = 1
  BY <1>2, <1>3 DEF HexByte
<1>4. CASE n # 1
  BY <1>2, <1>4 DEF HexByte
<1> QED
  BY <1>3, <1>4

LEMMA ConvertKeeps ==
  ASSUME TypeOK, NEW end \in Nat, end <= Len(source), seen < end,
         NEW most \in Nat, NEW over \in Nat,
         NEW kept, kept = <<>> \/ kept = <<Backslash>>, NEW how,
         Convert(end, most, over, kept, how)
  PROVE  made' \in Seq(Nat) /\ seen' \in Nat /\ loop' \in {loop, how}
<1>1. /\ source \in Seq(Nat) /\ made \in Seq(Nat) /\ seen \in Nat /\ Len(source) \in Nat
      /\ \A p \in 1..Len(source) : source[p] \in Nat
  BY LenProperties, ElementOfSeq DEF TypeOK
<1> DEFINE e == source[seen + 2]
           n == HexRun(seen + 2, end, most)
<1>2. CASE ~Escaped(end) /\ Emit(<<source[seen + 1]>>, 1)
  <2>1. source[seen + 1] \in Nat
    BY <1>1
  <2> QED
    BY <1>1, <1>2, <2>1, OneMore DEF Emit
<1>3. CASE /\ Escaped(end) /\ e # LetterX
           /\ Emit(IF e \in DOMAIN Control THEN <<Control[e]>> ELSE kept \o <<e>>, 2)
  <2>1. e \in Nat
    BY <1>1, <1>3 DEF Escaped
  <2> HIDE DEF e
  <2>2. CASE e \in DOMAIN Control
    <3>1. Control[e] \in Nat
      BY <2>2 DEF Control
    <3> QED
      BY <1>1, <1>3, <2>2, <3>1, OneMore DEF Emit
  <2>3. CASE e \notin DOMAIN Control
    <3>1. kept \o <<e>> = <<e>> \/ kept \o <<e>> = <<Backslash, e>>
      <4>1. \A x \in Nat : <<x>> \in Seq(Nat) /\ <<>> \o <<x>> = <<x>>
        <5>1. \A x \in Seq(Nat) : <<>> \o x = x
          BY ConcatEmptySeq
        <5> QED
          BY <5>1
      <4>2. <<Backslash>> \o <<e>> = <<Backslash, e>>
        BY <2>1, Joined, Special
      <4> QED
        BY <2>1, <4>1, <4>2
    <3>2. made \o <<e>> \in Seq(Nat) /\ made \o <<Backslash, e>> \in Seq(Nat)
      BY <1>1, <2>1, OneMore, TwoMore, Special
    <3>3. made' = made \o (kept \o <<e>>) /\ seen' = seen + 2 /\ loop' = loop
      BY <1>3, <2>3 DEF Emit
    <3>4. made' \in Seq(Nat)
      BY <3>1, <3>2, <3>3
    <3> QED
      BY <1>1, <3>3, <3>4
  <2> QED
    BY <2>2, <2>3
<1>4. CASE /\ Escaped(end) /\ e = LetterX /\ n > 0
           /\ Emit(<<HexByte(seen + 2 + n, n)>>, 2 + n + over)
  <2>1. n \in 0..most /\ seen + 2 + n <= end /\ \A j \in 1..n : source[seen + 2 + j] \in HexDigit
    <3>1. seen + 2 \in Nat /\ seen + 2 <= end
      BY <1>1, <1>4 DEF Escaped
    <3> QED
      BY <3>1, RunBounded
  <2> HIDE DEF n
  <2>2. source[seen + 2 + n] \in HexDigit /\ (n # 1 => source[seen + 2 + n - 1] \in HexDigit)
    <3>1. n \in 1..n /\ (n # 1 => n - 1 \in 1..n /\ seen + 2 + n - 1 = seen + 2 + (n - 1))
      BY <1>1, <1>4, <2>1
    <3> QED
      BY <2>1, <3>1
  <2>4. HexByte(seen + 2 + n, n) \in Nat
    <3>1. PICK last \in Nat, m \in Nat : last = seen + 2 + n /\ m = n
      BY <1>1, <2>1
    <3>2. source[last] \in HexDigit /\ (m # 1 => source[last - 1] \in HexDigit)
      BY <1>1, <2>1, <2>2, <3>1
    <3>3. HexByte(last, m) \in Nat
      BY <3>2, ByteOfHex
    <3> QED
      BY <3>1, <3>3
  <2> HIDE DEF e
  <2>5. n \in Nat
    BY <2>1
  <2> QED
    BY <1>1, <1>4, <2>4, <2>5, OneMore DEF Emit
<1>5. CASE Fail(how)
  BY <1>1, <1>5 DEF Fail
<1> QED
  BY <1>2, <1>3, <1>4, <1>5 DEF Convert

(***************************************************************************)
(* The end of a literal is ahead, and there is no % before it.             *)
(***************************************************************************)
LEMMA NextIsAhead ==
  ASSUME TypeOK, seen < Len(source)
  PROVE  /\ NextPercent \in Nat /\ seen < NextPercent /\ NextPercent <= Len(source)
         /\ NextPercent < Len(source) => source[NextPercent + 1] = Percent
         /\ \A j \in (seen + 2)..NextPercent : source[j] # Percent
<1>1. Len(source) \in Nat /\ seen \in Nat
  BY LenProperties DEF TypeOK
<1> DEFINE S == {Len(source)}
                  \cup {j \in (seen + 1)..(Len(source) - 1) : source[j + 1] = Percent}
<1>2. S \in SUBSET Nat /\ S # {}
  BY <1>1
<1>3. /\ \A j \in S : j > seen /\ j <= Len(source) /\ (j < Len(source) => source[j + 1] = Percent)
      /\ \A j \in (seen + 1)..(Len(source) - 1) : source[j + 1] = Percent => j \in S
      /\ NextPercent = Min(S)
  BY <1>1 DEF NextPercent
<1> HIDE DEF S
<1>4. Min(S) \in S /\ \A j \in S : Min(S) <= j
  BY <1>2, MinOfNat
<1>5. PICK m \in Nat : m = NextPercent /\ m \in S /\ \A j \in S : m <= j
  BY <1>2, <1>3, <1>4
<1>6. ASSUME NEW j \in (seen + 2)..m PROVE source[j] # Percent
  <2>1. j - 1 \in (seen + 1)..(Len(source) - 1) /\ j - 1 < m /\ j - 1 + 1 = j
    BY <1>1, <1>3, <1>5
  <2>2. j - 1 \notin S
    BY <1>1, <1>5, <2>1
  <2> QED
    BY <1>3, <2>1, <2>2
<1> QED
  BY <1>3, <1>5, <1>6

-----------------------------------------------------------------------------
(***************************************************************************)
(* The types hold, and the text stays what was written, until ParseDelim   *)
(* has made a format of it.                                                *)
(***************************************************************************)
LEMMA MarksStay ==
  ASSUME Marked, UNCHANGED <<text, source, meant, use>>
  PROVE  Marked'
<1>1. text' = text /\ source' = source /\ meant' = meant /\ use' = use
  OBVIOUS
<1>2. \A k : Begin(k)' = Begin(k) /\ Shown(k)' = Shown(k)
  BY <1>1 DEF Begin, Shown
<1>3. ASSUME NEW k, Placed(k) PROVE Placed(k)'
  <2>1. CharAt(k) => CharAt(k)'
    BY <1>1 DEF CharAt, Begin, Shown, Final
  <2>2. EscAt(k) => EscAt(k)'
    BY <1>1 DEF EscAt, Begin, Shown
  <2>3. HexAt(k) => HexAt(k)'
    BY <1>1 DEF HexAt, PairAt, SingleAt, BadAt, NoDigitAt, Begin, Shown
  <2>4. FmtAt(k) => FmtAt(k)'
    BY <1>1 DEF FmtAt, Begin, Shown, BadFormatter
  <2>5. Stands(k)'
    BY <1>3, <2>1, <2>2, <2>3, <2>4 DEF Stands, Placed
  <2> QED
    BY <1>1, <1>2, <1>3, <2>5 DEF Placed
<1> QED
  BY <1>1, <1>2, <1>3 DEF Marked

LEMMA KeptInit == EscapesInit => Kept
<1> SUFFICES ASSUME EscapesInit PROVE Kept
  OBVIOUS
<1>1. /\ use \in {"delim", "format"} /\ loop = "writing"
      /\ text = <<>> /\ source = <<>> /\ meant = <<>>
      /\ seen = 0 /\ limit = 0 /\ made = <<>> /\ key = <<>>
  BY DEF EscapesInit
<1>2. Len(text) = 0 /\ Len(source) = 0 /\ Len(meant) = 0
  BY <1>1, EmptySeq
<1>3. TypeOK
  <2>1. <<>> \in Seq(Nat) /\ <<>> \in Seq(WrittenItem)
    BY EmptySeq
  <2> QED
    BY <1>1, <1>2, <2>1 DEF TypeOK
<1>4. Marked
  <2>1. Begin(1) = 0 /\ Shown(1) = 0
    BY <1>2 DEF Begin, Shown
  <2> QED
    BY <1>2, <2>1 DEF Marked
<1> QED
  BY <1>3, <1>4 DEF Kept

LEMMA KeptNext ==
  ASSUME Kept, loop = "delim" => use = "delim", [EscapesNext]_inputVars
  PROVE  Kept'
<1>1. /\ source \in Seq(Nat) /\ made \in Seq(Nat) /\ key \in Seq(Nat) /\ meant \in Seq(Nat)
      /\ seen \in Nat /\ limit \in Nat /\ limit <= Len(source) /\ Len(source) \in Nat
      /\ use \in {"delim", "format"} /\ text \in Seq(WrittenItem)
      /\ loop \in {"writing", "delim", "format", "done", "failed", "rejected"}
      /\ loop = "writing" => seen = 0 /\ made = <<>> /\ key = <<>>
      /\ loop \in {"writing", "delim"} => limit = 0
      /\ \A p \in 1..Len(source) : source[p] \in Nat
  BY LenProperties, ElementOfSeq DEF Kept, TypeOK
<1>t. TypeOK /\ (Own => Marked)
  BY DEF Kept
<1>2. ASSUME NEW w \in Writable, Write(w) PROVE Kept'
  <2>1. /\ loop = "writing" /\ loop' = loop /\ limit' = limit /\ seen' = seen
        /\ made' = made /\ key' = key /\ use' = use
    BY <1>2 DEF Write
  <2>2. text' \in Seq(WrittenItem) /\ source' \in Seq(Nat) /\ meant' \in Seq(Nat)
    <3>1. PICK n \in Nat, a \in Nat, s \in Nat :
             n = Len(text) /\ a = Len(source) /\ s = Len(meant)
      BY <1>1, LenProperties
    <3> QED
      BY <1>2, <1>t, <3>1, NewItem
  <2>3. limit' <= Len(source')
    BY <1>1, <2>1, <2>2, LenProperties
  <2>4. TypeOK'
    BY <1>1, <2>1, <2>2, <2>3 DEF TypeOK
  <2>5. Marked'
    BY <1>2, <1>t, <2>1, WriteKeepsMarked DEF Own
  <2> QED
    BY <2>4, <2>5 DEF Kept
<1>3. ASSUME UNCHANGED <<source, text, meant, use>>, Own' => Own, TypeOK' PROVE Kept'
  BY <1>3, <1>t, MarksStay DEF Kept
<1>4. CASE Enter
  <2>1. UNCHANGED <<source, text, meant, use, seen, limit, made, key>> /\ loop' = use /\ loop = "writing"
    BY <1>4 DEF Enter
  <2>2. TypeOK'
    BY <1>1, <2>1 DEF TypeOK
  <2> QED
    BY <1>3, <2>1, <2>2 DEF Own
<1>5. CASE EscapeStep /\ UNCHANGED <<use, text, meant>>
  <2>1. use' = use /\ text' = text /\ meant' = meant
    BY <1>5
  <2>2. CASE ParseDelim
    <3>1. /\ loop = "delim" /\ seen < Len(source)
          /\ Convert(Len(source), DelimDigits, 0, <<Backslash>>, "rejected")
          /\ source' = source /\ limit' = limit /\ key' = key
      BY <2>2 DEF ParseDelim
    <3>2. made' \in Seq(Nat) /\ seen' \in Nat /\ loop' \in {loop, "rejected"}
      <4>1. PICK kept : kept = <<Backslash>>
        OBVIOUS
      <4>2. PICK most \in Nat : most = DelimDigits
        BY DEF DelimDigits
      <4>3. Convert(Len(source), most, 0, kept, "rejected")
        BY <3>1, <4>1, <4>2
      <4>4. seen < Len(source) /\ Len(source) <= Len(source) /\ 0 \in Nat
        BY <1>1, <3>1
      <4>5. kept = <<>> \/ kept = <<Backslash>>
        BY <4>1
      <4> QED
        BY <1>1, <1>t, <4>3, <4>4, <4>5, ConvertKeeps
    <3>3. TypeOK'
      BY <1>1, <2>1, <3>1, <3>2 DEF TypeOK
    <3> QED
      BY <1>3, <2>1, <3>1, <3>2, <3>3 DEF Own
  <2>3. CASE DelimParsed
    <3>1. /\ loop = "delim" /\ key' = made /\ source' = KeyFormat(made)
          /\ seen' = 0 /\ made' = <<>> /\ loop' = "format" /\ limit' = limit
      BY <2>3 DEF DelimParsed
    <3>2. source' \in Seq(Nat) /\ <<>> \in Seq(Nat)
      <4>1. /\ <<Percent, 107>> \in Seq(Nat) /\ <<Percent, 115, Newline>> \in Seq(Nat)
            /\ <<>> \in Seq(Nat)
        BY EmptySeq DEF Percent, Newline
      <4> QED
        BY <1>1, <3>1, <4>1, ConcatProperties DEF KeyFormat
    <3>3. limit' <= Len(source')
      BY <1>1, <3>1, <3>2, LenProperties
    <3>4. TypeOK'
      BY <1>1, <2>1, <3>1, <3>2, <3>3 DEF TypeOK
    <3> QED
      BY <2>1, <3>1, <3>4 DEF Kept, Own
  <2>4. CASE FormatToken
    <3>1. /\ Parsing /\ source' = source /\ limit' = limit /\ key' = key
          /\ IF seen + 1 < Len(source) /\ KnownFormatter(source[seen + 2])
             THEN Emit(<<TokenOf(source[seen + 2])>>, 2)
             ELSE Fail("failed")
      BY <2>4 DEF FormatToken
    <3>2. made' \in Seq(Nat) /\ seen' \in Nat /\ loop' \in {loop, "failed"}
      <4>1. CASE seen + 1 < Len(source) /\ Emit(<<TokenOf(source[seen + 2])>>, 2)
        <5>1. TokenOf(source[seen + 2]) \in Nat
          <6>1. PICK c \in Nat : c = source[seen + 2]
            BY <1>1, <4>1
          <6>2. TokenOf(c) \in Nat
            BY DEF TokenOf, Formatter
          <6> QED
            BY <6>1, <6>2
        <5> QED
          BY <1>1, <4>1, <5>1, OneMore DEF Emit
      <4>2. CASE Fail("failed")
        BY <1>1, <4>2 DEF Fail
      <4> QED
        BY <3>1, <4>1, <4>2
    <3>3. TypeOK'
      BY <1>1, <2>1, <3>1, <3>2 DEF TypeOK, Parsing
    <3> QED
      BY <1>3, <2>1, <3>1, <3>2, <3>3 DEF Own, Parsing
  <2>5. CASE Literal
    <3>1. /\ Parsing /\ limit' = NextPercent
          /\ UNCHANGED <<source, seen, made, loop, key>>
      BY <2>5 DEF Literal
    <3>2. NextPercent \in Nat /\ NextPercent <= Len(source)
      BY <1>t, <3>1, NextIsAhead DEF Parsing
    <3>3. TypeOK'
      BY <1>1, <2>1, <3>1, <3>2 DEF TypeOK, Parsing
    <3> QED
      BY <1>3, <2>1, <3>1, <3>3 DEF Own
  <2>6. CASE ResolveEscapes
    <3>1. /\ loop = "format" /\ seen < limit
          /\ Convert(limit, 2, 1, KeptOfUnknown, "failed")
          /\ source' = source /\ limit' = limit /\ key' = key
      BY <2>6 DEF ResolveEscapes
    <3>2. made' \in Seq(Nat) /\ seen' \in Nat /\ loop' \in {loop, "failed"}
      BY <1>1, <1>t, <3>1, ConvertKeeps DEF KeptOfUnknown
    <3>3. TypeOK'
      BY <1>1, <2>1, <3>1, <3>2 DEF TypeOK
    <3> QED
      BY <1>3, <2>1, <3>1, <3>2, <3>3 DEF Own
  <2>7. CASE Resolved
    <3>1. /\ loop = "format" /\ seen' = limit /\ limit' = 0
          /\ UNCHANGED <<source, made, loop, key>>
      BY <2>7 DEF Resolved
    <3>2. TypeOK'
      BY <1>1, <2>1, <3>1 DEF TypeOK
    <3> QED
      BY <1>3, <2>1, <3>1, <3>2 DEF Own
  <2>8. CASE Parsed
    <3>1. /\ loop = "format" /\ loop' = "done"
          /\ UNCHANGED <<source, seen, limit, made, key>>
      BY <2>8 DEF Parsed
    <3>2. TypeOK'
      BY <1>1, <2>1, <3>1 DEF TypeOK
    <3> QED
      BY <1>3, <2>1, <3>1, <3>2 DEF Own
  <2> QED
    BY <1>5, <2>2, <2>3, <2>4, <2>5, <2>6, <2>7, <2>8 DEF EscapeStep
<1>6. CASE UNCHANGED inputVars
  <2>1. UNCHANGED <<source, seen, limit, made, loop, key, use, text, meant>>
    BY <1>6 DEF inputVars, escapeVars
  <2>2. TypeOK'
    BY <1>1, <2>1 DEF TypeOK
  <2> QED
    BY <1>3, <2>1, <2>2 DEF Own
<1> QED
  BY <1>2, <1>4, <1>5, <1>6 DEF EscapesNext, Writable

-----------------------------------------------------------------------------
(***************************************************************************)
(* A turn that starts where item k begins, and is not led beyond it by     *)
(* digits, makes what the item means and steps over it; behind a hex       *)
(* escape, and over so many bytes more.                                    *)
(***************************************************************************)
Copies(k) ==
  /\ made' \in Seq(Nat) /\ Len(made') = Len(made) + (Shown(k + 1) - Shown(k))
  /\ \A p \in 1..Len(made) : made'[p] = made[p]
  /\ \A p \in 1..(Shown(k + 1) - Shown(k)) : made'[Len(made) + p] = meant[Shown(k) + p]

LEMMA Appended ==
  ASSUME made \in Seq(Nat), NEW t \in Nat, NEW u \in Nat, NEW k, NEW c \in Nat,
         Shown(k) = t, Shown(k + 1) = u, u = t + 1, meant[t + 1] = c, made' = made \o <<c>>
  PROVE  Copies(k)
<1>1. /\ made' \in Seq(Nat) /\ Len(made') = Len(made) + 1 /\ Len(made) \in Nat
      /\ \A p \in 1..Len(made) : made'[p] = made[p]
      /\ made'[Len(made) + 1] = c
  BY OneMore, LenProperties
<1>2. ASSUME NEW p \in 1..(u - t) PROVE made'[Len(made) + p] = meant[t + p]
  <2>1. p = 1
    OBVIOUS
  <2> QED
    BY <1>1, <2>1
<1> QED
  BY <1>1, <1>2 DEF Copies

LEMMA OneOrTwo ==
  ASSUME NEW t \in Nat, NEW u \in Nat, u = t + 2, NEW p \in 1..(u - t)
  PROVE  p = 1 \/ p = 2
OBVIOUS

LEMMA PairRun ==
  ASSUME NEW s \in Nat, NEW end \in Nat, NEW most \in Nat, most >= 2, s + 4 <= end,
         source[s + 3] \in HexDigit, source[s + 4] \in HexDigit,
         most = 2 \/ s + 4 = end \/ source[s + 5] \notin HexDigit
  PROVE  HexRun(s + 2, end, most) = 2
<1>1. PICK from \in Nat, two \in 0..most : from = s + 2 /\ two = 2
  OBVIOUS
<1>2. from + two <= end /\ from + two = s + 4 /\ from + two + 1 = s + 5
  BY <1>1
<1>3. ASSUME NEW j \in 1..two PROVE source[from + j] \in HexDigit
  <2>1. (j = 1 /\ from + j = s + 3) \/ (j = 2 /\ from + j = s + 4)
    BY <1>1
  <2> QED
    BY <2>1
<1> QED
  BY <1>1, <1>2, <1>3, RunIs

LEMMA SingleRun ==
  ASSUME NEW s \in Nat, NEW end \in Nat, NEW most \in Nat, most >= 2, s + 3 <= end,
         source[s + 3] \in HexDigit, s + 3 = end \/ source[s + 4] \notin HexDigit
  PROVE  HexRun(s + 2, end, most) = 1
<1>1. PICK from \in Nat, one \in 0..most : from = s + 2 /\ one = 1
  OBVIOUS
<1>2. from + one <= end /\ from + one = s + 3 /\ from + one + 1 = s + 4
  BY <1>1
<1>3. ASSUME NEW j \in 1..one PROVE source[from + j] \in HexDigit
  <2>1. from + j = s + 3
    BY <1>1
  <2> QED
    BY <2>1
<1> QED
  BY <1>1, <1>2, <1>3, RunIs

LEMMA Copied ==
  ASSUME TypeOK, NEW k \in 1..Len(text), Placed(k), ~FmtAt(k), ~BadAt(k), seen = Begin(k),
         NEW end \in Nat, Begin(k + 1) <= end, end <= Len(source),
         NEW most \in Nat, most >= 2, NEW over \in Nat, NEW how,
         NEW kept, kept = IF use = "delim" THEN <<Backslash>> ELSE <<>>,
         HexAt(k) => \/ most = 2 \/ Begin(k + 1) = end
                     \/ source[Begin(k + 1) + 1] \notin HexDigit,
         CharAt(k) /\ source[seen + 1] = Backslash => Begin(k + 1) = end,
         Convert(end, most, over, kept, how)
  PROVE  /\ loop' = loop /\ Copies(k)
         /\ seen' = Begin(k + 1) + IF HexAt(k) THEN over ELSE 0
<1>1. /\ source \in Seq(Nat) /\ made \in Seq(Nat) /\ seen \in Nat /\ Len(source) \in Nat
      /\ \A p \in 1..Len(source) : source[p] \in Nat
  BY LenProperties, ElementOfSeq DEF TypeOK
<1>2. PICK c \in Nat, t \in Nat, u \in Nat :
             /\ Begin(k + 1) = c /\ Shown(k) = t /\ Shown(k + 1) = u
             /\ seen < c /\ c <= Len(source) /\ t <= u
  BY DEF Placed
<1> DEFINE e == source[seen + 2]
           n == HexRun(seen + 2, end, most)
<1>c. \/ ~Escaped(end) /\ Emit(<<source[seen + 1]>>, 1)
      \/ /\ Escaped(end) /\ e # LetterX
         /\ Emit(IF e \in DOMAIN Control THEN <<Control[e]>> ELSE kept \o <<e>>, 2)
      \/ /\ Escaped(end) /\ e = LetterX /\ n > 0
         /\ Emit(<<HexByte(seen + 2 + n, n)>>, 2 + n + over)
      \/ Escaped(end) /\ e = LetterX /\ n = 0 /\ Fail(how)
  BY DEF Convert
<1> HIDE DEF e, n
<1>3. CASE CharAt(k)
  <2>1. /\ text[k].k = "char"
        /\ c = seen + 1 /\ u = t + 1 /\ meant[t + 1] = source[seen + 1]
    BY <1>2, <1>3 DEF CharAt
  <2>b. source[seen + 1] = Backslash => seen + 1 = end
    BY <1>2, <1>3, <2>1
  <2>e. ~Escaped(end)
    BY <1>1, <2>b DEF Escaped
  <2>2. Emit(<<source[seen + 1]>>, 1)
    BY <1>c, <2>e, Zenon
  <2>3. made' = made \o <<source[seen + 1]>> /\ seen' = seen + 1 /\ loop' = loop
    BY <2>2 DEF Emit
  <2>4. source[seen + 1] \in Nat
    BY <1>1, <1>2, <2>1, SMTT(30)
  <2>5. Copies(k)
    BY <1>1, <1>2, <2>1, <2>3, <2>4, Appended
  <2>6. ~HexAt(k)
    BY <2>1 DEF HexAt, PairAt, SingleAt, BadAt
  <2> QED
    BY <1>1, <1>2, <2>1, <2>3, <2>5, <2>6
<1>4. CASE EscAt(k)
  <2>1. /\ text[k].k = "esc"
        /\ source[seen + 1] = Backslash /\ e # LetterX /\ c = seen + 2
        /\ IF e \in DOMAIN Control THEN u = t + 1 /\ meant[t + 1] = Control[e]
           ELSE IF use = "delim"
           THEN u = t + 2 /\ meant[t + 1] = Backslash /\ meant[t + 2] = e
           ELSE u = t + 1 /\ meant[t + 1] = e
    BY <1>2, <1>4 DEF EscAt, e
  <2>2. Escaped(end)
    BY <1>1, <1>2, <2>1 DEF Escaped
  <2>3. Emit(IF e \in DOMAIN Control THEN <<Control[e]>> ELSE kept \o <<e>>, 2)
    BY <1>c, <2>1, <2>2
  <2>4. /\ made' = made \o IF e \in DOMAIN Control THEN <<Control[e]>> ELSE kept \o <<e>>
        /\ seen' = seen + 2 /\ loop' = loop
    BY <2>3 DEF Emit
  <2>5. e \in Nat
    BY <1>1, <1>2, <2>1, SMTT(30) DEF e
  <2>6. ~HexAt(k)
    BY <2>1 DEF HexAt, PairAt, SingleAt, BadAt
  <2>7. CASE e \in DOMAIN Control
    <3>1. Control[e] \in Nat
      BY <2>7 DEF Control
    <3>2. Copies(k)
      BY <1>1, <1>2, <2>1, <2>4, <2>7, <3>1, Appended
    <3> QED
      BY <1>1, <1>2, <2>1, <2>4, <2>6, <3>2
  <2>8. CASE e \notin DOMAIN Control /\ use # "delim"
    <3>1. kept \o <<e>> = <<e>>
      <4>1. \A x \in Seq(Nat) : <<>> \o x = x
        BY ConcatEmptySeq
      <4>2. <<e>> \in Seq(Nat)
        BY <2>5
      <4> QED
        BY <2>8, <4>1, <4>2
    <3>2. Copies(k)
      BY <1>1, <1>2, <2>1, <2>4, <2>5, <2>8, <3>1, Appended
    <3> QED
      BY <1>1, <1>2, <2>1, <2>4, <2>6, <3>2
  <2>9. CASE e \notin DOMAIN Control /\ use = "delim"
    <3>1. kept \o <<e>> = <<Backslash, e>>
      <4>1. <<Backslash>> \o <<e>> = <<Backslash, e>>
        BY <2>5, Joined, Special
      <4> QED
        BY <2>9, <4>1
    <3>2. made' = made \o <<Backslash, e>>
      BY <2>4, <2>9, <3>1
    <3>3. /\ made' \in Seq(Nat) /\ Len(made') = Len(made) + 2 /\ Len(made) \in Nat
          /\ \A p \in 1..Len(made) : made'[p] = made[p]
          /\ made'[Len(made) + 1] = Backslash /\ made'[Len(made) + 2] = e
      BY <1>1, <2>5, <3>2, TwoMore, Special, LenProperties, SMTT(30)
    <3>4. u = t + 2 /\ meant[t + 1] = Backslash /\ meant[t + 2] = e
      BY <2>1, <2>9
    <3>5. ASSUME NEW p \in 1..(u - t) PROVE made'[Len(made) + p] = meant[t + p]
      <4>1. p = 1 \/ p = 2
        BY <3>4, OneOrTwo
      <4> QED
        BY <3>3, <3>4, <4>1
    <3>6. Copies(k)
      <4>1. u - t = 2
        BY <3>4
      <4> QED
        BY <1>2, <3>3, <3>5, <4>1 DEF Copies
    <3> QED
      BY <1>1, <1>2, <2>1, <2>4, <2>6, <3>6
  <2> QED
    BY <2>7, <2>8, <2>9
<1>5. CASE PairAt(k)
  <2>1. /\ source[seen + 1] = Backslash /\ e = LetterX
        /\ source[seen + 3] \in HexDigit /\ source[seen + 4] \in HexDigit
        /\ c = seen + 4 /\ u = t + 1
        /\ meant[t + 1] = 16 * HexVal(source[seen + 3]) + HexVal(source[seen + 4])
    BY <1>2, <1>5 DEF PairAt, e
  <2>h. HexAt(k)
    BY <1>5 DEF HexAt
  <2>2. Escaped(end)
    BY <1>1, <1>2, <2>1, SMTT(30) DEF Escaped
  <2>3. HexRun(seen + 2, end, most) = 2
    <3>1. seen + 4 <= end /\ c + 1 = seen + 5
      BY <1>1, <1>2, <2>1, SMTT(30)
    <3>2. most = 2 \/ seen + 4 = end \/ source[seen + 5] \notin HexDigit
      BY <1>2, <2>1, <2>h, <3>1
    <3>4. ASSUME NEW s \in Nat, s = seen PROVE HexRun(s + 2, end, most) = 2
      <4>1. source[s + 3] \in HexDigit /\ source[s + 4] \in HexDigit /\ s + 4 <= end
        BY <2>1, <3>1, <3>4, Zenon
      <4>2. most = 2 \/ s + 4 = end \/ source[s + 5] \notin HexDigit
        BY <3>2, <3>4, Zenon
      <4> QED
        BY <4>1, <4>2, PairRun
    <3> QED
      BY <1>1, <3>4, Zenon
  <2>4. Emit(<<HexByte(seen + 2 + 2, 2)>>, 2 + 2 + over)
    <3>1. n = 2 /\ n > 0 /\ n # 0
      BY <2>3 DEF n
    <3>2. Emit(<<HexByte(seen + 2 + n, n)>>, 2 + n + over)
      BY <1>c, <2>1, <2>2, <3>1, Zenon
    <3> QED
      BY <3>1, <3>2, Zenon
  <2>5. PICK x \in Nat, y \in Nat : x = HexVal(source[seen + 3]) /\ y = HexVal(source[seen + 4])
    <3>1. \A d \in HexDigit : HexVal(d) \in Nat
      BY DEF HexDigit, HexVal
    <3> QED
      BY <2>1, <3>1
  <2>6. PICK b \in Nat : b = 16 * x + y /\ b = HexByte(seen + 2 + 2, 2)
    <3>1. PICK l \in Nat : l = seen + 4
      BY <1>1
    <3>l. l = seen + 2 + 2 /\ l - 1 = seen + 3
      BY <1>1, <3>1
    <3>2. HexVal(source[l]) = y /\ HexVal(source[l - 1]) = x
      <4>1. source[l] = source[seen + 4] /\ source[l - 1] = source[seen + 3]
        BY <3>1, <3>l
      <4> QED
        BY <2>5, <4>1
    <3>3. HexByte(l, 2) = y + 16 * x
      <4>1. HexByte(l, 2) = HexVal(source[l]) + 16 * HexVal(source[l - 1])
        BY DEF HexByte
      <4> QED
        BY <3>2, <4>1
    <3> QED
      <4>1. PICK b \in Nat : b = y + 16 * x
        OBVIOUS
      <4>2. b = 16 * x + y
        BY <4>1
      <4>3. b = HexByte(seen + 2 + 2, 2)
        BY <3>l, <3>3, <4>1
      <4> QED
        BY <4>2, <4>3
  <2>7. made' = made \o <<b>> /\ seen' = seen + (2 + 2 + over) /\ loop' = loop
    BY <2>4, <2>6 DEF Emit
  <2>8. meant[t + 1] = b
    BY <2>1, <2>5, <2>6
  <2>9. Copies(k)
    BY <1>1, <1>2, <2>1, <2>7, <2>8, Appended
  <2>10. seen' = c + over
    BY <1>1, <2>1, <2>7, SMTT(30)
  <2> QED
    BY <1>2, <2>h, <2>7, <2>9, <2>10
<1>6. CASE SingleAt(k)
  <2>1. /\ source[seen + 1] = Backslash /\ e = LetterX
        /\ source[seen + 3] \in HexDigit /\ NoDigitAt(seen + 4)
        /\ c = seen + 3 /\ u = t + 1
        /\ meant[t + 1] = HexVal(source[seen + 3])
    BY <1>2, <1>6 DEF SingleAt, e
  <2>h. HexAt(k)
    BY <1>6 DEF HexAt
  <2>2. Escaped(end)
    BY <1>1, <1>2, <2>1, SMTT(30) DEF Escaped
  <2>3. HexRun(seen + 2, end, most) = 1
    <3>1. seen + 3 <= end
      BY <1>1, <1>2, <2>1, SMTT(30)
    <3>2. seen + 3 = end \/ seen + 4 <= Len(source)
      BY <1>1, <3>1, SMTT(30)
    <3>3. seen + 3 = end \/ source[seen + 4] \notin HexDigit
      BY <2>1, <3>2 DEF NoDigitAt
    <3>4. ASSUME NEW s \in Nat, s = seen PROVE HexRun(s + 2, end, most) = 1
      <4>1. source[s + 3] \in HexDigit /\ s + 3 <= end
        BY <2>1, <3>1, <3>4, Zenon
      <4>2. s + 3 = end \/ source[s + 4] \notin HexDigit
        BY <3>3, <3>4, Zenon
      <4> QED
        BY <4>1, <4>2, SingleRun
    <3> QED
      BY <1>1, <3>4, Zenon
  <2>4. Emit(<<HexByte(seen + 2 + 1, 1)>>, 2 + 1 + over)
    <3>1. n = 1 /\ n > 0 /\ n # 0
      BY <2>3 DEF n
    <3>2. Emit(<<HexByte(seen + 2 + n, n)>>, 2 + n + over)
      BY <1>c, <2>1, <2>2, <3>1, Zenon
    <3> QED
      BY <3>1, <3>2, Zenon
  <2>6. PICK b \in Nat : b = HexVal(source[seen + 3]) /\ b = HexByte(seen + 2 + 1, 1)
    <3>1. PICK l \in Nat : l = seen + 3
      BY <1>1
    <3>2. l = seen + 2 + 1
      BY <1>1, <3>1
    <3>3. \A d \in HexDigit : HexVal(d) \in Nat
      BY DEF HexDigit, HexVal
    <3>4. PICK b \in Nat : b = HexVal(source[l])
      BY <2>1, <3>1, <3>3
    <3>5. HexByte(l, 1) = b
      BY <3>4 DEF HexByte
    <3> QED
      BY <3>1, <3>2, <3>4, <3>5
  <2>7. made' = made \o <<b>> /\ seen' = seen + (2 + 1 + over) /\ loop' = loop
    BY <2>4, <2>6 DEF Emit
  <2>8. meant[t + 1] = b
    BY <2>1, <2>6
  <2>9. Copies(k)
    BY <1>1, <1>2, <2>1, <2>7, <2>8, Appended
  <2>10. seen' = c + over
    BY <1>1, <2>1, <2>7, SMTT(30)
  <2> QED
    BY <1>2, <2>h, <2>7, <2>9, <2>10
<1> QED
  BY <1>3, <1>4, <1>5, <1>6 DEF Placed, Stands, HexAt

(***************************************************************************)
(* A turn at a \x without digits ends the loop.                            *)
(***************************************************************************)
LEMMA Refused ==
  ASSUME TypeOK, NEW k \in 1..Len(text), Placed(k), BadAt(k), seen = Begin(k),
         NEW end \in Nat, Begin(k + 1) <= end, end <= Len(source),
         NEW most \in Nat, NEW over, NEW how, NEW kept,
         Convert(end, most, over, kept, how)
  PROVE  loop' = how
<1>1. seen \in Nat /\ Len(source) \in Nat
  BY LenProperties DEF TypeOK
<1>2. /\ source[seen + 1] = Backslash /\ source[seen + 2] = LetterX
      /\ NoDigitAt(seen + 3) /\ Begin(k + 1) = seen + 2
  BY DEF BadAt
<1>3. Escaped(end)
  BY <1>1, <1>2 DEF Escaped
<1>4. HexRun(seen + 2, end, most) = 0
  <2>1. PICK from \in Nat, none \in 0..most : from = seen + 2 /\ none = 0
    BY <1>1
  <2>2. from + none <= end /\ from + none + 1 = seen + 3
    BY <1>1, <1>2, <2>1
  <2>3. \A j \in 1..none : source[from + j] \in HexDigit
    BY <2>1
  <2>4. from + none = end \/ source[from + none + 1] \notin HexDigit
    <3>1. from + none # end => seen + 3 <= Len(source)
      BY <1>1, <2>1, <2>2
    <3> QED
      BY <1>2, <2>2, <3>1 DEF NoDigitAt
  <2> QED
    BY <2>1, <2>2, <2>3, <2>4, RunIs
<1> DEFINE e == source[seen + 2]
           n == HexRun(seen + 2, end, most)
<1>5. \/ ~Escaped(end) \/ e # LetterX \/ n > 0 \/ Fail(how)
  BY DEF Convert
<1>6. e = LetterX /\ ~(n > 0)
  BY <1>2, <1>4
<1> HIDE DEF e, n
<1>7. Fail(how)
  BY <1>3, <1>5, <1>6
<1> QED
  BY <1>7 DEF Fail

-----------------------------------------------------------------------------
(***************************************************************************)
(* ParseDelim: a turn leads from one item to the next, or over a digit     *)
(* that the hex escape before it swallows.                                 *)
(***************************************************************************)
LEMMA FirstByte ==
  ASSUME NEW k, Placed(k)
  PROVE  /\ CharAt(k) => source[Begin(k) + 1] = text[k].bs[1] /\ text[k].k = "char"
         /\ ~CharAt(k) => source[Begin(k) + 1] \in {Backslash, Percent}
         /\ CharAt(k) <=> text[k].k = "char"
         /\ EscAt(k) <=> text[k].k = "esc"
         /\ HexAt(k) <=> text[k].k = "hex"
         /\ FmtAt(k) <=> text[k].k = "fmt"
         /\ BadAt(k) <=> BadHex(text[k])
<1>1. /\ CharAt(k) => text[k].k = "char" /\ source[Begin(k) + 1] = text[k].bs[1]
      /\ EscAt(k) => text[k].k = "esc" /\ source[Begin(k) + 1] = Backslash
      /\ HexAt(k) => text[k].k = "hex" /\ source[Begin(k) + 1] = Backslash
      /\ FmtAt(k) => text[k].k = "fmt" /\ source[Begin(k) + 1] = Percent
  BY DEF CharAt, EscAt, HexAt, PairAt, SingleAt, BadAt, FmtAt
<1>2. BadAt(k) <=> BadHex(text[k])
  <2>1. BadAt(k) => BadHex(text[k])
    BY DEF BadAt, BadHex
  <2>2. ASSUME BadHex(text[k]) PROVE BadAt(k)
    <3>1. text[k].k = "hex" /\ text[k].bs = <<>>
      BY <2>2 DEF BadHex
    <3>2. HexAt(k)
      <4>1. text[k].k # "char" /\ text[k].k # "esc" /\ text[k].k # "fmt"
        BY <3>1
      <4> QED
        BY <1>1, <4>1 DEF Placed, Stands
    <3> QED
      BY <3>1, <3>2 DEF HexAt, PairAt, SingleAt
  <2> QED
    BY <2>1, <2>2
<1>3. CharAt(k) \/ EscAt(k) \/ HexAt(k) \/ FmtAt(k)
  BY DEF Placed, Stands
<1>4. text[k].k = "char" => CharAt(k)
  BY <1>1, <1>3
<1>5. text[k].k = "esc" => EscAt(k)
  BY <1>1, <1>3
<1>6. text[k].k = "hex" => HexAt(k)
  BY <1>1, <1>3
<1>7. text[k].k = "fmt" => FmtAt(k)
  BY <1>1, <1>3
<1> QED
  BY <1>1, <1>2, <1>3, <1>4, <1>5, <1>6, <1>7

LEMMA WholeOn ==
  ASSUME NEW k \in Nat, WholeBefore(k), ~BadHex(text[k])
  PROVE  WholeBefore(k + 1)
<1>1. ASSUME NEW j \in 1..(k + 1 - 1) PROVE ~BadHex(text[j])
  <2>1. j = k \/ j \in 1..(k - 1)
    OBVIOUS
  <2> QED
    BY <2>1 DEF WholeBefore
<1> QED
  BY <1>1 DEF WholeBefore

LEMMA DelimTurn ==
  ASSUME TypeOK, Marked, use = "delim", NEW k \in 1..(Len(text) + 1), DelimAt(k),
         ParseDelim, UNCHANGED <<use, text, meant>>
  PROVE  \/ loop' = "rejected" /\ \E j \in DOMAIN text : BadHex(text[j])
         \/ loop' = "delim" /\ \E m \in 1..(Len(text) + 1) : DelimAt(m)'
<1>1. /\ loop = "delim" /\ seen < Len(source)
      /\ Convert(Len(source), DelimDigits, 0, <<Backslash>>, "rejected")
      /\ source' = source /\ use' = use /\ text' = text /\ meant' = meant
  BY DEF ParseDelim
<1>2. PICK n \in Nat : n = Len(text)
  BY LenProperties DEF TypeOK
<1>3. /\ source \in Seq(Nat) /\ made \in Seq(Nat) /\ seen \in Nat
      /\ Len(source) \in Nat /\ Len(made) \in Nat
  BY LenProperties DEF TypeOK
<1>4. /\ \A m : Begin(m)' = Begin(m) /\ Shown(m)' = Shown(m)
      /\ \A m : Swallows(m)' <=> Swallows(m)
      /\ \A m : SwallowedBefore(m)' <=> SwallowedBefore(m)
      /\ \A m : WholeBefore(m)' <=> WholeBefore(m)
  <2>1. \A m : Begin(m)' = Begin(m) /\ Shown(m)' = Shown(m)
    BY <1>1 DEF Begin, Shown
  <2>2. \A m : Swallows(m)' <=> Swallows(m)
    BY <1>1 DEF Swallows, DigitNext
  <2>3. \A m : SwallowedBefore(m)' <=> SwallowedBefore(m)
    BY <1>1, <2>2 DEF SwallowedBefore
  <2>4. \A m : WholeBefore(m)' <=> WholeBefore(m)
    BY <1>1 DEF WholeBefore, BadHex
  <2> QED
    BY <2>1, <2>2, <2>3, <2>4
<1>5. /\ seen = Begin(k) /\ WholeBefore(k)
      /\ 1 < k /\ k <= n => ~Swallows(k - 1)
      /\ IF SwallowedBefore(k) THEN Len(made) < Shown(k)
         ELSE Len(made) = Shown(k) /\ \A p \in 1..Shown(k) : made[p] = meant[p]
  BY <1>2 DEF DelimAt
<1>6. k \in 1..n
  <2>1. k = n + 1 => Begin(k) = Len(source)
    BY <1>2 DEF Begin
  <2> QED
    BY <1>1, <1>2, <1>3, <1>5, <2>1
<1>7. Placed(k) /\ ~FmtAt(k)
  BY <1>2, <1>6 DEF Marked, FmtAt
<1>8. PICK a \in Nat, c \in Nat, t \in Nat, u \in Nat :
         /\ Begin(k) = a /\ Begin(k + 1) = c /\ Shown(k) = t /\ Shown(k + 1) = u
         /\ a < c /\ c <= Len(source) /\ t <= u
  BY <1>7 DEF Placed
<1>9. HexAt(k) <=> text[k].k = "hex"
  BY <1>7, FirstByte
<1>12. CASE BadAt(k)
  <2>1. /\ k \in 1..Len(text) /\ Begin(k + 1) <= Len(source) /\ seen = Begin(k)
        /\ DelimDigits \in Nat
    BY <1>2, <1>5, <1>6, <1>8 DEF DelimDigits
  <2>2. loop' = "rejected"
    BY <1>1, <1>3, <1>7, <1>12, <2>1, Refused
  <2>3. BadHex(text[k]) /\ k \in DOMAIN text
    BY <1>7, <1>12, <2>1, FirstByte
  <2> QED
    BY <2>2, <2>3
<1>13. ASSUME ~BadAt(k) PROVE WholeBefore(k + 1)
  <2>1. ~BadHex(text[k])
    BY <1>7, <1>13, FirstByte
  <2> QED
    BY <1>5, <1>6, <2>1, WholeOn
<1>10. CASE ~BadAt(k) /\ k < n /\ Swallows(k)
  <2>1. /\ text[k].k = "hex" /\ text[k + 1].k = "char" /\ text[k + 1].bs[1] \in HexDigit
        /\ k + 1 \in 1..n
    BY <1>6, <1>10 DEF Swallows, DigitNext
  <2>2. Placed(k + 1)
    BY <1>2, <2>1 DEF Marked
  <2>3. CharAt(k + 1) /\ source[c + 1] \in HexDigit
    <3>1. CharAt(k + 1)
      BY <2>1, <2>2, FirstByte
    <3> QED
      BY <1>8, <2>1, <2>2, <3>1, FirstByte
  <2>4. Begin(k + 2) = c + 1 /\ Shown(k + 2) = u + 1 /\ c + 1 <= Len(source)
    <3>1. k + 1 + 1 = k + 2
      BY <1>6
    <3> QED
      BY <1>8, <2>2, <2>3, <3>1 DEF CharAt, Placed
  <2>5. /\ source[a + 1] = Backslash /\ source[a + 2] = LetterX
        /\ source[a + 3] \in HexDigit /\ source[a + 4] \in HexDigit
        /\ c = a + 4 /\ u = t + 1
    <3>1. HexAt(k) /\ c + 1 <= Len(source)
      BY <1>9, <2>1, <2>4
    <3>2. ~SingleAt(k)
      <4>1. SingleAt(k) => c = a + 3 /\ NoDigitAt(a + 4)
        BY <1>8 DEF SingleAt
      <4>2. c = a + 3 => a + 4 = c + 1
        BY <1>8
      <4> QED
        BY <2>3, <3>1, <4>1, <4>2 DEF NoDigitAt
    <3>3. PairAt(k)
      BY <1>10, <3>1, <3>2 DEF HexAt
    <3> QED
      BY <1>8, <3>3 DEF PairAt
  <2>6. HexRun(a + 2, Len(source), 3) = 3
    <3>1. PICK from \in Nat, three \in 0..3 : from = a + 2 /\ three = 3
      OBVIOUS
    <3>2. from + three <= Len(source)
      BY <1>3, <2>4, <2>5, <3>1
    <3>3. \A j \in 1..three : source[from + j] \in HexDigit
      <4>1. ASSUME NEW j \in 1..three PROVE source[from + j] \in HexDigit
        <5>1. \/ j = 1 /\ from + j = a + 3
              \/ j = 2 /\ from + j = a + 4
              \/ j = 3 /\ from + j = c + 1
          BY <2>5, <3>1
        <5> QED
          BY <2>3, <2>5, <5>1
      <4> QED
        BY <4>1
    <3>4. HexRun(from, Len(source), 3) = three
      BY <1>3, <3>1, <3>2, <3>3, RunIs
    <3> QED
      BY <3>1, <3>4
  <2>7. Escaped(Len(source))
    BY <1>3, <1>5, <1>8, <2>4, <2>5 DEF Escaped
  <2>8. Emit(<<HexByte(a + 2 + 3, 3)>>, 2 + 3 + 0)
    BY <1>1, <1>5, <1>8, <2>5, <2>6, <2>7, SMTT(30) DEF Convert, DelimDigits
  <2>9. HexByte(a + 2 + 3, 3) \in Nat
    <3>1. PICK l \in Nat : l = c + 1
      OBVIOUS
    <3>2. l = a + 2 + 3 /\ l - 1 = a + 4
      BY <2>5, <3>1
    <3>3. source[l] \in HexDigit /\ source[l - 1] \in HexDigit
      BY <2>3, <2>5, <3>1, <3>2
    <3>4. HexByte(l, 3) \in Nat
      BY <3>3, ByteOfHex
    <3> QED
      BY <3>2, <3>4
  <2>10. Len(made') = Len(made) + 1 /\ seen' = c + 1 /\ loop' = loop
    <3>1. made' = made \o <<HexByte(a + 2 + 3, 3)>> /\ seen' = seen + (2 + 3 + 0) /\ loop' = loop
      BY <2>8 DEF Emit
    <3> QED
      BY <1>3, <1>5, <1>8, <2>5, <2>9, <3>1, OneMore
  <2>11. SwallowedBefore(k + 2) /\ ~Swallows(k + 1) /\ k + 2 \in 1..(n + 1)
    <3>1. k \in 1..(Len(text) - 1) /\ k + 1 < k + 2
      BY <1>2, <1>6, <1>10
    <3> QED
      BY <1>2, <1>10, <2>1, <3>1 DEF SwallowedBefore, Swallows
  <2>12. Len(made) <= t
    BY <1>3, <1>5, <1>8
  <2>13. DelimAt(k + 2)'
    <3>1. k + 2 - 1 = k + 1
      BY <1>6
    <3>2. Len(made') < Shown(k + 2)
      BY <1>3, <2>4, <2>5, <2>10, <2>12
    <3>3. WholeBefore(k + 2)
      <4>1. ~BadHex(text[k + 1]) /\ k + 1 \in Nat /\ k + 1 + 1 = k + 2
        BY <1>6, <2>1 DEF BadHex
      <4> QED
        BY <1>10, <1>13, <4>1, WholeOn
    <3> QED
      BY <1>4, <2>4, <2>10, <2>11, <3>1, <3>2, <3>3 DEF DelimAt
  <2> QED
    BY <1>1, <1>2, <2>10, <2>11, <2>13
<1>11. CASE ~BadAt(k) /\ ~(k < n /\ Swallows(k))
  <2>1. HexAt(k) => \/ c = Len(source) \/ source[c + 1] \notin HexDigit
    <3>1. SUFFICES ASSUME HexAt(k), c # Len(source), source[c + 1] \in HexDigit PROVE FALSE
      OBVIOUS
    <3>2. k < n
      BY <1>2, <1>6, <1>8, <3>1 DEF Begin
    <3>3. Placed(k + 1) /\ ~(source[c + 1] \in {Backslash, Percent})
      <4>1. k + 1 \in 1..n
        BY <1>6, <3>2
      <4>2. Placed(k + 1)
        BY <1>2, <4>1 DEF Marked
      <4>3. Backslash \notin HexDigit /\ Percent \notin HexDigit
        BY DEF HexDigit, Backslash, Percent
      <4> QED
        BY <3>1, <4>2, <4>3
    <3>4. text[k + 1].k = "char" /\ text[k + 1].bs[1] \in HexDigit
      BY <1>8, <3>1, <3>3, FirstByte
    <3> QED
      BY <1>9, <1>11, <3>1, <3>2, <3>4 DEF Swallows, DigitNext
  <2>2. loop' = loop /\ Copies(k) /\ seen' = c
    <3>1. PICK kept : kept = <<Backslash>>
      OBVIOUS
    <3>2. PICK most \in Nat : most = DelimDigits /\ most >= 2
      BY DEF DelimDigits
    <3>3. Convert(Len(source), most, 0, kept, "rejected")
      BY <1>1, <3>1, <3>2
    <3>4. kept = IF use = "delim" THEN <<Backslash>> ELSE <<>>
      BY <3>1
    <3>5. k \in 1..Len(text) /\ Begin(k + 1) <= Len(source) /\ seen = Begin(k)
      BY <1>2, <1>5, <1>6, <1>8
    <3>6. HexAt(k) => \/ most = 2 \/ Begin(k + 1) = Len(source)
                      \/ source[Begin(k + 1) + 1] \notin HexDigit
      BY <1>8, <2>1
    <3>b. CharAt(k) /\ source[seen + 1] = Backslash => Begin(k + 1) = Len(source)
      <4>1. SUFFICES ASSUME CharAt(k), source[seen + 1] = Backslash
                     PROVE  Begin(k + 1) = Len(source)
        OBVIOUS
      <4>2. k = Len(text) \/ text[k + 1].k = "fmt"
        BY <1>5, <4>1 DEF CharAt, Final
      <4>3. k + 1 \in 1..Len(text) => text[k + 1].k # "fmt"
        <5>1. k + 1 \in 1..Len(text) => Placed(k + 1)
          BY DEF Marked
        <5>2. Placed(k + 1) => (FmtAt(k + 1) <=> text[k + 1].k = "fmt")
          BY FirstByte
        <5> QED
          BY <5>1, <5>2 DEF FmtAt
      <4>4. k = Len(text)
        BY <1>2, <1>6, <4>2, <4>3
      <4> QED
        BY <1>2, <4>4 DEF Begin
    <3>7. /\ loop' = loop /\ Copies(k)
          /\ seen' = Begin(k + 1) + IF HexAt(k) THEN 0 ELSE 0
      BY <1>3, <1>7, <1>11, <3>2, <3>3, <3>4, <3>5, <3>6, <3>b, Copied
    <3> QED
      BY <1>8, <3>7
  <2>3. /\ Len(made') = Len(made) + (u - t) /\ \A p \in 1..Len(made) : made'[p] = made[p]
        /\ \A p \in 1..(u - t) : made'[Len(made) + p] = meant[t + p]
    BY <1>8, <2>2 DEF Copies
  <2>4. SwallowedBefore(k + 1) <=> SwallowedBefore(k)
    <3>1. ASSUME NEW j \in 1..(Len(text) - 1), Swallows(j), j + 1 < k + 1
          PROVE  j + 1 < k
      BY <1>2, <1>5, <1>6, <3>1
    <3>2. ASSUME NEW j \in 1..(Len(text) - 1), j + 1 < k PROVE j + 1 < k + 1
      BY <1>2, <1>6, <3>2
    <3> QED
      BY <3>1, <3>2 DEF SwallowedBefore
  <2>5. CASE SwallowedBefore(k)
    <3>1. Len(made') < Shown(k + 1)
      BY <1>3, <1>5, <1>8, <2>3, <2>5
    <3>2. DelimAt(k + 1)'
      <4>1. k + 1 - 1 = k
        BY <1>6
      <4> QED
        BY <1>1, <1>2, <1>4, <1>6, <1>8, <1>11, <1>13, <2>2, <2>4, <2>5, <3>1, <4>1 DEF DelimAt
    <3> QED
      BY <1>1, <1>2, <1>6, <2>2, <3>2
  <2>6. CASE ~SwallowedBefore(k)
    <3>1. Len(made) = t /\ \A p \in 1..t : made[p] = meant[p]
      BY <1>5, <1>8, <2>6
    <3>2. Len(made') = u
      BY <1>8, <2>3, <3>1
    <3>3. ASSUME NEW p \in 1..u PROVE made'[p] = meant[p]
      <4>1. CASE p <= t
        BY <2>3, <3>1, <4>1
      <4>2. CASE p > t
        <5>1. p - t \in 1..(u - t) /\ t + (p - t) = p
          BY <1>8, <4>2
        <5> QED
          BY <2>3, <3>1, <5>1
      <4> QED
        BY <4>1, <4>2
    <3>4. Len(made') = Shown(k + 1) /\ \A p \in 1..Shown(k + 1) : made'[p] = meant[p]
      BY <1>8, <3>2, <3>3
    <3>5. DelimAt(k + 1)'
      <4>1. k + 1 - 1 = k
        BY <1>6
      <4> QED
        BY <1>1, <1>2, <1>4, <1>6, <1>8, <1>11, <1>13, <2>2, <2>4, <2>6, <3>4, <4>1 DEF DelimAt
    <3> QED
      BY <1>1, <1>2, <1>6, <2>2, <3>5
  <2> QED
    BY <2>5, <2>6
<1> QED
  BY <1>10, <1>11, <1>12

LEMMA DelimEnds ==
  ASSUME TypeOK, Marked, use = "delim", NEW k \in 1..(Len(text) + 1), DelimAt(k),
         seen = Len(source)
  PROVE  /\ \A j \in DOMAIN text : ~BadHex(text[j])
         /\ made = meant <=> ~HexBefore(DigitNext)
<1>1. PICK n \in Nat : n = Len(text)
  BY LenProperties DEF TypeOK
<1>2. made \in Seq(Nat) /\ meant \in Seq(Nat) /\ Len(made) \in Nat /\ Len(meant) \in Nat
  BY LenProperties DEF TypeOK
<1>3. k = n + 1
  <2>1. Begin(n + 1) = Len(source) /\ seen = Begin(k)
    BY <1>1 DEF Begin, DelimAt
  <2>2. k < n + 1 => Begin(k) < Begin(n + 1)
    BY <1>1 DEF Marked
  <2>3. Len(source) \in Nat
    BY LenProperties DEF TypeOK
  <2> QED
    BY <1>1, <2>1, <2>2, <2>3
<1>4. Shown(k) = Len(meant)
  BY <1>1, <1>3 DEF Shown
<1>5. SwallowedBefore(k) <=> HexBefore(DigitNext)
  <2>1. \A j \in 1..(Len(text) - 1) : j + 1 < k
    BY <1>1, <1>3
  <2> QED
    BY <2>1 DEF SwallowedBefore, Swallows, HexBefore
<1>8. \A j \in DOMAIN text : ~BadHex(text[j])
  <2>1. DOMAIN text = 1..(k - 1)
    BY <1>1, <1>3, LenProperties DEF TypeOK
  <2> QED
    BY <2>1 DEF DelimAt, WholeBefore
<1>6. CASE SwallowedBefore(k)
  <2>1. Len(made) < Len(meant)
    BY <1>4, <1>6 DEF DelimAt
  <2> QED
    BY <1>2, <1>5, <1>6, <1>8, <2>1
<1>7. CASE ~SwallowedBefore(k)
  <2>1. Len(made) = Len(meant) /\ \A p \in 1..Len(made) : made[p] = meant[p]
    BY <1>4, <1>7 DEF DelimAt
  <2>2. made = meant
    BY <1>2, <2>1, SeqEqual
  <2> QED
    BY <1>5, <1>7, <1>8, <2>2
<1> QED
  BY <1>6, <1>7

LEMMA DelimNext ==
  ASSUME Kept, DelimIInv, [EscapesNext]_inputVars
  PROVE  DelimIInv'
<1>1. TypeOK /\ (Own => Marked)
  BY DEF Kept
<1>2. ASSUME UNCHANGED <<use, text, meant, key>>, loop' \notin {"delim", "rejected"},
             loop # "rejected",
             loop \in {"writing", "delim"} /\ use = "delim" => loop' = loop
      PROVE  DelimIInv'
  <2>1. HexBefore(DigitNext)' <=> HexBefore(DigitNext)
    BY <1>2 DEF HexBefore, DigitNext
  <2>2. (\A j \in DOMAIN text : ~BadHex(text[j])) => (\A j \in DOMAIN text : ~BadHex(text[j]))'
    BY <1>2 DEF BadHex
  <2> QED
    BY <1>2, <2>1, <2>2 DEF DelimIInv, DelimMeans
<1>3. ASSUME NEW w \in Writable, Write(w) PROVE DelimIInv'
  BY <1>3 DEF Write, DelimIInv, DelimMeans
<1>4. CASE Enter
  <2>1. loop = "writing" /\ loop' = use /\ UNCHANGED <<source, seen, made, key, use, text, meant>>
    BY <1>4 DEF Enter
  <2>2. CASE use = "delim"
    <3>1. Marked /\ seen = 0 /\ made = <<>>
      BY <1>1, <2>1 DEF Own, TypeOK
    <3>2. Begin(1)' = 0 /\ Shown(1)' = 0
      BY <2>1, <3>1 DEF Marked, Begin, Shown
    <3>3. ~SwallowedBefore(1)'
      <4>1. \A j \in 1..(Len(text') - 1) : ~(j + 1 < 1)
        <5>1. Len(text) \in Nat /\ text' = text
          BY <1>1, <2>1, LenProperties DEF TypeOK
        <5> QED
          BY <5>1
      <4> QED
        BY <4>1 DEF SwallowedBefore
    <3>4. Len(made') = 0
      BY <2>1, <3>1, EmptySeq
    <3>w. WholeBefore(1)'
      BY DEF WholeBefore
    <3>5. DelimAt(1)'
      BY <2>1, <3>1, <3>2, <3>3, <3>4, <3>w DEF DelimAt
    <3>6. 1 \in 1..(Len(text') + 1)
      <4>1. Len(text') \in Nat
        BY <1>1, <2>1, LenProperties DEF TypeOK
      <4> QED
        BY <4>1
    <3> QED
      BY <2>1, <2>2, <3>5, <3>6 DEF DelimIInv, DelimMeans
  <2>3. CASE use # "delim"
    BY <1>1, <2>1, <2>3 DEF TypeOK, DelimIInv, DelimMeans
  <2> QED
    BY <2>2, <2>3
<1>5. CASE EscapeStep /\ UNCHANGED <<use, text, meant>>
  <2>1. CASE ParseDelim
    <3>1. loop = "delim" /\ use = "delim" /\ \E k \in 1..(Len(text) + 1) : DelimAt(k)
      BY <2>1 DEF ParseDelim, DelimIInv
    <3>2. \/ loop' = "rejected" /\ \E j \in DOMAIN text : BadHex(text[j])
          \/ loop' = "delim" /\ \E k \in 1..(Len(text) + 1) : DelimAt(k)'
      <4>1. Marked /\ UNCHANGED <<use, text, meant>>
        BY <1>1, <1>5, <3>1 DEF Own
      <4> QED
        BY <1>1, <2>1, <3>1, <4>1, DelimTurn
    <3>3. CASE loop' = "rejected" /\ \E j \in DOMAIN text : BadHex(text[j])
      <4>1. (\E j \in DOMAIN text : BadHex(text[j]))'
        BY <1>5, <3>3 DEF BadHex
      <4> QED
        BY <3>3, <4>1 DEF DelimIInv, DelimMeans
    <3>4. CASE loop' = "delim" /\ \E k \in 1..(Len(text) + 1) : DelimAt(k)'
      BY <1>5, <3>1, <3>4 DEF DelimIInv, DelimMeans
    <3> QED
      BY <3>2, <3>3, <3>4
  <2>2. CASE DelimParsed
    <3>1. /\ loop = "delim" /\ seen = Len(source) /\ key' = made /\ loop' = "format"
          /\ use = "delim" /\ \E k \in 1..(Len(text) + 1) : DelimAt(k)
      BY <2>2 DEF DelimParsed, DelimIInv
    <3>2. Marked
      BY <1>1, <3>1 DEF Own
    <3>3. /\ \A j \in DOMAIN text : ~BadHex(text[j])
          /\ made = meant <=> ~HexBefore(DigitNext)
      BY <1>1, <3>1, <3>2, DelimEnds
    <3>4. HexBefore(DigitNext)' <=> HexBefore(DigitNext)
      BY <1>5 DEF HexBefore, DigitNext
    <3>5. (\A j \in DOMAIN text : ~BadHex(text[j]))'
      BY <1>5, <3>3 DEF BadHex
    <3> QED
      BY <1>5, <3>1, <3>3, <3>4, <3>5 DEF DelimIInv, DelimMeans
  <2>3. CASE FormatToken
    <3>1. loop = "format" /\ loop' \in {"format", "failed"} /\ key' = key
      BY <2>3 DEF FormatToken, Parsing, Emit, Fail
    <3> QED
      BY <1>2, <1>5, <3>1
  <2>4. CASE Literal
    BY <1>2, <1>5, <2>4 DEF Literal, Parsing
  <2>5. CASE ResolveEscapes
    <3>1. loop = "format" /\ loop' \in {"format", "failed"} /\ key' = key
      BY <2>5 DEF ResolveEscapes, Convert, Emit, Fail
    <3> QED
      BY <1>2, <1>5, <3>1
  <2>6. CASE Resolved
    BY <1>2, <1>5, <2>6 DEF Resolved
  <2>7. CASE Parsed
    BY <1>2, <1>5, <2>7 DEF Parsed
  <2> QED
    BY <1>5, <2>1, <2>2, <2>3, <2>4, <2>5, <2>6, <2>7 DEF EscapeStep
<1>6. CASE UNCHANGED inputVars
  <2>1. UNCHANGED <<source, seen, limit, made, loop, key, use, text, meant>>
    BY <1>6 DEF inputVars, escapeVars
  <2>2. HexBefore(DigitNext)' <=> HexBefore(DigitNext)
    BY <2>1 DEF HexBefore, DigitNext
  <2>3. \A k : DelimAt(k)' <=> DelimAt(k)
    BY <2>1 DEF DelimAt, WholeBefore, BadHex, Begin, Shown, Swallows, SwallowedBefore, DigitNext
  <2>4. \A j : BadHex(text[j])' <=> BadHex(text[j])
    BY <2>1 DEF BadHex
  <2> QED
    BY <2>1, <2>2, <2>3, <2>4 DEF DelimIInv, DelimMeans
<1> QED
  BY <1>3, <1>4, <1>5, <1>6 DEF EscapesNext, Writable

-----------------------------------------------------------------------------
(***************************************************************************)
(* Parse and resolveEscapes.  First what the invariant is made of: it does *)
(* not change while they run, and what has been compared stays so.         *)
(***************************************************************************)
LEMMA Steady ==
  ASSUME UNCHANGED <<source, text, meant, use>>
  PROVE  /\ \A k : Begin(k)' = Begin(k) /\ Shown(k)' = Shown(k)
         /\ \A k : KnownBefore(k)' <=> KnownBefore(k)
         /\ \A k : EndsAt(k)' <=> EndsAt(k)
         /\ \A k, m : LiteralUpTo(k, m)' <=> LiteralUpTo(k, m)
         /\ \A k : LostBefore(k)' <=> LostBefore(k)
         /\ \A k : LosesInto(k)' <=> LosesInto(k)
         /\ HexBefore(Reread)' <=> HexBefore(Reread)
         /\ HexBefore(LiteralNext)' <=> HexBefore(LiteralNext)
         /\ \A j : BadFormatter(text[j])' <=> BadFormatter(text[j])
         /\ \A j : BadHex(text[j])' <=> BadHex(text[j])
         /\ \A k : WholeBefore(k)' <=> WholeBefore(k)
<1>1. source' = source /\ text' = text /\ meant' = meant /\ use' = use
  OBVIOUS
<1>2. \A k : Begin(k)' = Begin(k) /\ Shown(k)' = Shown(k)
  BY <1>1 DEF Begin, Shown
<1>3. \A j : BadFormatter(text[j])' <=> BadFormatter(text[j])
  BY <1>1 DEF BadFormatter
<1>4. \A k : KnownBefore(k)' <=> KnownBefore(k)
  BY <1>3 DEF KnownBefore
<1>5. /\ \A k : EndsAt(k)' <=> EndsAt(k)
      /\ \A k, m : LiteralUpTo(k, m)' <=> LiteralUpTo(k, m)
  BY <1>1 DEF EndsAt, LiteralUpTo
<1>6. \A j : Loses(j)' <=> Loses(j)
  BY <1>1 DEF Loses, LiteralNext
<1>7. /\ \A k : LostBefore(k)' <=> LostBefore(k)
      /\ \A k : LosesInto(k)' <=> LosesInto(k)
  BY <1>1, <1>6 DEF LostBefore, LosesInto
<1>8. HexBefore(Reread)' <=> HexBefore(Reread)
  BY <1>1 DEF HexBefore, Reread
<1>9. HexBefore(LiteralNext)' <=> HexBefore(LiteralNext)
  BY <1>1 DEF HexBefore, LiteralNext
<1>10. \A j : BadHex(text[j])' <=> BadHex(text[j])
  BY <1>1 DEF BadHex
<1>11. \A k : WholeBefore(k)' <=> WholeBefore(k)
  BY <1>10 DEF WholeBefore
<1> QED
  BY <1>2, <1>3, <1>4, <1>5, <1>7, <1>8, <1>9, <1>10, <1>11

LEMMA LostGrows ==
  ASSUME TypeOK, NEW k \in 1..Len(text)
  PROVE  LostBefore(k + 1) <=> LostBefore(k) \/ LosesInto(k)
<1>1. PICK n \in Nat : n = Len(text)
  BY LenProperties DEF TypeOK
<1>2. ASSUME NEW j \in 1..(n - 1), j + 1 < k + 1, Loses(j)
      PROVE  LostBefore(k) \/ LosesInto(k)
  <2>1. CASE j + 1 < k
    BY <1>1, <1>2, <2>1 DEF LostBefore
  <2>2. CASE j = k - 1
    <3>1. 1 < k /\ k <= Len(text)
      BY <1>1, <2>2
    <3> QED
      BY <1>2, <2>2, <3>1 DEF LosesInto
  <2> QED
    BY <1>2, <2>1, <2>2
<1>3. ASSUME LostBefore(k) PROVE LostBefore(k + 1)
  <2>1. PICK j \in 1..(n - 1) : j + 1 < k /\ Loses(j)
    BY <1>1, <1>3 DEF LostBefore
  <2>2. j + 1 < k + 1
    BY <2>1
  <2> QED
    BY <1>1, <2>1, <2>2 DEF LostBefore
<1>4. ASSUME LosesInto(k) PROVE LostBefore(k + 1)
  <2>1. k - 1 \in 1..(n - 1) /\ k - 1 + 1 < k + 1 /\ Loses(k - 1)
    BY <1>1, <1>4 DEF LosesInto
  <2> QED
    BY <1>1, <2>1 DEF LostBefore
<1> QED
  BY <1>1, <1>2, <1>3, <1>4 DEF LostBefore

LEMMA ComparesOn ==
  ASSUME TypeOK, NEW k \in 1..Len(text), Placed(k), Copies(k),
         UNCHANGED <<source, text, meant, use>>
  PROVE  /\ Same(k) => Same(k + 1)'
         /\ Other(k) => Other(k + 1)'
         /\ Compares(k) /\ ~LosesInto(k) /\ ~BadHex(text[k]) => Compares(k + 1)'
         /\ Compares(k) => Len(made') <= Shown(k + 1)
<1>1. PICK t \in Nat, u \in Nat, d \in Nat :
         Shown(k) = t /\ Shown(k + 1) = u /\ t <= u /\ d = u - t
  BY DEF Placed
<1>2. PICK a \in Nat : a = Len(made)
  BY LenProperties DEF TypeOK
<1>3. /\ Len(made') = a + d
      /\ \A p \in 1..a : made'[p] = made[p]
      /\ \A p \in 1..d : made'[a + p] = meant[t + p]
  BY <1>1, <1>2 DEF Copies
<1>4. Shown(k + 1)' = u /\ meant' = meant
  BY <1>1, Steady
<1>5. ASSUME Same(k) PROVE Same(k + 1)' /\ a = t
  <2>1. a = t /\ \A p \in 1..t : made[p] = meant[p]
    BY <1>1, <1>2, <1>5 DEF Same
  <2>2. ASSUME NEW p \in 1..u PROVE made'[p] = meant[p]
    <3>1. CASE p <= t
      BY <1>3, <2>1, <3>1
    <3>2. CASE p > t
      <4>1. p - t \in 1..d /\ t + (p - t) = p
        BY <1>1, <3>2
      <4> QED
        BY <1>3, <2>1, <4>1
    <3> QED
      BY <3>1, <3>2
  <2>3. Len(made') = u
    BY <1>1, <1>3, <2>1
  <2> QED
    BY <1>4, <2>1, <2>2, <2>3 DEF Same
<1>6. ASSUME Other(k) PROVE Other(k + 1)' /\ a <= t
  <2>1. CASE a < t
    <3>1. Len(made') < u
      BY <1>1, <1>3, <2>1
    <3> QED
      BY <1>4, <2>1, <3>1 DEF Other
  <2>2. CASE a = t /\ \E p \in 1..t : made[p] # meant[p]
    <3>1. PICK p \in 1..t : made[p] # meant[p]
      BY <2>2
    <3>2. p \in 1..u /\ made'[p] # meant'[p] /\ Len(made') = u
      BY <1>1, <1>3, <1>4, <2>2, <3>1
    <3> QED
      BY <1>4, <2>2, <3>2 DEF Other
  <2> QED
    BY <1>1, <1>2, <1>6, <2>1, <2>2 DEF Other
<1>7. LostBefore(k + 1)' <=> LostBefore(k) \/ LosesInto(k)
  BY Steady, LostGrows
<1>8. Compares(k) /\ ~LosesInto(k) /\ ~BadHex(text[k]) => Compares(k + 1)'
  <2>1. WholeBefore(k) /\ ~BadHex(text[k]) => WholeBefore(k + 1)'
    <3>1. WholeBefore(k) /\ ~BadHex(text[k]) => WholeBefore(k + 1)
      BY WholeOn
    <3> QED
      BY <3>1, Steady
  <2> QED
    BY <1>5, <1>6, <1>7, <2>1 DEF Compares
<1>9. Compares(k) => Len(made') <= Shown(k + 1)
  <2>1. Compares(k) => a <= t
    BY <1>5, <1>6 DEF Compares
  <2> QED
    BY <1>1, <1>3, <2>1
<1> QED
  BY <1>5, <1>6, <1>8, <1>9

-----------------------------------------------------------------------------
(***************************************************************************)
(* The tokens and the literals between them.                               *)
(***************************************************************************)
LEMMA NoPercent ==
  ASSUME NEW k, Placed(k), ~FmtAt(k), use = "format"
  PROVE  \A p \in (Begin(k) + 1)..Begin(k + 1) : source[p] # Percent
<1>1. PICK a \in Nat, c \in Nat : Begin(k) = a /\ Begin(k + 1) = c
  BY DEF Placed
<1>2. ASSUME NEW p \in (a + 1)..c PROVE source[p] # Percent
  <2>0. Backslash # Percent /\ LetterX # Percent /\ Percent \notin HexDigit
    BY DEF Backslash, Percent, LetterX, HexDigit
  <2>1. CASE CharAt(k)
    <3>1. c = a + 1 /\ source[a + 1] # Percent
      BY <1>1, <2>1 DEF CharAt
    <3>2. p = a + 1
      BY <3>1
    <3> QED
      BY <3>1, <3>2
  <2>2. CASE EscAt(k)
    <3>1. c = a + 2 /\ source[a + 1] = Backslash /\ source[a + 2] # Percent
      BY <1>1, <2>2 DEF EscAt
    <3>2. p = a + 1 \/ p = a + 2
      BY <3>1
    <3> QED
      BY <2>0, <3>1, <3>2
  <2>3. CASE HexAt(k)
    <3>1. source[a + 1] = Backslash /\ source[a + 2] = LetterX
      BY <1>1, <2>3 DEF HexAt, PairAt, SingleAt, BadAt
    <3>2. \/ c = a + 4 /\ source[a + 3] \in HexDigit /\ source[a + 4] \in HexDigit
          \/ c = a + 3 /\ source[a + 3] \in HexDigit
          \/ c = a + 2
      BY <1>1, <2>3 DEF HexAt, PairAt, SingleAt, BadAt
    <3>3. p = a + 1 \/ p = a + 2 \/ p = a + 3 \/ p = a + 4
      BY <3>2
    <3>4. /\ p = a + 3 => source[a + 3] \in HexDigit
          /\ p = a + 4 => source[a + 4] \in HexDigit
      BY <3>2
    <3> QED
      BY <2>0, <3>1, <3>3, <3>4
  <2> QED
    BY <2>1, <2>2, <2>3 DEF Placed, Stands
<1> QED
  BY <1>1, <1>2

LEMMA LiteralEnds ==
  ASSUME TypeOK, Marked, use = "format", NEW k \in 1..Len(text),
         seen = Begin(k), text[k].k # "fmt"
  PROVE  \E m \in (k + 1)..(Len(text) + 1) :
            NextPercent = Begin(m) /\ EndsAt(m) /\ LiteralUpTo(k, m)
<1>1. PICK n \in Nat : n = Len(text)
  BY LenProperties DEF TypeOK
<1>2. Placed(k) /\ Begin(k) \in Nat /\ Begin(k) < Len(source) /\ Len(source) \in Nat
  <2>1. Placed(k) /\ Len(source) \in Nat
    BY LenProperties DEF Marked, TypeOK
  <2> QED
    BY <2>1 DEF Placed
<1>3. PICK q \in Nat :
         /\ q = NextPercent /\ seen < q /\ q <= Len(source)
         /\ q < Len(source) => source[q + 1] = Percent
         /\ \A j \in (seen + 2)..q : source[j] # Percent
  BY <1>2, NextIsAhead
<1>4. ASSUME NEW m \in (k + 1)..(n + 1), Begin(m) = q PROVE LiteralUpTo(k, m)
  <2>1. SUFFICES ASSUME NEW j \in k..(m - 1), text[j].k = "fmt" PROVE FALSE
    BY DEF LiteralUpTo
  <2>2. j \in 1..n /\ k < j /\ j < m /\ m \in 1..(n + 1) /\ k \in 1..(n + 1) /\ j \in 1..(n + 1)
    BY <1>1, <2>1
  <2>3. Placed(j) /\ Begin(k) < Begin(j) /\ Begin(j) < q
    BY <1>1, <1>4, <2>2 DEF Marked
  <2>4. FmtAt(j)
    BY <2>1, <2>3, FirstByte
  <2>5. source[Begin(j) + 1] = Percent
    BY <2>4 DEF FmtAt
  <2>6. Begin(j) + 1 \in (seen + 2)..q
    <3>1. Begin(j) \in Nat
      BY <2>3 DEF Placed
    <3> QED
      BY <1>2, <2>3, <3>1
  <2> QED
    BY <1>3, <2>5, <2>6
<1>5. CASE q = Len(source)
  <2>1. n + 1 \in (k + 1)..(n + 1) /\ Begin(n + 1) = q /\ EndsAt(n + 1)
    BY <1>1, <1>5 DEF Begin, EndsAt
  <2> QED
    BY <1>1, <1>3, <1>4, <2>1
<1>6. CASE q < Len(source)
  <2>1. PICK m \in 1..n : Begin(m) < q + 1 /\ q + 1 <= Begin(m + 1)
    <3>1. q + 1 \in 1..Len(source)
      BY <1>2, <1>6
    <3>2. \A p \in 1..Len(source) : \E m \in 1..n : Begin(m) < p /\ p <= Begin(m + 1)
      BY <1>1 DEF Marked
    <3> QED
      BY <3>1, <3>2
  <2>2. Placed(m) /\ source[q + 1] = Percent
    BY <1>1, <1>3, <1>6 DEF Marked
  <2>3. PICK a \in Nat, c \in Nat : Begin(m) = a /\ Begin(m + 1) = c
    BY <2>2 DEF Placed
  <2>4. FmtAt(m)
    <3>1. q + 1 \in (a + 1)..c
      BY <2>1, <2>3
    <3>2. SUFFICES ASSUME ~FmtAt(m) PROVE FALSE
      OBVIOUS
    <3>3. \A p \in (Begin(m) + 1)..Begin(m + 1) : source[p] # Percent
      BY <2>2, <3>2, NoPercent
    <3> QED
      BY <2>2, <2>3, <3>1, <3>3
  <2>5. text[m].k = "fmt" /\ source[a + 1] = Percent /\ c <= a + 2
    BY <2>3, <2>4 DEF FmtAt
  <2>6. k < m
    <3>1. m # k
      BY <2>5
    <3>2. ~(m < k)
      <4>1. SUFFICES ASSUME m < k PROVE FALSE
        OBVIOUS
      <4>2. m + 1 = k \/ (m + 1 < k /\ m + 1 \in 1..(Len(text) + 1) /\ k \in 1..(Len(text) + 1))
        BY <1>1, <4>1
      <4>3. Begin(m + 1) <= Begin(k)
        <5>1. CASE m + 1 = k
          BY <1>2, <5>1
        <5>2. CASE m + 1 # k
          <6>1. Begin(m + 1) < Begin(k)
            BY <4>2, <5>2 DEF Marked
          <6> QED
            BY <1>2, <2>3, <6>1
        <5> QED
          BY <5>1, <5>2
      <4> QED
        BY <1>2, <1>3, <2>1, <2>3, <4>3
    <3> QED
      BY <3>1, <3>2
  <2>7. Begin(k) < a
    BY <1>1, <2>3, <2>6 DEF Marked
  <2>8. a = q
    <3>1. a = q \/ a + 1 = q
      BY <2>1, <2>3, <2>5
    <3>2. a + 1 # q
      <4>1. SUFFICES ASSUME a + 1 = q PROVE FALSE
        OBVIOUS
      <4>2. a + 1 \in (seen + 2)..q
        BY <1>2, <2>7, <4>1
      <4> QED
        BY <1>3, <2>5, <4>2
    <3> QED
      BY <3>1, <3>2
  <2>9. m \in (k + 1)..(n + 1) /\ EndsAt(m)
    BY <2>5, <2>6 DEF EndsAt
  <2> QED
    BY <1>1, <1>3, <1>4, <2>3, <2>8, <2>9
<1> QED
  BY <1>3, <1>5, <1>6

(***************************************************************************)
(* A token: the formatter is the one that was written.                     *)
(***************************************************************************)
LEMMA TokenTurn ==
  ASSUME TypeOK, Marked, use = "format", FormatMeans, limit = 0,
         NEW k \in 1..(Len(text) + 1), FormatAt(k),
         FormatToken, UNCHANGED <<use, text, meant>>
  PROVE  FormatIInv'
<1>1. /\ loop = "format" /\ seen < Len(source) /\ source[seen + 1] = Percent
      /\ IF seen + 1 < Len(source) /\ KnownFormatter(source[seen + 2])
         THEN Emit(<<TokenOf(source[seen + 2])>>, 2)
         ELSE Fail("failed")
      /\ limit' = limit /\ UNCHANGED <<source, text, meant, use>>
  BY DEF FormatToken, Parsing
<1>2. PICK n \in Nat : n = Len(text)
  BY LenProperties DEF TypeOK
<1>3. /\ made \in Seq(Nat) /\ Len(source) \in Nat
      /\ \A p \in 1..Len(source) : source[p] \in Nat
  BY LenProperties, ElementOfSeq DEF TypeOK
<1>4. seen = Begin(k) /\ KnownBefore(k)
  BY DEF FormatAt
<1>5. k \in 1..n
  <2>1. k = n + 1 => Begin(k) = Len(source)
    BY <1>2 DEF Begin
  <2> QED
    BY <1>1, <1>2, <1>3, <1>4, <2>1
<1>6. Placed(k)
  BY <1>2, <1>5 DEF Marked
<1>7. PICK a \in Nat, c \in Nat, t \in Nat, u \in Nat :
         /\ Begin(k) = a /\ Begin(k + 1) = c /\ Shown(k) = t /\ Shown(k + 1) = u
         /\ a < c /\ c <= Len(source) /\ seen = a
  BY <1>4, <1>6 DEF Placed
<1>8. FmtAt(k) /\ text[k].k = "fmt"
  <2>1. Backslash # Percent
    BY DEF Backslash, Percent
  <2>2. ~CharAt(k) /\ ~EscAt(k) /\ ~HexAt(k)
    BY <1>1, <1>4, <2>1 DEF CharAt, EscAt, HexAt, PairAt, SingleAt, BadAt
  <2> QED
    BY <1>6, <2>2 DEF Placed, Stands, FmtAt
<1>9. CASE BadFormatter(text[k])
  <2>1. \/ c = a + 2 /\ ~KnownFormatter(source[a + 2])
        \/ c = a + 1 /\ k = n
    BY <1>2, <1>7, <1>8, <1>9 DEF FmtAt
  <2>2. ~(seen + 1 < Len(source) /\ KnownFormatter(source[seen + 2]))
    <3>1. CASE c = a + 2 /\ ~KnownFormatter(source[a + 2])
      BY <1>7, <3>1
    <3>2. CASE c = a + 1 /\ k = n
      <4>1. c = Len(source)
        <5>1. Begin(n + 1) = Len(source)
          BY <1>2 DEF Begin
        <5> QED
          BY <1>7, <3>2, <5>1
      <4> QED
        BY <1>3, <1>7, <3>2, <4>1
    <3> QED
      BY <2>1, <3>1, <3>2
  <2>3. loop' = "failed"
    BY <1>1, <2>2 DEF Fail
  <2>4. \E j \in DOMAIN text' : BadFormatter(text[j])'
    <3>1. k \in DOMAIN text' /\ (BadFormatter(text[k])' <=> BadFormatter(text[k]))
      BY <1>1, <1>2, <1>5, Steady DEF TypeOK
    <3> QED
      BY <1>9, <3>1
  <2> QED
    BY <2>3, <2>4 DEF FormatIInv, FormatMeans
<1>10. CASE ~BadFormatter(text[k])
  <2>1. /\ c = a + 2 /\ KnownFormatter(source[a + 2])
        /\ u = t + 1 /\ meant[t + 1] = TokenOf(source[a + 2])
    BY <1>7, <1>8, <1>10 DEF FmtAt
  <2>2. seen + 1 < Len(source) /\ KnownFormatter(source[seen + 2])
    BY <1>3, <1>7, <2>1
  <2>3. Emit(<<TokenOf(source[seen + 2])>>, 2)
    BY <1>1, <2>2
  <2>4. PICK b \in Nat : b = TokenOf(source[a + 2])
    <3>1. PICK x \in Nat : x = source[a + 2]
      BY <1>3, <1>7, <2>1
    <3>2. TokenOf(x) \in Nat
      BY DEF TokenOf, Formatter
    <3> QED
      BY <3>1, <3>2
  <2>5. made' = made \o <<b>> /\ seen' = c /\ loop' = "format"
    BY <1>1, <1>7, <2>1, <2>3, <2>4 DEF Emit
  <2>6. Copies(k)
    BY <1>3, <1>7, <2>1, <2>4, <2>5, Appended
  <2>7. KnownBefore(k + 1)'
    <3>1. KnownBefore(k + 1)
      <4>1. ASSUME NEW j \in 1..(k + 1 - 1) PROVE ~BadFormatter(text[j])
        <5>1. j \in 1..(k - 1) \/ j = k
          OBVIOUS
        <5> QED
          BY <1>4, <1>10, <5>1 DEF KnownBefore
      <4> QED
        BY <4>1 DEF KnownBefore
    <3> QED
      BY <1>1, <3>1, Steady
  <2>8. ASSUME ~HexBefore(Reread)' PROVE Compares(k + 1)' /\ ~LosesInto(k + 1)'
    <3>1. Compares(k) /\ ~LosesInto(k)
      BY <1>1, <2>8, Steady DEF FormatAt
    <3>2. Compares(k + 1)'
      <4>1. ~BadHex(text[k])
        BY <1>8 DEF BadHex
      <4> QED
        BY <1>1, <1>2, <1>5, <1>6, <2>6, <3>1, <4>1, ComparesOn
    <3>3. ~LosesInto(k + 1)
      <4>1. k + 1 - 1 = k
        OBVIOUS
      <4> QED
        BY <1>8, <4>1 DEF LosesInto, Loses
    <3> QED
      BY <1>1, <3>2, <3>3, Steady
  <2>9. FormatAt(k + 1)'
    <3>1. seen' = Begin(k + 1)'
      BY <1>1, <1>7, <2>5, Steady
    <3> QED
      BY <2>7, <2>8, <3>1 DEF FormatAt
  <2>10. k + 1 \in 1..(Len(text') + 1) /\ limit' = 0
    BY <1>1, <1>2, <1>5
  <2> QED
    BY <2>5, <2>9, <2>10 DEF FormatIInv, FormatMeans
<1> QED
  BY <1>9, <1>10

(***************************************************************************)
(* A literal begins and ends between items.                                *)
(***************************************************************************)
LEMMA LiteralTurn ==
  ASSUME TypeOK, Marked, use = "format", FormatMeans, limit = 0,
         NEW k \in 1..(Len(text) + 1), FormatAt(k),
         Literal, UNCHANGED <<use, text, meant>>
  PROVE  FormatIInv'
<1>1. /\ loop = "format" /\ seen < Len(source) /\ source[seen + 1] # Percent
      /\ limit' = NextPercent /\ UNCHANGED <<seen, made, loop>>
      /\ UNCHANGED <<source, text, meant, use>>
  BY DEF Literal, Parsing
<1>2. PICK n \in Nat : n = Len(text)
  BY LenProperties DEF TypeOK
<1>3. seen = Begin(k) /\ KnownBefore(k) /\ Len(source) \in Nat /\ seen \in Nat
  BY LenProperties DEF FormatAt, TypeOK
<1>4. k \in 1..n
  <2>1. k = n + 1 => Begin(k) = Len(source)
    BY <1>2 DEF Begin
  <2> QED
    BY <1>1, <1>2, <1>3, <2>1
<1>5. text[k].k # "fmt"
  <2>1. Placed(k)
    BY <1>2, <1>4 DEF Marked
  <2>2. ~FmtAt(k)
    BY <1>1, <1>3 DEF FmtAt
  <2> QED
    BY <2>1, <2>2, FirstByte
<1>6. PICK m \in (k + 1)..(n + 1) : NextPercent = Begin(m) /\ EndsAt(m) /\ LiteralUpTo(k, m)
  BY <1>2, <1>3, <1>4, <1>5, LiteralEnds
<1>7. KnownBefore(m)
  <2>1. ASSUME NEW j \in 1..(m - 1) PROVE ~BadFormatter(text[j])
    <3>1. j \in 1..(k - 1) \/ j \in k..(m - 1)
      BY <1>4, <1>6
    <3>2. j \in k..(m - 1) => text[j].k # "fmt"
      BY <1>6 DEF LiteralUpTo
    <3> QED
      BY <1>3, <3>1, <3>2 DEF KnownBefore, BadFormatter
  <2> QED
    BY <2>1 DEF KnownBefore
<1>8. ASSUME ~HexBefore(Reread)' PROVE Aligned(k, m)'
  <2>1. Compares(k) /\ ~LosesInto(k)
    BY <1>1, <1>8, Steady DEF FormatAt
  <2>2. Compares(k)'
    <3>1. (LostBefore(k)' <=> LostBefore(k)) /\ (WholeBefore(k)' <=> WholeBefore(k))
      BY <1>1, Steady
    <3>2. /\ Same(k)' <=> Same(k)
          /\ Other(k)' <=> Other(k)
      <4>1. Shown(k)' = Shown(k)
        BY <1>1, Steady
      <4> QED
        BY <1>1, <4>1 DEF Same, Other
    <3> QED
      BY <2>1, <3>1, <3>2 DEF Compares
  <2>3. LiteralUpTo(k, m)' /\ seen' = Begin(k)' /\ ~LosesInto(k)'
    BY <1>1, <1>3, <1>6, <2>1, Steady
  <2> QED
    BY <2>2, <2>3 DEF Aligned
<1>9. LiteralAt(m)'
  <2>1. limit' = Begin(m)' /\ KnownBefore(m)' /\ EndsAt(m)'
    BY <1>1, <1>6, <1>7, Steady
  <2>2. k \in 1..m
    BY <1>4, <1>6
  <2> QED
    BY <1>8, <2>1, <2>2 DEF LiteralAt
<1>10. limit' # 0 /\ m \in 1..(Len(text') + 1)
  <2>1. NextPercent \in Nat /\ seen < NextPercent
    BY <1>1, NextIsAhead
  <2> QED
    BY <1>1, <1>2, <1>3, <1>4, <1>6, <2>1
<1> QED
  BY <1>1, <1>9, <1>10 DEF FormatIInv, FormatMeans

LEMMA ResolvedTurn ==
  ASSUME TypeOK, Marked, use = "format", FormatMeans, limit # 0,
         NEW m \in 1..(Len(text) + 1), LiteralAt(m),
         Resolved, UNCHANGED <<use, text, meant>>
  PROVE  FormatIInv'
<1>1. /\ loop = "format" /\ seen >= limit /\ seen' = limit /\ limit' = 0
      /\ UNCHANGED <<made, loop>> /\ UNCHANGED <<source, text, meant, use>>
  BY DEF Resolved
<1>2. PICK n \in Nat : n = Len(text)
  BY LenProperties DEF TypeOK
<1>3. limit = Begin(m) /\ KnownBefore(m) /\ EndsAt(m) /\ limit \in Nat /\ seen \in Nat
  BY DEF LiteralAt, TypeOK
<1>4. ~LosesInto(m)
  <2>1. CASE m = n + 1
    BY <1>2, <2>1 DEF LosesInto
  <2>2. CASE text[m].k = "fmt"
    <3>1. m - 1 + 1 = m
      OBVIOUS
    <3> QED
      BY <2>2, <3>1 DEF LosesInto, Loses, LiteralNext
  <2> QED
    BY <1>2, <1>3, <2>1, <2>2 DEF EndsAt
<1>5. ASSUME ~HexBefore(Reread) PROVE Compares(m)
  <2>1. PICK k \in 1..m : Aligned(k, m)
    BY <1>5 DEF LiteralAt
  <2>2. k = m
    <3>1. SUFFICES ASSUME k < m PROVE FALSE
      OBVIOUS
    <3>2. k \in 1..n /\ k \in 1..(n + 1) /\ m \in 1..(n + 1)
      BY <1>2, <3>1
    <3>3. PICK a \in Nat : a = Begin(k) /\ a < limit
      <4>1. Begin(k) < Begin(m) /\ Begin(k) \in Nat
        BY <1>2, <3>1, <3>2 DEF Marked, Placed
      <4> QED
        BY <1>3, <4>1
    <3>4. seen = a + 1 /\ text[k].k = "esc"
      BY <1>1, <1>3, <2>1, <3>1, <3>3 DEF Aligned
    <3>5. Begin(k + 1) = a + 2
      <4>1. Placed(k)
        BY <1>2, <3>2 DEF Marked
      <4>2. EscAt(k)
        BY <3>4, <4>1, FirstByte
      <4> QED
        BY <3>3, <4>2 DEF EscAt
    <3>6. Begin(k + 1) <= limit
      <4>1. CASE k + 1 = m
        BY <1>3, <4>1
      <4>2. CASE k + 1 < m
        <5>1. k + 1 \in 1..(n + 1)
          BY <3>2
        <5>2. Begin(k + 1) < Begin(m)
          BY <1>2, <3>2, <4>2, <5>1 DEF Marked
        <5> QED
          BY <1>3, <3>5, <5>2
      <4> QED
        BY <3>1, <4>1, <4>2
    <3> QED
      BY <1>1, <1>3, <3>3, <3>4, <3>5, <3>6
  <2> QED
    BY <2>1, <2>2 DEF Aligned
<1>6. Compares(m) => Compares(m)'
  <2>1. (LostBefore(m)' <=> LostBefore(m)) /\ (WholeBefore(m)' <=> WholeBefore(m))
    BY <1>1, Steady
  <2>2. /\ Same(m)' <=> Same(m)
        /\ Other(m)' <=> Other(m)
    <3>1. Shown(m)' = Shown(m)
      BY <1>1, Steady
    <3> QED
      BY <1>1, <3>1 DEF Same, Other
  <2> QED
    BY <2>1, <2>2 DEF Compares
<1>7. FormatAt(m)'
  <2>1. seen' = Begin(m)' /\ KnownBefore(m)'
    BY <1>1, <1>3, Steady
  <2>2. ASSUME ~HexBefore(Reread)' PROVE Compares(m)' /\ ~LosesInto(m)'
    BY <1>1, <1>4, <1>5, <1>6, <2>2, Steady
  <2> QED
    BY <2>1, <2>2 DEF FormatAt
<1>8. m \in 1..(Len(text') + 1)
  BY <1>1
<1> QED
  BY <1>1, <1>7, <1>8 DEF FormatIInv, FormatMeans

(***************************************************************************)
(* A turn of resolveEscapes.  It keeps the compared part and its           *)
(* alignment, unless a hex escape stands before one or before \\.          *)
(***************************************************************************)
LEMMA AlignedOn ==
  ASSUME UNCHANGED <<source, text, meant, use>>, NEW k, NEW m,
         LiteralUpTo(k, m), Compares(k)',
         \/ seen' = Begin(k) /\ ~LosesInto(k)
         \/ seen' = Begin(k) + 1 /\ k = m
         \/ /\ seen' = Begin(k) + 1 /\ 1 < k /\ k < m
            /\ text[k - 1].k = "hex" /\ text[k].k = "esc" /\ text[k].bs[1] # Backslash
  PROVE  Aligned(k, m)'
<1>1. text' = text /\ LiteralUpTo(k, m)' /\ Begin(k)' = Begin(k)
      /\ (LosesInto(k)' <=> LosesInto(k))
  BY Steady
<1> QED
  BY <1>1 DEF Aligned

LEMMA UpToLess ==
  ASSUME NEW k \in Nat, NEW m \in Nat, LiteralUpTo(k, m), NEW j \in Nat, j >= k
  PROVE  LiteralUpTo(j, m)
<1>1. \A i \in j..(m - 1) : i \in k..(m - 1)
  OBVIOUS
<1> QED
  BY <1>1 DEF LiteralUpTo

LEMMA ResolveTurn ==
  ASSUME TypeOK, Marked, use = "format", ~HexBefore(Reread),
         NEW m \in 1..(Len(text) + 1), limit = Begin(m), NEW k \in 1..m, Aligned(k, m),
         ResolveEscapes, UNCHANGED <<use, text, meant>>
  PROVE  \/ loop' = "failed" /\ \E j \in DOMAIN text : BadHex(text[j])
         \/ loop' = "format" /\ \E j \in 1..m : Aligned(j, m)'
<1>1. /\ loop = "format" /\ seen < limit
      /\ Convert(limit, 2, 1, KeptOfUnknown, "failed")
      /\ UNCHANGED <<source, text, meant, use>>
  BY DEF ResolveEscapes
<1>2. PICK n \in Nat : n = Len(text)
  BY LenProperties DEF TypeOK
<1>3. /\ seen \in Nat /\ limit \in Nat /\ limit <= Len(source) /\ Len(source) \in Nat
      /\ made \in Seq(Nat) /\ Len(made) \in Nat
      /\ \A p \in 1..Len(source) : source[p] \in Nat
  BY LenProperties, ElementOfSeq DEF TypeOK
<1>4. LiteralUpTo(k, m) /\ Compares(k)
  BY DEF Aligned
<1>5. k < m /\ k \in 1..n /\ k + 1 \in 1..m
  <2>1. k # m
    BY <1>1, <1>3 DEF Aligned
  <2> QED
    BY <1>2, <2>1
<1>6. Placed(k) /\ ~FmtAt(k)
  <2>1. Placed(k)
    BY <1>2, <1>5 DEF Marked
  <2>2. text[k].k # "fmt"
    BY <1>4, <1>5 DEF LiteralUpTo
  <2> QED
    BY <2>1, <2>2 DEF FmtAt
<1>7. PICK a \in Nat, c \in Nat, t \in Nat, u \in Nat :
         /\ Begin(k) = a /\ Begin(k + 1) = c /\ Shown(k) = t /\ Shown(k + 1) = u
         /\ a < c /\ t <= u
  BY <1>6 DEF Placed
<1>8. c <= limit
  <2>1. CASE k + 1 = m
    BY <1>3, <1>7, <2>1
  <2>2. CASE k + 1 < m
    <3>1. Begin(k + 1) < Begin(m)
      BY <1>2, <1>5, <2>2 DEF Marked
    <3> QED
      BY <1>3, <1>7, <3>1
  <2> QED
    BY <1>5, <2>1, <2>2
<1>9. LiteralUpTo(k + 1, m) /\ k \in Nat /\ m \in Nat
  BY <1>4, UpToLess
<1>12. CASE seen = a /\ BadAt(k)
  <2>1. PICK most \in Nat : most = 2
    OBVIOUS
  <2>2. /\ k \in 1..Len(text) /\ Begin(k + 1) <= limit /\ seen = Begin(k)
        /\ Convert(limit, most, 1, KeptOfUnknown, "failed")
    BY <1>1, <1>2, <1>5, <1>7, <1>8, <1>12, <2>1
  <2>3. loop' = "failed"
    BY <1>3, <1>6, <1>12, <2>2, Refused
  <2>4. BadHex(text[k]) /\ k \in DOMAIN text
    BY <1>6, <1>12, <2>2, FirstByte DEF TypeOK
  <2> QED
    BY <2>3, <2>4
<1>10. CASE seen = a /\ ~LosesInto(k) /\ ~BadAt(k)
  <2>1. loop' = loop /\ Copies(k) /\ seen' = c + IF HexAt(k) THEN 1 ELSE 0
    <3>1. PICK kept : kept = <<>>
      OBVIOUS
    <3>2. PICK most \in Nat : most = 2
      OBVIOUS
    <3>3. Convert(limit, most, 1, kept, "failed")
      BY <1>1, <3>1, <3>2 DEF KeptOfUnknown
    <3>4. kept = IF use = "delim" THEN <<Backslash>> ELSE <<>>
      BY <3>1
    <3>5. k \in 1..Len(text) /\ Begin(k + 1) <= limit /\ seen = Begin(k) /\ most >= 2
      BY <1>2, <1>5, <1>7, <1>8, <1>10, <3>2
    <3>6. HexAt(k) => \/ most = 2 \/ Begin(k + 1) = limit
                      \/ source[Begin(k + 1) + 1] \notin HexDigit
      BY <3>2
    <3>b. CharAt(k) /\ source[seen + 1] = Backslash => Begin(k + 1) = limit
      <4>1. SUFFICES ASSUME CharAt(k), source[seen + 1] = Backslash
                     PROVE  Begin(k + 1) = limit
        OBVIOUS
      <4>2. k = Len(text) \/ text[k + 1].k = "fmt"
        BY <1>7, <1>10, <4>1 DEF CharAt, Final
      <4>3. k + 1 < m => text[k + 1].k # "fmt"
        BY <1>5, <1>9 DEF LiteralUpTo
      <4>4. k + 1 = m
        BY <1>2, <1>5, <4>2, <4>3
      <4> QED
        BY <4>4
    <3>7. /\ loop' = loop /\ Copies(k)
          /\ seen' = Begin(k + 1) + IF HexAt(k) THEN 1 ELSE 0
      BY <1>3, <1>6, <1>10, <3>3, <3>4, <3>5, <3>6, <3>b, Copied
    <3> QED
      BY <1>7, <3>7
  <2>2. Compares(k + 1)' /\ Len(made') <= u
    <3>1. ~BadHex(text[k])
      BY <1>6, <1>10, FirstByte
    <3> QED
      BY <1>1, <1>2, <1>4, <1>5, <1>6, <1>7, <1>10, <2>1, <3>1, ComparesOn
  <2>3. CASE ~HexAt(k)
    <3>1. text[k].k # "hex" /\ k + 1 - 1 = k
      BY <1>6, <2>3, FirstByte
    <3>2. ~LosesInto(k + 1)
      BY <3>1 DEF LosesInto, Loses
    <3>3. seen' = Begin(k + 1)
      BY <1>7, <2>1, <2>3
    <3>4. Aligned(k + 1, m)'
      BY <1>1, <1>9, <2>2, <3>2, <3>3, AlignedOn
    <3> QED
      BY <1>1, <1>5, <2>1, <3>4
  <2>4. CASE HexAt(k) /\ k + 1 = m
    <3>1. seen' = Begin(k + 1) + 1
      BY <1>7, <2>1, <2>4
    <3>2. Aligned(k + 1, m)'
      BY <1>1, <1>9, <2>2, <2>4, <3>1, AlignedOn
    <3> QED
      BY <1>1, <1>5, <2>1, <3>2
  <2>5. CASE HexAt(k) /\ k + 1 < m
    <3>1. k + 1 \in 1..n /\ k \in 1..(Len(text) - 1) /\ seen' = c + 1
      BY <1>2, <1>5, <2>1, <2>5
    <3>2. Placed(k + 1) /\ text[k].k = "hex" /\ text[k + 1].k # "fmt"
      <4>1. Placed(k + 1)
        BY <1>2, <3>1 DEF Marked
      <4>2. text[k].k = "hex"
        BY <1>6, <2>5, FirstByte
      <4>3. text[k + 1].k # "fmt"
        BY <1>9, <2>5 DEF LiteralUpTo
      <4> QED
        BY <4>1, <4>2, <4>3
    <3>3. ~Reread(text[k + 1])
      BY <3>1, <3>2 DEF HexBefore
    <3>4. CharAt(k + 1) \/ EscAt(k + 1)
      <4>1. text[k + 1].k # "hex"
        BY <3>3 DEF Reread
      <4>2. ~HexAt(k + 1) /\ ~FmtAt(k + 1)
        BY <3>2, <4>1, FirstByte
      <4> QED
        BY <3>2, <4>2 DEF Placed, Stands
    <3>5. CASE CharAt(k + 1)
      <4>1. k + 1 + 1 = k + 2 /\ k + 2 - 1 = k + 1 /\ k + 2 \in 1..m
        BY <1>5, <2>5
      <4>2. Begin(k + 2) = c + 1 /\ Shown(k + 2) = u + 1 /\ text[k + 1].k = "char"
        BY <1>7, <3>5, <4>1 DEF CharAt
      <4>3. LostBefore(k + 2)
        <5>1. Loses(k)
          BY <3>2, <4>2 DEF Loses, LiteralNext
        <5>2. k + 1 < k + 2
          OBVIOUS
        <5> QED
          BY <3>1, <5>1, <5>2 DEF LostBefore
      <4>4. ~LosesInto(k + 2)
        BY <4>1, <4>2 DEF LosesInto, Loses
      <4>5. Compares(k + 2)'
        <5>1. Len(made') < u + 1 /\ Shown(k + 2)' = u + 1 /\ LostBefore(k + 2)'
          <6>1. Len(made') \in Nat
            BY <2>1, LenProperties DEF Copies
          <6> QED
            BY <1>1, <2>2, <4>2, <4>3, <6>1, Steady
        <5>2. WholeBefore(k + 2)'
          <6>1. WholeBefore(k + 1)
            BY <1>1, <2>2, Steady DEF Compares
          <6>2. ~BadHex(text[k + 1]) /\ k + 1 \in Nat
            BY <3>1, <4>2 DEF BadHex
          <6>3. WholeBefore(k + 1 + 1)
            BY <6>1, <6>2, WholeOn
          <6> QED
            BY <1>1, <4>1, <6>3, Steady
        <5> QED
          BY <5>1, <5>2 DEF Compares, Other
      <4>6. LiteralUpTo(k + 2, m)
        BY <1>4, <1>9, UpToLess
      <4>7. Aligned(k + 2, m)'
        BY <1>1, <3>1, <4>2, <4>4, <4>5, <4>6, AlignedOn
      <4> QED
        BY <1>1, <2>1, <4>1, <4>7
    <3>6. CASE EscAt(k + 1)
      <4>1. text[k + 1].k = "esc" /\ text[k + 1].bs[1] # Backslash
        BY <3>3, <3>6 DEF EscAt, Reread
      <4>2. seen' = Begin(k + 1) + 1 /\ 1 < k + 1 /\ k + 1 - 1 = k
        BY <1>5, <1>7, <3>1
      <4>3. Aligned(k + 1, m)'
        BY <1>1, <1>9, <2>2, <2>5, <3>2, <4>1, <4>2, AlignedOn
      <4> QED
        BY <1>1, <1>5, <2>1, <4>3
    <3> QED
      BY <3>4, <3>5, <3>6
  <2> QED
    BY <1>5, <2>3, <2>4, <2>5
<1>11. CASE /\ seen = a + 1 /\ 1 < k
            /\ text[k - 1].k = "hex" /\ text[k].k = "esc" /\ text[k].bs[1] # Backslash
  <2>1. PICK e \in Nat : e = source[a + 2]
    <3>1. c = a + 2
      <4>1. EscAt(k)
        BY <1>6, <1>11, FirstByte
      <4> QED
        BY <1>7, <4>1 DEF EscAt
    <3>2. a + 2 \in 1..Len(source)
      BY <1>3, <1>8, <3>1
    <3> QED
      BY <1>3, <3>2
  <2>2. EscAt(k)
    BY <1>6, <1>11, FirstByte
  <2>3. /\ c = a + 2 /\ e # Backslash /\ text[k].bs[1] = e /\ u = t + 1
        /\ meant[t + 1] = IF e \in DOMAIN Control THEN Control[e] ELSE e
    BY <1>7, <1>11, <2>1, <2>2 DEF EscAt
  <2>4. made' = made \o <<e>> /\ seen' = c /\ loop' = loop
    <3>1. source[seen + 1] = e /\ seen + 1 = c
      BY <1>11, <2>1, <2>3
    <3>2. ~Escaped(limit)
      BY <2>3, <3>1 DEF Escaped
    <3>3. Emit(<<e>>, 1)
      BY <1>1, <3>1, <3>2 DEF Convert
    <3> QED
      BY <1>11, <2>3, <3>1, <3>3 DEF Emit
  <2>5. LosesInto(k) <=> e \in DOMAIN Control
    <3>1. k - 1 + 1 = k /\ k <= Len(text)
      BY <1>2, <1>5
    <3> QED
      BY <1>11, <2>3, <3>1 DEF LosesInto, Loses, LiteralNext
  <2>w. ~BadHex(text[k]) /\ WholeBefore(k + 1)'
    <3>1. ~BadHex(text[k])
      BY <1>11 DEF BadHex
    <3>2. WholeBefore(k + 1)
      BY <1>4, <1>9, <3>1, WholeOn DEF Compares
    <3> QED
      BY <1>1, <3>1, <3>2, Steady
  <2>6. Compares(k + 1)'
    <3>1. CASE e \notin DOMAIN Control
      <4>1. Copies(k)
        BY <1>3, <1>7, <2>3, <2>4, <3>1, Appended
      <4> QED
        BY <1>1, <1>2, <1>4, <1>5, <1>6, <2>5, <2>w, <3>1, <4>1, ComparesOn
    <3>2. CASE e \in DOMAIN Control
      <4>1. LostBefore(k + 1)' /\ Shown(k + 1)' = u
        BY <1>1, <1>2, <1>5, <1>7, <2>5, <3>2, LostGrows, Steady
      <4>2. /\ Len(made') = Len(made) + 1 /\ made'[Len(made) + 1] = e
            /\ \A p \in 1..Len(made) : made'[p] = made[p]
        BY <1>3, <2>4, OneMore
      <4>3. Len(made) <= t
        BY <1>3, <1>4, <1>7 DEF Compares, Same, Other
      <4>4. CASE Len(made) < t
        <5>1. Len(made') < u
          BY <1>3, <2>3, <4>2, <4>4
        <5> QED
          BY <2>w, <4>1, <5>1 DEF Compares, Other
      <4>5. CASE Len(made) = t
        <5>1. Control[e] # e
          BY <3>2 DEF Control
        <5>2. Len(made') = u /\ u \in 1..u /\ made'[u] = e /\ meant'[u] = Control[e]
          BY <1>1, <2>3, <3>2, <4>2, <4>5
        <5> QED
          BY <2>w, <4>1, <5>1, <5>2 DEF Compares, Other
      <4> QED
        BY <1>3, <4>3, <4>4, <4>5
    <3> QED
      BY <3>1, <3>2
  <2>7. ~LosesInto(k + 1)
    <3>1. k + 1 - 1 = k
      OBVIOUS
    <3> QED
      BY <1>11, <3>1 DEF LosesInto, Loses
  <2>8. Aligned(k + 1, m)'
    BY <1>1, <1>7, <1>9, <2>4, <2>6, <2>7, AlignedOn
  <2> QED
    BY <1>1, <1>5, <2>4, <2>8
<1> QED
  BY <1>5, <1>7, <1>10, <1>11, <1>12 DEF Aligned

LEMMA FormatEnds ==
  ASSUME TypeOK, Marked, use = "format", limit = 0,
         NEW k \in 1..(Len(text) + 1), FormatAt(k), seen = Len(source)
  PROVE  /\ \A j \in DOMAIN text : ~BadFormatter(text[j])
         /\ ~HexBefore(Reread) => /\ \A j \in DOMAIN text : ~BadHex(text[j])
                                  /\ made = meant <=> ~HexBefore(LiteralNext)
<1>1. PICK n \in Nat : n = Len(text) /\ DOMAIN text = 1..n
  BY LenProperties DEF TypeOK
<1>2. made \in Seq(Nat) /\ meant \in Seq(Nat) /\ Len(made) \in Nat /\ Len(meant) \in Nat
  BY LenProperties DEF TypeOK
<1>3. k = n + 1
  <2>1. Begin(n + 1) = Len(source) /\ seen = Begin(k)
    BY <1>1 DEF Begin, FormatAt
  <2>2. k < n + 1 => Begin(k) < Begin(n + 1)
    BY <1>1 DEF Marked
  <2>3. Len(source) \in Nat
    BY LenProperties DEF TypeOK
  <2> QED
    BY <1>1, <2>1, <2>2, <2>3
<1>4. \A j \in DOMAIN text : ~BadFormatter(text[j])
  <2>1. DOMAIN text = 1..(k - 1)
    BY <1>1, <1>3
  <2> QED
    BY <2>1 DEF FormatAt, KnownBefore
<1>5. Shown(k) = Len(meant)
  BY <1>1, <1>3 DEF Shown
<1>6. LostBefore(k) <=> HexBefore(LiteralNext)
  <2>1. \A j \in 1..(Len(text) - 1) : j + 1 < k
    BY <1>1, <1>3
  <2> QED
    BY <2>1 DEF LostBefore, Loses, HexBefore
<1>7. ASSUME ~HexBefore(Reread)
      PROVE  /\ \A j \in DOMAIN text : ~BadHex(text[j])
             /\ made = meant <=> ~HexBefore(LiteralNext)
  <2>1. Compares(k)
    BY <1>7 DEF FormatAt
  <2>w. \A j \in DOMAIN text : ~BadHex(text[j])
    <3>1. DOMAIN text = 1..(k - 1)
      BY <1>1, <1>3
    <3> QED
      BY <2>1, <3>1 DEF Compares, WholeBefore
  <2>2. CASE LostBefore(k)
    <3>1. Other(k)
      BY <2>1, <2>2 DEF Compares
    <3>2. made # meant
      BY <1>2, <1>5, <3>1 DEF Other
    <3> QED
      BY <1>6, <2>2, <2>w, <3>2
  <2>3. CASE ~LostBefore(k)
    <3>1. Len(made) = Len(meant) /\ \A p \in 1..Len(made) : made[p] = meant[p]
      BY <1>5, <2>1, <2>3 DEF Compares, Same
    <3>2. made = meant
      BY <1>2, <3>1, SeqEqual
    <3> QED
      BY <1>6, <2>3, <2>w, <3>2
  <2> QED
    BY <2>2, <2>3
<1> QED
  BY <1>4, <1>7

LEMMA FormatNext ==
  ASSUME Kept, loop = "delim" => use = "delim", FormatIInv, [EscapesNext]_inputVars
  PROVE  FormatIInv'
<1>1. TypeOK /\ (Own => Marked) /\ FormatMeans
  BY DEF Kept, FormatIInv
<1>2. ASSUME UNCHANGED <<use, text, meant>>, use # "format" \/ loop' \in {"writing", "delim", "rejected"}
      PROVE  FormatIInv'
  BY <1>2 DEF FormatIInv, FormatMeans
<1>3. ASSUME NEW w \in Writable, Write(w) PROVE FormatIInv'
  BY <1>3 DEF Write, FormatIInv, FormatMeans
<1>4. CASE Enter
  <2>1. /\ loop = "writing" /\ loop' = use
        /\ UNCHANGED <<source, seen, limit, made, use, text, meant>>
    BY <1>4 DEF Enter
  <2>2. CASE use = "format"
    <3>1. Marked /\ seen = 0 /\ made = <<>> /\ limit = 0
      BY <1>1, <2>1 DEF Own, TypeOK
    <3>2. Begin(1) = 0 /\ Shown(1) = 0
      BY <3>1 DEF Marked
    <3>3. PICK n \in Nat : n = Len(text)
      BY <1>1, LenProperties DEF TypeOK
    <3>4. ~LostBefore(1) /\ ~LosesInto(1) /\ KnownBefore(1)
      BY <3>3 DEF LostBefore, LosesInto, KnownBefore
    <3>5. Same(1)'
      <4>1. Len(made') = 0 /\ Shown(1)' = 0
        BY <2>1, <3>1, <3>2, EmptySeq, Steady
      <4> QED
        BY <4>1 DEF Same
    <3>6. FormatAt(1)'
      <4>1. seen' = Begin(1)' /\ ~LostBefore(1)' /\ ~LosesInto(1)' /\ KnownBefore(1)'
        BY <2>1, <3>1, <3>2, <3>4, Steady
      <4> QED
        <5>1. WholeBefore(1)'
          BY DEF WholeBefore
        <5> QED
          BY <3>5, <4>1, <5>1 DEF FormatAt, Compares
    <3>7. 1 \in 1..(Len(text') + 1) /\ limit' = 0
      BY <2>1, <3>1, <3>3
    <3> QED
      BY <2>1, <2>2, <3>6, <3>7 DEF FormatIInv, FormatMeans
  <2>3. CASE use # "format"
    BY <1>2, <2>1, <2>3
  <2> QED
    BY <2>2, <2>3
<1>5. CASE EscapeStep /\ UNCHANGED <<use, text, meant>>
  <2>1. CASE use # "format"
    BY <1>2, <1>5, <2>1
  <2>2. ASSUME use = "format", loop = "format"
        PROVE  /\ Marked
               /\ \E k \in 1..(Len(text) + 1) : IF limit = 0 THEN FormatAt(k) ELSE LiteralAt(k)
    BY <1>1, <2>2 DEF Own, FormatIInv
  <2>3. CASE use = "format" /\ ParseDelim
    <3>1. loop' \in {"delim", "rejected"}
      BY <2>3 DEF ParseDelim, Convert, Emit, Fail
    <3> QED
      BY <1>2, <1>5, <3>1
  <2>4. CASE use = "format" /\ FormatToken
    <3>1. loop = "format" /\ limit = 0
      BY <2>4 DEF FormatToken, Parsing
    <3>2. PICK k \in 1..(Len(text) + 1) : FormatAt(k)
      BY <2>2, <2>4, <3>1
    <3> QED
      BY <1>1, <1>5, <2>2, <2>4, <3>1, <3>2, TokenTurn
  <2>5. CASE use = "format" /\ Literal
    <3>1. loop = "format" /\ limit = 0
      BY <2>5 DEF Literal, Parsing
    <3>2. PICK k \in 1..(Len(text) + 1) : FormatAt(k)
      BY <2>2, <2>5, <3>1
    <3> QED
      BY <1>1, <1>5, <2>2, <2>5, <3>1, <3>2, LiteralTurn
  <2>6. CASE use = "format" /\ ResolveEscapes
    <3>1. /\ loop = "format" /\ seen < limit /\ limit' = limit /\ seen \in Nat /\ limit \in Nat
          /\ loop' \in {"format", "failed"} /\ UNCHANGED <<source, text, meant, use>>
      BY <1>1, <1>5, <2>6 DEF ResolveEscapes, Convert, Emit, Fail, TypeOK
    <3>2. limit # 0
      BY <3>1
    <3>3. PICK m \in 1..(Len(text) + 1) : LiteralAt(m)
      BY <2>2, <2>6, <3>1, <3>2
    <3>4. CASE ~HexBefore(Reread)
      <4>1. PICK k \in 1..m : Aligned(k, m)
        BY <3>3, <3>4 DEF LiteralAt
      <4>2. \/ loop' = "failed" /\ \E j \in DOMAIN text : BadHex(text[j])
            \/ loop' = "format" /\ \E j \in 1..m : Aligned(j, m)'
        <5>1. limit = Begin(m) /\ Marked
          BY <2>2, <2>6, <3>1, <3>3 DEF LiteralAt
        <5> QED
          BY <1>1, <1>5, <2>6, <3>4, <4>1, <5>1, ResolveTurn
      <4>3. CASE loop' = "format" /\ \E j \in 1..m : Aligned(j, m)'
        <5>1. limit' = Begin(m)' /\ KnownBefore(m)' /\ EndsAt(m)'
          BY <3>1, <3>3, Steady DEF LiteralAt
        <5>2. LiteralAt(m)'
          BY <4>3, <5>1 DEF LiteralAt
        <5>3. m \in 1..(Len(text') + 1) /\ limit' # 0
          BY <3>1, <3>2
        <5> QED
          BY <4>3, <5>2, <5>3 DEF FormatIInv, FormatMeans
      <4>4. CASE loop' = "failed" /\ \E j \in DOMAIN text : BadHex(text[j])
        <5>1. (\E j \in DOMAIN text : BadHex(text[j]))'
          BY <3>1, <4>4 DEF BadHex
        <5> QED
          BY <4>4, <5>1 DEF FormatIInv, FormatMeans
      <4> QED
        BY <4>2, <4>3, <4>4
    <3>5. CASE HexBefore(Reread)
      <4>1. HexBefore(Reread)' /\ limit' # 0 /\ m \in 1..(Len(text') + 1)
        BY <3>1, <3>2, <3>5, Steady
      <4>2. limit' = Begin(m)' /\ KnownBefore(m)' /\ EndsAt(m)'
        BY <3>1, <3>3, Steady DEF LiteralAt
      <4>3. LiteralAt(m)'
        BY <4>1, <4>2 DEF LiteralAt
      <4> QED
        BY <3>1, <4>1, <4>3 DEF FormatIInv, FormatMeans
    <3> QED
      BY <3>4, <3>5
  <2>7. CASE use = "format" /\ Resolved
    <3>1. loop = "format" /\ limit # 0
      BY <2>7 DEF Resolved
    <3>2. PICK m \in 1..(Len(text) + 1) : LiteralAt(m)
      BY <2>2, <2>7, <3>1
    <3> QED
      BY <1>1, <1>5, <2>2, <2>7, <3>1, <3>2, ResolvedTurn
  <2>8. CASE use = "format" /\ Parsed
    <3>1. /\ loop = "format" /\ limit = 0 /\ seen = Len(source) /\ loop' = "done"
          /\ UNCHANGED <<source, made, text, meant, use>>
      BY <1>5, <2>8 DEF Parsed
    <3>2. PICK k \in 1..(Len(text) + 1) : FormatAt(k)
      BY <2>2, <2>8, <3>1
    <3>3. /\ \A j \in DOMAIN text : ~BadFormatter(text[j])
          /\ ~HexBefore(Reread) => /\ \A j \in DOMAIN text : ~BadHex(text[j])
                                   /\ made = meant <=> ~HexBefore(LiteralNext)
      BY <1>1, <2>2, <2>8, <3>1, <3>2, FormatEnds
    <3>4. /\ \A j \in DOMAIN text' : ~BadFormatter(text[j])'
          /\ ~HexBefore(Reread)' => /\ \A j \in DOMAIN text' : ~BadHex(text[j])'
                                    /\ made' = meant' <=> ~HexBefore(LiteralNext)'
      BY <3>1, <3>3, Steady
    <3> QED
      BY <3>1, <3>4 DEF FormatIInv, FormatMeans
  <2>9. CASE DelimParsed
    <3>1. use # "format"
      BY <2>9 DEF DelimParsed
    <3> QED
      BY <2>1, <3>1
  <2> QED
    BY <1>5, <2>1, <2>3, <2>4, <2>5, <2>6, <2>7, <2>8, <2>9 DEF EscapeStep
<1>6. CASE UNCHANGED inputVars
  <2>1. UNCHANGED <<source, seen, limit, made, loop, key, use, text, meant>>
    BY <1>6 DEF inputVars, escapeVars
  <2>2. /\ \A k : Begin(k)' = Begin(k) /\ Shown(k)' = Shown(k)
        /\ \A k : KnownBefore(k)' <=> KnownBefore(k)
        /\ \A k : EndsAt(k)' <=> EndsAt(k)
        /\ \A k, m : LiteralUpTo(k, m)' <=> LiteralUpTo(k, m)
        /\ \A k : LostBefore(k)' <=> LostBefore(k)
        /\ \A k : LosesInto(k)' <=> LosesInto(k)
        /\ HexBefore(Reread)' <=> HexBefore(Reread)
        /\ HexBefore(LiteralNext)' <=> HexBefore(LiteralNext)
        /\ \A j : BadFormatter(text[j])' <=> BadFormatter(text[j])
        /\ \A j : BadHex(text[j])' <=> BadHex(text[j])
        /\ \A k : WholeBefore(k)' <=> WholeBefore(k)
    BY <2>1, Steady
  <2>3. \A k : Compares(k)' <=> Compares(k)
    BY <2>1, <2>2 DEF Compares, Same, Other
  <2>4. \A k, m : Aligned(k, m)' <=> Aligned(k, m)
    BY <2>1, <2>2, <2>3 DEF Aligned
  <2>5. \A k : (FormatAt(k)' <=> FormatAt(k)) /\ (LiteralAt(k)' <=> LiteralAt(k))
    BY <2>1, <2>2, <2>3, <2>4 DEF FormatAt, LiteralAt
  <2>6. FormatMeans'
    BY <1>1, <2>1, <2>2 DEF FormatMeans
  <2> QED
    BY <2>1, <2>5, <2>6 DEF FormatIInv
<1> QED
  BY <1>3, <1>4, <1>5, <1>6 DEF EscapesNext, Writable

-----------------------------------------------------------------------------
(***************************************************************************)
(* The default format.  What ParseDelim made of -K stands between %k and   *)
(* %s, and the output is compared with what it should be.                  *)
(***************************************************************************)
KeyExpected == <<Formatter + 107>> \o key \o <<Formatter + 115, Newline>>

LEMMA Between ==
  ASSUME NEW a \in Seq(Nat), NEW d \in Seq(Nat), NEW b \in Seq(Nat)
  PROVE  /\ a \o d \o b \in Seq(Nat) /\ Len(a \o d \o b) = Len(a) + Len(d) + Len(b)
         /\ \A i \in 1..Len(a) : (a \o d \o b)[i] = a[i]
         /\ \A j \in 1..Len(d) : (a \o d \o b)[Len(a) + j] = d[j]
         /\ \A i \in 1..Len(b) : (a \o d \o b)[Len(a) + Len(d) + i] = b[i]
<1>1. PICK k \in Nat, n \in Nat, m \in Nat : k = Len(a) /\ n = Len(d) /\ m = Len(b)
  BY LenProperties
<1> DEFINE s == a \o d
           t == s \o b
<1>2. /\ s \in Seq(Nat) /\ Len(s) = k + n
      /\ \A i \in 1..(k + n) : s[i] = IF i <= k THEN a[i] ELSE d[i - k]
  BY <1>1, ConcatProperties
<1> HIDE DEF s
<1>c. \A x, y \in Seq(Nat) :
        /\ x \o y \in Seq(Nat) /\ Len(x \o y) = Len(x) + Len(y)
        /\ \A i \in 1..(Len(x) + Len(y)) :
             (x \o y)[i] = IF i <= Len(x) THEN x[i] ELSE y[i - Len(x)]
  BY ConcatProperties
<1>3. /\ t \in Seq(Nat) /\ Len(t) = k + n + m
      /\ \A i \in 1..(k + n + m) : t[i] = IF i <= k + n THEN s[i] ELSE b[i - (k + n)]
  <2>1. /\ t \in Seq(Nat) /\ Len(t) = Len(s) + Len(b)
        /\ \A i \in 1..(Len(s) + Len(b)) : t[i] = IF i <= Len(s) THEN s[i] ELSE b[i - Len(s)]
    <3>1. s \in Seq(Nat) /\ b \in Seq(Nat)
      BY <1>2
    <3> QED
      BY <3>1, <1>c, Zenon
  <2> HIDE DEF t
  <2> QED
    BY <1>1, <1>2, <2>1
<1> HIDE DEF t
<1>4. \A i \in 1..k : t[i] = a[i]
  BY <1>2, <1>3
<1>5. ASSUME NEW j \in 1..n PROVE t[k + j] = d[j]
  <2>1. k + j \in 1..(k + n) /\ k + j \in 1..(k + n + m) /\ ~(k + j <= k) /\ k + j - k = j
    OBVIOUS
  <2>2. t[k + j] = s[k + j] /\ s[k + j] = d[k + j - k]
    BY <1>2, <1>3, <2>1, SMTT(30)
  <2> QED
    BY <2>1, <2>2
<1>6. ASSUME NEW i \in 1..m PROVE t[k + n + i] = b[i]
  <2>1. k + n + i \in 1..(k + n + m) /\ ~(k + n + i <= k + n) /\ k + n + i - (k + n) = i
    OBVIOUS
  <2> QED
    BY <1>3, <2>1
<1>7. t \in Seq(Nat) /\ Len(t) = Len(a) + Len(d) + Len(b)
  BY <1>1, <1>3
<1> QED
  BY <1>1, <1>4, <1>5, <1>6, <1>7 DEF s, t

LEMMA Written ==
  /\ <<Percent, 107>> \in Seq(Nat) /\ Len(<<Percent, 107>>) = 2
  /\ <<Percent, 107>>[1] = Percent /\ <<Percent, 107>>[2] = 107
  /\ <<Percent, 115, Newline>> \in Seq(Nat) /\ Len(<<Percent, 115, Newline>>) = 3
  /\ <<Percent, 115, Newline>>[1] = Percent
  /\ <<Percent, 115, Newline>>[2] = 115 /\ <<Percent, 115, Newline>>[3] = Newline
  /\ <<Formatter + 107>> \in Seq(Nat) /\ Len(<<Formatter + 107>>) = 1
  /\ <<Formatter + 107>>[1] = Formatter + 107
  /\ <<Formatter + 115, Newline>> \in Seq(Nat) /\ Len(<<Formatter + 115, Newline>>) = 2
  /\ <<Formatter + 115, Newline>>[1] = Formatter + 115
  /\ <<Formatter + 115, Newline>>[2] = Newline
BY DEF Percent, Newline, Formatter

LEMMA KeySourceIs ==
  ASSUME NEW k \in Seq(Nat), NEW f, f = KeyFormat(k)
  PROVE  LaidOut(f, k)
<1> DEFINE a == <<Percent, 107>>
           b == <<Percent, 115, Newline>>
<1>1. /\ a \in Seq(Nat) /\ Len(a) = 2 /\ a[1] = Percent /\ a[2] = 107
      /\ b \in Seq(Nat) /\ Len(b) = 3 /\ b[1] = Percent /\ b[2] = 115 /\ b[3] = Newline
  BY Written
<1>2. f = a \o k \o b
  BY DEF KeyFormat
<1>3. PICK n \in Nat : n = Len(k)
  BY LenProperties
<1> HIDE DEF a, b
<1>b. \A x, y, z \in Seq(Nat) :
        /\ x \o y \o z \in Seq(Nat) /\ Len(x \o y \o z) = Len(x) + Len(y) + Len(z)
        /\ \A i \in 1..Len(x) : (x \o y \o z)[i] = x[i]
        /\ \A j \in 1..Len(y) : (x \o y \o z)[Len(x) + j] = y[j]
        /\ \A i \in 1..Len(z) : (x \o y \o z)[Len(x) + Len(y) + i] = z[i]
  BY Between
<1>4. /\ f \in Seq(Nat) /\ Len(f) = Len(a) + Len(k) + Len(b)
      /\ \A i \in 1..Len(a) : f[i] = a[i]
      /\ \A j \in 1..Len(k) : f[Len(a) + j] = k[j]
      /\ \A i \in 1..Len(b) : f[Len(a) + Len(k) + i] = b[i]
  <2>1. a \in Seq(Nat) /\ k \in Seq(Nat) /\ b \in Seq(Nat)
    BY <1>1
  <2>2. /\ a \o k \o b \in Seq(Nat) /\ Len(a \o k \o b) = Len(a) + Len(k) + Len(b)
        /\ \A i \in 1..Len(a) : (a \o k \o b)[i] = a[i]
        /\ \A j \in 1..Len(k) : (a \o k \o b)[Len(a) + j] = k[j]
        /\ \A i \in 1..Len(b) : (a \o k \o b)[Len(a) + Len(k) + i] = b[i]
    BY <1>b, <2>1, Zenon
  <2> QED
    BY <1>2, <2>2, Zenon
<1>5. /\ Len(f) = n + 5 /\ f[1] = Percent /\ f[2] = 107
      /\ \A j \in 1..n : f[2 + j] = k[j]
  BY <1>1, <1>3, <1>4
<1>6. f[2 + n + 1] = Percent /\ f[2 + n + 2] = 115 /\ f[2 + n + 3] = Newline
  BY <1>1, <1>3, <1>4
<1>7. 2 + n + 1 = n + 3 /\ 2 + n + 2 = n + 4 /\ 2 + n + 3 = n + 5
  OBVIOUS
<1> QED
  BY <1>3, <1>4, <1>5, <1>6, <1>7 DEF LaidOut

LEMMA AsExpected ==
  ASSUME key \in Seq(Nat), made \in Seq(Nat), NEW n \in Nat, n = Len(key)
  PROVE  made = KeyExpected
           <=> /\ Len(made) = n + 3 /\ made[1] = Formatter + 107
               /\ \A j \in 1..n : made[j + 1] = key[j]
               /\ made[n + 2] = Formatter + 115 /\ made[n + 3] = Newline
<1> DEFINE a == <<Formatter + 107>>
           b == <<Formatter + 115, Newline>>
           t == KeyExpected
<1>1. /\ a \in Seq(Nat) /\ Len(a) = 1 /\ a[1] = Formatter + 107
      /\ b \in Seq(Nat) /\ Len(b) = 2 /\ b[1] = Formatter + 115 /\ b[2] = Newline
  BY Written
<1>2. t = a \o key \o b
  BY DEF KeyExpected
<1> HIDE DEF a, b, t
<1>b. \A x, y, z \in Seq(Nat) :
        /\ x \o y \o z \in Seq(Nat) /\ Len(x \o y \o z) = Len(x) + Len(y) + Len(z)
        /\ \A i \in 1..Len(x) : (x \o y \o z)[i] = x[i]
        /\ \A j \in 1..Len(y) : (x \o y \o z)[Len(x) + j] = y[j]
        /\ \A i \in 1..Len(z) : (x \o y \o z)[Len(x) + Len(y) + i] = z[i]
  BY Between
<1>3. /\ t \in Seq(Nat) /\ Len(t) = Len(a) + Len(key) + Len(b)
      /\ \A i \in 1..Len(a) : t[i] = a[i]
      /\ \A j \in 1..Len(key) : t[Len(a) + j] = key[j]
      /\ \A i \in 1..Len(b) : t[Len(a) + Len(key) + i] = b[i]
  <2>1. a \in Seq(Nat) /\ key \in Seq(Nat) /\ b \in Seq(Nat)
    BY <1>1
  <2>2. /\ a \o key \o b \in Seq(Nat) /\ Len(a \o key \o b) = Len(a) + Len(key) + Len(b)
        /\ \A i \in 1..Len(a) : (a \o key \o b)[i] = a[i]
        /\ \A j \in 1..Len(key) : (a \o key \o b)[Len(a) + j] = key[j]
        /\ \A i \in 1..Len(b) : (a \o key \o b)[Len(a) + Len(key) + i] = b[i]
    BY <1>b, <2>1, ZenonT(30)
  <2> QED
    BY <1>2, <2>2, Zenon
<1>4. /\ Len(t) = n + 3 /\ t[1] = Formatter + 107
      /\ t[n + 2] = Formatter + 115 /\ t[n + 3] = Newline
  <2>1. t[1 + n + 1] = Formatter + 115 /\ t[1 + n + 2] = Newline /\ Len(t) = n + 3
        /\ t[1] = Formatter + 107
    BY <1>1, <1>3
  <2>2. 1 + n + 1 = n + 2 /\ 1 + n + 2 = n + 3
    OBVIOUS
  <2> QED
    BY <2>1, <2>2
<1>5. ASSUME NEW j \in 1..n PROVE t[j + 1] = key[j]
  <2>1. t[1 + j] = key[j] /\ 1 + j = j + 1
    BY <1>1, <1>3
  <2> QED
    BY <2>1
<1>6. ASSUME Len(made) = n + 3, made[1] = Formatter + 107,
             \A j \in 1..n : made[j + 1] = key[j],
             made[n + 2] = Formatter + 115, made[n + 3] = Newline
      PROVE  made = t
  <2>1. ASSUME NEW i \in 1..Len(made) PROVE made[i] = t[i]
    <3>1. i = 1 \/ i = n + 2 \/ i = n + 3 \/ (i - 1 \in 1..n /\ i - 1 + 1 = i)
      BY <1>6, SMTT(30)
    <3>2. CASE i - 1 \in 1..n /\ i - 1 + 1 = i
      <4>1. made[i - 1 + 1] = key[i - 1] /\ t[i - 1 + 1] = key[i - 1]
        BY <1>5, <1>6, <3>2
      <4> QED
        BY <3>2, <4>1
    <3> QED
      BY <1>4, <1>6, <3>1, <3>2
  <2>2. t \in Seq(Nat) /\ Len(made) = Len(t)
    BY <1>3, <1>4, <1>6
  <2> QED
    BY <2>1, <2>2, SeqEqual
<1>7. made = t => /\ Len(made) = n + 3 /\ made[1] = Formatter + 107
                  /\ \A j \in 1..n : made[j + 1] = key[j]
                  /\ made[n + 2] = Formatter + 115 /\ made[n + 3] = Newline
  BY <1>4, <1>5
<1>8. t = KeyExpected
  BY DEF t
<1> QED
  BY <1>6, <1>7, <1>8

(***************************************************************************)
(* What is as it is up to the end is not special.                          *)
(***************************************************************************)
LEMMA AllAsItIs ==
  ASSUME key \in Seq(Nat), \A j \in 1..Len(key) : AsItIs(j)
  PROVE  NothingSpecial(key)
<1>1. PICK n \in Nat : n = Len(key) /\ DOMAIN key = 1..n
  BY LenProperties
<1>2. ASSUME NEW j \in 1..n PROVE key[j] # Percent /\ (key[j] = Backslash => j = n)
  <2>1. key[j] # Percent /\ (key[j] = Backslash => j = n \/ key[j + 1] = Percent)
    BY <1>1 DEF AsItIs
  <2>2. j # n => key[j + 1] # Percent
    <3>1. j # n => j + 1 \in 1..Len(key)
      BY <1>1
    <3> QED
      BY <3>1 DEF AsItIs
  <2> QED
    BY <2>1, <2>2
<1> QED
  BY <1>1, <1>2 DEF NothingSpecial

(***************************************************************************)
(* A turn of resolveEscapes makes a byte of one, or of two or more.        *)
(***************************************************************************)
LEMMA TurnMakes ==
  ASSUME TypeOK, ResolveEscapes
  PROVE  \/ loop' = "failed" /\ Escaped(limit)
         \/ /\ loop' = "format" /\ ~Escaped(limit)
            /\ seen' = seen + 1 /\ made' = made \o <<source[seen + 1]>>
         \/ /\ loop' = "format" /\ Escaped(limit)
            /\ seen' \in Nat /\ seen' >= seen + 2 /\ Len(made') = Len(made) + 1
<1>1. /\ source \in Seq(Nat) /\ made \in Seq(Nat) /\ seen \in Nat /\ limit \in Nat
      /\ Len(source) \in Nat /\ limit <= Len(source)
      /\ \A p \in 1..Len(source) : source[p] \in Nat
  BY LenProperties, ElementOfSeq DEF TypeOK
<1> DEFINE e == source[seen + 2]
           n == HexRun(seen + 2, limit, 2)
<1>2. /\ loop = "format" /\ seen < limit
      /\ \/ ~Escaped(limit) /\ Emit(<<source[seen + 1]>>, 1)
         \/ /\ Escaped(limit) /\ e # LetterX
            /\ Emit(IF e \in DOMAIN Control THEN <<Control[e]>> ELSE KeptOfUnknown \o <<e>>, 2)
         \/ /\ Escaped(limit) /\ e = LetterX /\ n > 0
            /\ Emit(<<HexByte(seen + 2 + n, n)>>, 2 + n + 1)
         \/ Escaped(limit) /\ e = LetterX /\ n = 0 /\ Fail("failed")
  BY DEF ResolveEscapes, Convert
<1>3. Escaped(limit) => e \in Nat /\ n \in Nat
  <2>1. Escaped(limit) => seen + 2 <= limit
    BY <1>1 DEF Escaped
  <2>2. Escaped(limit) => e \in Nat
    BY <1>1, <2>1
  <2>3. Escaped(limit) => n \in 0..2
    <3>1. \A from, end, most \in Nat : from <= end => HexRun(from, end, most) \in 0..most
      BY RunBounded
    <3>2. seen + 2 \in Nat /\ 2 \in Nat
      BY <1>1
    <3> QED
      BY <1>1, <2>1, <3>1, <3>2 DEF n
  <2> QED
    BY <2>2, <2>3
<1> HIDE DEF e, n
<1>4. CASE ~Escaped(limit) /\ Emit(<<source[seen + 1]>>, 1)
  BY <1>2, <1>4 DEF Emit
<1>5. CASE Escaped(limit) /\ Fail("failed")
  BY <1>5 DEF Fail
<1>6. CASE /\ Escaped(limit)
           /\ Emit(IF e \in DOMAIN Control THEN <<Control[e]>> ELSE KeptOfUnknown \o <<e>>, 2)
  <2>1. PICK b \in Nat : b = IF e \in DOMAIN Control THEN Control[e] ELSE e
    <3>1. e \in DOMAIN Control => Control[e] \in Nat
      BY DEF Control
    <3> QED
      BY <1>3, <1>6, <3>1
  <2>2. KeptOfUnknown \o <<e>> = <<e>>
    <3>1. \A x \in Seq(Nat) : <<>> \o x = x
      BY ConcatEmptySeq
    <3>2. <<e>> \in Seq(Nat)
      BY <1>3, <1>6
    <3> QED
      BY <3>1, <3>2 DEF KeptOfUnknown
  <2>3. made' = made \o <<b>> /\ seen' = seen + 2 /\ loop' = loop
    BY <1>6, <2>1, <2>2 DEF Emit
  <2>4. Len(made') = Len(made) + 1
    BY <1>1, <2>3, OneMore
  <2> QED
    BY <1>1, <1>2, <1>6, <2>3, <2>4
<1>7. CASE /\ Escaped(limit) /\ e = LetterX /\ n > 0
           /\ Emit(<<HexByte(seen + 2 + n, n)>>, 2 + n + 1)
  <2>1. made' = made \o <<HexByte(seen + 2 + n, n)>> /\ seen' = seen + (2 + n + 1) /\ loop' = loop
    BY <1>7 DEF Emit
  <2>2. Len(made') = Len(made) + 1
    <3>1. \A b : Len(<<b>>) = 1 /\ <<b>> \in Seq({b})
      OBVIOUS
    <3>2. made' \in Seq(Nat)
      <4>1. made' \in Seq(Nat) /\ seen' \in Nat /\ loop' \in {loop, "failed"}
        <5>1. PICK kept : kept = KeptOfUnknown /\ kept = <<>>
          BY DEF KeptOfUnknown
        <5>2. Convert(limit, 2, 1, kept, "failed")
          BY <5>1 DEF ResolveEscapes
        <5> QED
          BY <1>1, <1>2, <5>1, <5>2, ConvertKeeps
      <4> QED
        BY <4>1
    <3>3. made' = Append(made, HexByte(seen + 2 + n, n))
      BY <1>1, <2>1, <3>1, AppendIsConcat
    <3> QED
      BY <1>1, <3>3, AppendProperties
  <2> QED
    BY <1>1, <1>2, <1>3, <1>7, <2>1, <2>2, SMTT(30)
<1> QED
  BY <1>2, <1>4, <1>5, <1>6, <1>7

LEMMA KeySteady ==
  ASSUME UNCHANGED <<source, key>>
  PROVE  /\ KeySource' <=> KeySource
         /\ NothingSpecial(key)' <=> NothingSpecial(key)
         /\ \A j : AsItIs(j)' <=> AsItIs(j)
         /\ Len(key)' = Len(key) /\ KeyExpected' = KeyExpected
BY DEF KeySource, LaidOut, NothingSpecial, AsItIs, KeyExpected

KeyStage == \/ seen = 0 /\ limit = 0 /\ made = <<>>
            \/ Verbatim \/ Gapped \/ KeyShown \/ KeyBehind

(***************************************************************************)
(* A formatter that is met in the delimiter is special, and the one behind *)
(* it is %s unless that was reached between its two bytes.                 *)
(***************************************************************************)
LEMMA KeyToken ==
  ASSUME TypeOK, KeySource, KeyStage, FormatToken
  PROVE  \/ loop' = "format" /\ KeyStage'
         \/ loop' = "failed" /\ ~NothingSpecial(key)
<1>1. PICK n \in Nat : n = Len(key)
  BY LenProperties DEF TypeOK
<1>2. /\ made \in Seq(Nat) /\ key \in Seq(Nat) /\ seen \in Nat /\ DOMAIN key = 1..n
      /\ Len(made) \in Nat /\ \A p \in 1..Len(source) : source[p] \in Nat
  BY <1>1, LenProperties, ElementOfSeq DEF TypeOK
<1>3. /\ Len(source) = n + 5 /\ source[1] = Percent /\ source[2] = 107
      /\ \A j \in 1..n : source[2 + j] = key[j]
      /\ source[n + 3] = Percent /\ source[n + 4] = 115 /\ source[n + 5] = Newline
  BY <1>1 DEF KeySource, LaidOut
<1>4. /\ loop = "format" /\ limit = 0 /\ seen < n + 5 /\ source[seen + 1] = Percent
      /\ IF seen + 1 < n + 5 /\ KnownFormatter(source[seen + 2])
         THEN Emit(<<TokenOf(source[seen + 2])>>, 2)
         ELSE Fail("failed")
      /\ UNCHANGED <<source, limit, key>>
  BY <1>3 DEF FormatToken, Parsing
<1>5. /\ (NothingSpecial(key)' <=> NothingSpecial(key)) /\ Len(key') = n /\ key' = key
      /\ limit' = 0
  BY <1>1, <1>4, KeySteady
<1>6. ASSUME NEW c \in Nat, c = source[seen + 2], seen + 1 < n + 5, KnownFormatter(c)
      PROVE  /\ loop' = "format" /\ seen' = seen + 2 /\ Len(made') = Len(made) + 1
             /\ made' \in Seq(Nat) /\ made'[Len(made) + 1] = TokenOf(c)
             /\ \A p \in 1..Len(made) : made'[p] = made[p]
  <2>1. made' = made \o <<TokenOf(c)>> /\ seen' = seen + 2 /\ loop' = loop
    BY <1>4, <1>6 DEF Emit
  <2>2. TokenOf(c) \in Nat
    BY DEF TokenOf, Formatter
  <2> QED
    BY <1>2, <1>4, <2>1, <2>2, OneMore
<1>7. ASSUME ~(seen + 1 < n + 5 /\ KnownFormatter(source[seen + 2]))
      PROVE  loop' = "failed"
  BY <1>4, <1>7 DEF Fail
<1>8. KnownFormatter(107) /\ KnownFormatter(115)
      /\ TokenOf(107) = Formatter + 107 /\ TokenOf(115) = Formatter + 115
  BY DEF KnownFormatter, Letters, TokenOf, Percent
<1>9. Newline # Percent /\ 115 # Percent
  BY DEF Newline, Percent
<1>10. CASE seen = 0 /\ made = <<>>
  <2>1. source[seen + 2] = 107 /\ seen + 1 < n + 5 /\ Len(made) = 0
    BY <1>3, <1>10, EmptySeq
  <2>2. /\ loop' = "format" /\ seen' = 2 /\ Len(made') = 1 /\ made'[1] = Formatter + 107
    BY <1>6, <1>8, <1>10, <2>1
  <2>3. Verbatim'
    BY <1>5, <2>2 DEF Verbatim
  <2> QED
    BY <2>2, <2>3 DEF KeyStage
<1>11. CASE Verbatim
  <2>1. /\ 2 <= seen /\ seen <= n + 2 /\ Len(made) = seen - 1
        /\ made[1] = Formatter + 107
        /\ \A j \in 1..(seen - 2) : made[j + 1] = key[j] /\ AsItIs(j)
    BY <1>1, <1>11 DEF Verbatim
  <2>2. CASE seen = n + 2
    <3>1. NothingSpecial(key)
      <4>1. \A j \in 1..Len(key) : AsItIs(j)
        BY <1>1, <2>1, <2>2
      <4> QED
        BY <1>2, <4>1, AllAsItIs
    <3>2. source[seen + 2] = 115 /\ seen + 1 < n + 5
      <4>1. seen + 2 = n + 4
        BY <2>2
      <4> QED
        BY <1>3, <2>2, <4>1
    <3>3. /\ loop' = "format" /\ seen' = n + 4 /\ Len(made') = n + 2
          /\ made'[n + 2] = Formatter + 115
          /\ \A p \in 1..(n + 1) : made'[p] = made[p]
      <4>1. Len(made) = n + 1 /\ n + 1 + 1 = n + 2 /\ seen + 2 = n + 4
        BY <2>1, <2>2
      <4> QED
        BY <1>6, <1>8, <3>2, <4>1
    <3>4. made'[1] = Formatter + 107 /\ \A j \in 1..n : made'[j + 1] = key[j]
      <4>1. \A j \in 1..n : j + 1 \in 1..(n + 1) /\ j \in 1..(seen - 2)
        BY <2>2
      <4> QED
        BY <2>1, <3>3, <4>1
    <3>5. KeyShown'
      <4>1. /\ seen' \in {n + 4, n + 5} /\ limit' \in {0, n + 5} /\ Len(made') = seen' - 2
            /\ ~(seen' = n + 5)
        BY <1>5, <3>3
      <4> QED
        BY <1>5, <3>1, <3>3, <3>4, <4>1 DEF KeyShown
    <3> QED
      BY <3>3, <3>5 DEF KeyStage
  <2>3. CASE seen < n + 2
    <3>1. seen - 1 \in 1..n /\ 2 + (seen - 1) = seen + 1
      BY <1>2, <2>1, <2>3
    <3>2. ~NothingSpecial(key)
      <4>1. key[seen - 1] = Percent /\ seen - 1 \in DOMAIN key
        BY <1>2, <1>3, <1>4, <3>1
      <4> QED
        BY <4>1 DEF NothingSpecial
    <3>3. CASE loop' = "failed"
      BY <3>2, <3>3
    <3>4. CASE loop' # "failed"
      <4>1. PICK c \in Nat : c = source[seen + 2] /\ seen + 1 < n + 5 /\ KnownFormatter(c)
        BY <1>2, <1>3, <1>7, <2>1, <2>3, <3>4, SMTT(30)
      <4>2. loop' = "format" /\ seen' = seen + 2 /\ Len(made') = seen
        BY <1>2, <1>6, <2>1, <4>1
      <4>3. CASE seen < n + 1
        <5>1. Gapped'
          BY <1>2, <1>5, <2>1, <3>2, <4>2, <4>3 DEF Gapped
        <5> QED
          BY <4>2, <5>1 DEF KeyStage
      <4>4. CASE seen = n + 1
        <5>1. /\ seen' = n + 3 /\ Len(made') + 2 = seen' /\ limit' \in {0, n + 5}
              /\ seen' \in {n + 3, n + 4, n + 5} /\ ~(seen' >= n + 4)
          BY <1>5, <4>2, <4>4
        <5>2. KeyBehind'
          BY <1>5, <3>2, <5>1 DEF KeyBehind
        <5> QED
          BY <4>2, <5>2 DEF KeyStage
      <4> QED
        BY <1>2, <2>3, <4>3, <4>4
    <3> QED
      BY <3>3, <3>4
  <2> QED
    BY <1>2, <2>1, <2>2, <2>3
<1>12. CASE Gapped
  <2>1. ~NothingSpecial(key) /\ 2 <= seen /\ Len(made) + 2 <= seen /\ seen <= n + 2
    BY <1>1, <1>4, <1>12 DEF Gapped
  <2>2. CASE loop' = "failed"
    BY <2>1, <2>2
  <2>3. CASE loop' # "failed"
    <3>1. PICK c \in Nat : c = source[seen + 2] /\ seen + 1 < n + 5 /\ KnownFormatter(c)
      BY <1>2, <1>3, <1>7, <2>1, <2>3, SMTT(30)
    <3>2. loop' = "format" /\ seen' = seen + 2 /\ Len(made') = Len(made) + 1
      BY <1>6, <3>1
    <3>3. CASE seen <= n
      <4>1. Gapped'
        BY <1>2, <1>5, <2>1, <3>2, <3>3 DEF Gapped
      <4> QED
        BY <3>2, <4>1 DEF KeyStage
    <3>4. CASE seen > n
      <4>1. /\ seen' \in {n + 3, n + 4, n + 5} /\ Len(made') + 3 <= seen'
            /\ limit' \in {0, n + 5}
        BY <1>2, <1>5, <2>1, <3>2, <3>4
      <4>2. KeyBehind'
        BY <1>5, <2>1, <4>1 DEF KeyBehind
      <4> QED
        BY <3>2, <4>2 DEF KeyStage
    <3> QED
      BY <1>2, <3>3, <3>4
  <2> QED
    BY <2>2, <2>3
<1>13. CASE KeyShown \/ KeyBehind
  <2>1. seen \in {n + 3, n + 4, n + 5}
    BY <1>1, <1>13 DEF KeyShown, KeyBehind
  <2>2. seen + 1 = n + 4 \/ seen + 1 = n + 5
    BY <1>4, <2>1
  <2> QED
    BY <1>3, <1>4, <1>9, <2>2
<1> QED
  BY <1>4, <1>10, <1>11, <1>12, <1>13 DEF KeyStage

(***************************************************************************)
(* A literal of the delimiter ends with it or before a %; the one behind   *)
(* it, the newline, at the end.                                            *)
(***************************************************************************)
LEMMA KeyLiteral ==
  ASSUME TypeOK, KeySource, KeyStage, Literal
  PROVE  loop' = "format" /\ KeyStage'
<1>1. PICK n \in Nat : n = Len(key)
  BY LenProperties DEF TypeOK
<1>2. made \in Seq(Nat) /\ key \in Seq(Nat) /\ seen \in Nat /\ Len(made) \in Nat
  BY LenProperties DEF TypeOK
<1>3. /\ Len(source) = n + 5 /\ source[1] = Percent
      /\ \A j \in 1..n : source[2 + j] = key[j]
      /\ source[n + 3] = Percent /\ source[n + 4] = 115 /\ source[n + 5] = Newline
  BY <1>1 DEF KeySource, LaidOut
<1>4. /\ loop' = "format" /\ limit = 0 /\ seen < n + 5 /\ source[seen + 1] # Percent
      /\ limit' = NextPercent /\ UNCHANGED <<source, seen, made, key>>
  BY <1>3 DEF Literal, Parsing
<1>5. /\ (NothingSpecial(key)' <=> NothingSpecial(key)) /\ Len(key') = n
      /\ \A j : AsItIs(j)' <=> AsItIs(j)
  BY <1>1, <1>4, KeySteady
<1>6. PICK q \in Nat :
         /\ q = NextPercent /\ seen < q /\ q <= n + 5
         /\ q < n + 5 => source[q + 1] = Percent
         /\ \A j \in (seen + 2)..q : source[j] # Percent
  BY <1>3, <1>4, NextIsAhead
<1>7. limit' = q /\ limit' # 0
  BY <1>2, <1>4, <1>6
<1>8. ASSUME seen <= n + 2, 2 <= seen
      PROVE  seen < n + 2 /\ q <= n + 2
  <2>1. seen < n + 2
    <3>1. seen = n + 2 => seen + 1 = n + 3
      OBVIOUS
    <3> QED
      BY <1>2, <1>3, <1>4, <1>8, <3>1
  <2>2. q <= n + 2
    <3>1. SUFFICES ASSUME q > n + 2 PROVE FALSE
      BY <1>6
    <3>2. n + 3 \in (seen + 2)..q
      BY <1>2, <2>1, <3>1
    <3> QED
      BY <1>3, <1>6, <3>2
  <2> QED
    BY <2>1, <2>2
<1>9. CASE seen = 0
  BY <1>3, <1>4, <1>9
<1>10. CASE Verbatim
  <2>1. /\ 2 <= seen /\ seen <= n + 2 /\ Len(made) = seen - 1
        /\ made[1] = Formatter + 107
        /\ \A j \in 1..(seen - 2) : made[j + 1] = key[j] /\ AsItIs(j)
    BY <1>1, <1>10 DEF Verbatim
  <2>2. seen < n + 2 /\ q <= n + 2
    BY <1>8, <2>1
  <2>3. q < n + 2 => key[q - 1] = Percent
    <3>1. SUFFICES ASSUME q < n + 2 PROVE key[q - 1] = Percent
      OBVIOUS
    <3>2. q - 1 \in 1..n /\ 2 + (q - 1) = q + 1
      BY <1>2, <1>6, <2>1, <3>1
    <3>3. source[q + 1] = Percent
      BY <1>6, <3>1
    <3> QED
      BY <1>3, <3>2, <3>3
  <2>4. ASSUME NEW j \in (seen - 1)..(q - 2) PROVE key[j] # Percent
    <3>1. j \in 1..n /\ (2 + j = seen + 1 \/ 2 + j \in (seen + 2)..q)
      BY <1>2, <2>1, <2>2
    <3>2. source[2 + j] # Percent
      BY <1>4, <1>6, <3>1
    <3> QED
      BY <1>3, <3>1, <3>2
  <2>5. Verbatim'
    <3>1. limit' # 0 => /\ seen' <= limit' /\ limit' <= n + 2
                        /\ limit' < n + 2 => key'[limit' - 1] = Percent
                        /\ \A j \in (seen' - 1)..(limit' - 2) : key'[j] # Percent
      BY <1>2, <1>4, <1>6, <1>7, <2>2, <2>3, <2>4
    <3>2. /\ 2 <= seen' /\ seen' <= n + 2 /\ Len(made') = seen' - 1
          /\ made'[1] = Formatter + 107
          /\ \A j \in 1..(seen' - 2) : made'[j + 1] = key'[j] /\ AsItIs(j)'
      BY <1>4, <1>5, <2>1
    <3> QED
      BY <1>5, <3>1, <3>2 DEF Verbatim
  <2> QED
    BY <1>4, <2>5 DEF KeyStage
<1>11. CASE Gapped
  <2>1. ~NothingSpecial(key) /\ 2 <= seen /\ Len(made) + 2 <= seen /\ seen <= n + 2
    BY <1>1, <1>4, <1>11 DEF Gapped
  <2>2. q <= n + 2 /\ Len(made) + 2 <= q
    BY <1>2, <1>6, <1>8, <2>1
  <2>3. Gapped'
    BY <1>4, <1>5, <1>7, <2>1, <2>2 DEF Gapped
  <2> QED
    BY <1>4, <2>3 DEF KeyStage
<1>12. CASE KeyShown \/ KeyBehind
  <2>1. seen \in {n + 3, n + 4}
    BY <1>1, <1>4, <1>12 DEF KeyShown, KeyBehind
  <2>2. q = n + 5
    <3>1. SUFFICES ASSUME q = n + 4 PROVE FALSE
      BY <1>6, <2>1
    <3>2. source[q + 1] = Percent /\ q + 1 = n + 5
      BY <1>6, <3>1
    <3> QED
      BY <1>3, <3>2 DEF Newline, Percent
  <2>3. KeyShown' \/ KeyBehind'
    BY <1>1, <1>4, <1>5, <1>7, <1>12, <2>2 DEF KeyShown, KeyBehind
  <2> QED
    BY <1>4, <2>3 DEF KeyStage
<1> QED
  BY <1>9, <1>10, <1>11, <1>12 DEF KeyStage

(***************************************************************************)
(* A backslash in the delimiter is special where it is the beginning of an *)
(* escape.  At the end of the literal it is kept.                          *)
(***************************************************************************)
LEMMA KeyResolve ==
  ASSUME TypeOK, KeySource, KeyStage, ResolveEscapes
  PROVE  \/ loop' = "format" /\ KeyStage'
         \/ loop' = "failed" /\ ~NothingSpecial(key)
<1>1. PICK n \in Nat : n = Len(key)
  BY LenProperties DEF TypeOK
<1>2. /\ made \in Seq(Nat) /\ key \in Seq(Nat) /\ seen \in Nat /\ limit \in Nat
      /\ Len(made) \in Nat /\ DOMAIN key = 1..n
      /\ \A p \in 1..Len(source) : source[p] \in Nat
  BY <1>1, LenProperties, ElementOfSeq DEF TypeOK
<1>3. /\ Len(source) = n + 5
      /\ \A j \in 1..n : source[2 + j] = key[j]
      /\ source[n + 3] = Percent /\ source[n + 4] = 115 /\ source[n + 5] = Newline
  BY <1>1 DEF KeySource, LaidOut
<1>4. /\ loop = "format" /\ seen < limit /\ limit' = limit /\ limit # 0
      /\ UNCHANGED <<source, key>>
  BY <1>2 DEF ResolveEscapes
<1>5. /\ (NothingSpecial(key)' <=> NothingSpecial(key)) /\ Len(key') = n
      /\ \A j : AsItIs(j)' <=> AsItIs(j)
  BY <1>1, <1>4, KeySteady
<1>6. \/ loop' = "failed" /\ Escaped(limit)
      \/ /\ loop' = "format" /\ ~Escaped(limit)
         /\ seen' = seen + 1 /\ made' = made \o <<source[seen + 1]>>
      \/ /\ loop' = "format" /\ Escaped(limit)
         /\ seen' \in Nat /\ seen' >= seen + 2 /\ Len(made') = Len(made) + 1
  BY TurnMakes
<1>7. Escaped(limit) => source[seen + 1] = Backslash /\ seen + 1 < limit
  BY DEF Escaped
<1>8. ASSUME ~Escaped(limit), seen + 1 <= n + 5
      PROVE  /\ loop' = "format" /\ seen' = seen + 1 /\ Len(made') = Len(made) + 1
             /\ made'[Len(made) + 1] = source[seen + 1]
             /\ \A p \in 1..Len(made) : made'[p] = made[p]
  <2>1. loop' = "format" /\ seen' = seen + 1 /\ made' = made \o <<source[seen + 1]>>
    BY <1>6, <1>8
  <2>2. source[seen + 1] \in Nat
    BY <1>2, <1>3, <1>8
  <2> QED
    BY <1>2, <2>1, <2>2, OneMore
<1>9. CASE Verbatim
  <2>1. /\ 2 <= seen /\ seen <= n + 2 /\ Len(made) = seen - 1
        /\ made[1] = Formatter + 107
        /\ \A j \in 1..(seen - 2) : made[j + 1] = key[j] /\ AsItIs(j)
        /\ limit <= n + 2
        /\ limit < n + 2 => key[limit - 1] = Percent
        /\ \A j \in (seen - 1)..(limit - 2) : key[j] # Percent
    BY <1>1, <1>4, <1>9 DEF Verbatim
  <2>2. PICK i \in 1..n : i = seen - 1 /\ source[seen + 1] = key[i]
    <3>1. seen - 1 \in 1..n /\ 2 + (seen - 1) = seen + 1
      BY <1>2, <1>4, <2>1
    <3>2. source[2 + (seen - 1)] = key[seen - 1]
      BY <1>3, <3>1
    <3>3. source[seen + 1] = key[seen - 1]
      BY <3>1, <3>2
    <3> QED
      BY <3>1, <3>3
  <2>3. CASE Escaped(limit)
    <3>1. ~NothingSpecial(key)
      <4>1. source[seen + 1] = Backslash /\ seen + 1 < limit
        BY <1>7, <2>3
      <4>2. i \in DOMAIN key /\ key[i] = Backslash
        BY <1>2, <2>2, <4>1
      <4>3. i # n
        BY <1>2, <2>1, <2>2, <4>1
      <4> QED
        BY <1>1, <4>2, <4>3 DEF NothingSpecial
    <3>2. CASE loop' = "failed"
      BY <3>1, <3>2
    <3>3. CASE loop' # "failed"
      <4>1. loop' = "format" /\ seen' \in Nat /\ seen' >= seen + 2 /\ Len(made') = seen
        BY <1>2, <1>6, <2>1, <2>3, <3>3
      <4>2. 2 <= seen' /\ Len(made') + 2 <= seen' /\ Len(made') + 2 <= limit
        BY <1>2, <1>7, <2>1, <2>3, <4>1
      <4>3. Gapped'
        BY <1>4, <1>5, <2>1, <3>1, <4>2 DEF Gapped
      <4> QED
        BY <4>1, <4>3 DEF KeyStage
    <3> QED
      BY <3>2, <3>3
  <2>4. CASE ~Escaped(limit)
    <3>1. /\ loop' = "format" /\ seen' = seen + 1 /\ Len(made') = seen
          /\ made'[seen] = key[i]
          /\ \A p \in 1..(seen - 1) : made'[p] = made[p]
      <4>1. seen + 1 <= n + 5 /\ Len(made) + 1 = seen
        BY <1>2, <1>4, <2>1
      <4> QED
        BY <1>8, <2>1, <2>2, <2>4, <4>1
    <3>2. AsItIs(i)
      <4>1. key[i] # Percent
        BY <1>2, <1>4, <2>1, <2>2
      <4>2. ASSUME key[i] = Backslash PROVE i = n \/ key[i + 1] = Percent
        <5>1. ~(seen + 1 < limit)
          BY <2>2, <2>4, <4>2 DEF Escaped
        <5>2. limit = seen + 1 /\ limit - 1 = i + 1
          BY <1>2, <1>4, <2>2, <5>1
        <5> QED
          BY <1>2, <2>1, <2>2, <5>2
      <4> QED
        BY <1>1, <4>1, <4>2 DEF AsItIs
    <3>3. ASSUME NEW j \in 1..(seen' - 2) PROVE made'[j + 1] = key[j] /\ AsItIs(j)
      <4>1. j \in 1..(seen - 2) \/ (j = i /\ j + 1 = seen)
        BY <1>2, <2>1, <2>2, <3>1
      <4>2. CASE j \in 1..(seen - 2)
        <5>1. j + 1 \in 1..(seen - 1)
          BY <1>2, <4>2
        <5> QED
          BY <2>1, <3>1, <4>2, <5>1
      <4> QED
        BY <3>1, <3>2, <4>1, <4>2
    <3>4. made'[1] = Formatter + 107
      <4>1. 1 \in 1..(seen - 1)
        BY <1>2, <2>1
      <4> QED
        BY <2>1, <3>1, <4>1
    <3>5. /\ 2 <= seen' /\ seen' <= n + 2 /\ Len(made') = seen' - 1
          /\ seen' <= limit /\ limit <= n + 2
      BY <1>2, <1>4, <2>1, <3>1
    <3>6. \A j \in (seen' - 1)..(limit - 2) : key[j] # Percent
      <4>1. \A j \in (seen' - 1)..(limit - 2) : j \in (seen - 1)..(limit - 2)
        BY <1>2, <3>1
      <4> QED
        BY <2>1, <4>1
    <3>7. Verbatim'
      <4>1. \A j \in 1..(seen' - 2) : made'[j + 1] = key'[j] /\ AsItIs(j)'
        BY <1>4, <1>5, <3>3
      <4>2. limit' # 0 => /\ seen' <= limit' /\ limit' <= n + 2
                          /\ limit' < n + 2 => key'[limit' - 1] = Percent
                          /\ \A j \in (seen' - 1)..(limit' - 2) : key'[j] # Percent
        BY <1>4, <2>1, <3>5, <3>6
      <4> QED
        BY <1>5, <3>4, <3>5, <4>1, <4>2 DEF Verbatim
    <3> QED
      BY <3>1, <3>7 DEF KeyStage
  <2> QED
    BY <2>3, <2>4
<1>10. CASE Gapped
  <2>1. /\ ~NothingSpecial(key) /\ 2 <= seen /\ Len(made) + 2 <= seen
        /\ limit <= n + 2 /\ Len(made) + 2 <= limit
    BY <1>1, <1>4, <1>10 DEF Gapped
  <2>2. CASE loop' = "failed"
    BY <2>1, <2>2
  <2>3. CASE loop' # "failed"
    <3>1. /\ loop' = "format" /\ seen' \in Nat /\ seen' >= seen + 1
          /\ Len(made') = Len(made) + 1
      <4>1. CASE Escaped(limit)
        BY <1>2, <1>6, <2>3, <4>1
      <4>2. CASE ~Escaped(limit)
        <5>1. seen + 1 <= n + 5
          BY <1>2, <1>4, <2>1
        <5> QED
          BY <1>2, <1>8, <4>2, <5>1
      <4> QED
        BY <4>1, <4>2
    <3>2. 2 <= seen' /\ Len(made') + 2 <= seen' /\ Len(made') + 2 <= limit
      BY <1>2, <1>4, <2>1, <3>1
    <3>3. Gapped'
      BY <1>4, <1>5, <2>1, <3>2 DEF Gapped
    <3> QED
      BY <3>1, <3>3 DEF KeyStage
  <2> QED
    BY <2>2, <2>3
<1>11. CASE KeyShown \/ KeyBehind
  <2>1. seen \in {n + 3, n + 4} /\ limit = n + 5
    BY <1>1, <1>2, <1>4, <1>11 DEF KeyShown, KeyBehind
  <2>2. /\ seen = n + 3 => source[seen + 1] = 115
        /\ seen = n + 4 => source[seen + 1] = Newline
    <3>1. n + 3 + 1 = n + 4 /\ n + 4 + 1 = n + 5
      OBVIOUS
    <3> QED
      BY <1>3, <3>1
  <2>3. ~Escaped(limit) /\ seen + 1 <= n + 5
    <3>1. source[seen + 1] # Backslash
      BY <2>1, <2>2 DEF Newline, Backslash
    <3> QED
      BY <2>1, <3>1 DEF Escaped
  <2>4. /\ loop' = "format" /\ seen' = seen + 1 /\ Len(made') = Len(made) + 1
        /\ made'[Len(made) + 1] = source[seen + 1]
        /\ \A p \in 1..Len(made) : made'[p] = made[p]
    BY <1>8, <2>3
  <2>5. CASE KeyShown
    <3>1. /\ NothingSpecial(key) /\ seen = n + 4 /\ Len(made) = n + 2
          /\ made[1] = Formatter + 107 /\ made[n + 2] = Formatter + 115
          /\ \A j \in 1..n : made[j + 1] = key[j]
      BY <1>1, <2>1, <2>5 DEF KeyShown
    <3>2. /\ seen' = n + 5 /\ Len(made') = n + 3 /\ made'[n + 3] = Newline
          /\ \A p \in 1..(n + 2) : made'[p] = made[p]
      <4>1. n + 2 + 1 = n + 3 /\ n + 4 + 1 = n + 5
        OBVIOUS
      <4> QED
        BY <2>2, <2>4, <3>1, <4>1
    <3>3. /\ made'[1] = Formatter + 107 /\ made'[n + 2] = Formatter + 115
          /\ \A j \in 1..n : made'[j + 1] = key[j]
      <4>1. \A j \in 1..n : j + 1 \in 1..(n + 2)
        OBVIOUS
      <4> QED
        BY <3>1, <3>2, <4>1
    <3>4. KeyShown'
      <4>1. /\ seen' \in {n + 4, n + 5} /\ limit' \in {0, n + 5} /\ Len(made') = seen' - 2
        BY <1>4, <2>1, <3>2
      <4> QED
        BY <1>4, <1>5, <3>1, <3>2, <3>3, <4>1 DEF KeyShown
    <3> QED
      BY <2>4, <3>4 DEF KeyStage
  <2>6. CASE KeyBehind
    <3>1. /\ ~NothingSpecial(key)
          /\ \/ Len(made) + 3 <= seen
             \/ Len(made) + 2 = seen /\ (seen >= n + 4 => made[n + 2] = 115)
      BY <1>1, <2>6 DEF KeyBehind
    <3>2. /\ seen' \in {n + 4, n + 5} /\ limit' \in {0, n + 5}
      BY <1>4, <2>1, <2>4
    <3>3. \/ Len(made') + 3 <= seen'
          \/ Len(made') + 2 = seen' /\ (seen' >= n + 4 => made'[n + 2] = 115)
      <4>1. CASE Len(made) + 3 <= seen
        BY <1>2, <2>4, <4>1
      <4>2. CASE Len(made) + 2 = seen /\ (seen >= n + 4 => made[n + 2] = 115)
        <5>1. CASE seen = n + 3
          <6>1. Len(made) + 1 = n + 2
            BY <1>2, <4>2, <5>1
          <6> QED
            BY <1>2, <2>2, <2>4, <4>2, <5>1, <6>1
        <5>2. CASE seen = n + 4
          <6>1. n + 2 \in 1..Len(made) /\ made[n + 2] = 115
            BY <1>2, <4>2, <5>2
          <6>2. made'[n + 2] = 115
            BY <2>4, <6>1
          <6>3. Len(made') + 2 = seen'
            BY <1>2, <2>4, <4>2
          <6> QED
            BY <6>2, <6>3
        <5> QED
          BY <2>1, <5>1, <5>2
      <4> QED
        BY <3>1, <4>1, <4>2
    <3>4. KeyBehind'
      BY <1>5, <3>1, <3>2, <3>3 DEF KeyBehind
    <3> QED
      BY <2>4, <3>4 DEF KeyStage
  <2> QED
    BY <1>11, <2>5, <2>6
<1> QED
  BY <1>4, <1>9, <1>10, <1>11 DEF KeyStage

LEMMA KeyResolved ==
  ASSUME TypeOK, KeySource, KeyStage, Resolved
  PROVE  loop' = "format" /\ KeyStage'
<1>1. PICK n \in Nat : n = Len(key)
  BY LenProperties DEF TypeOK
<1>2. seen \in Nat /\ limit \in Nat /\ Len(made) \in Nat
  BY LenProperties DEF TypeOK
<1>3. /\ loop' = "format" /\ limit # 0 /\ seen >= limit /\ seen' = limit /\ limit' = 0
      /\ UNCHANGED <<source, made, key>>
  BY DEF Resolved
<1>4. /\ (NothingSpecial(key)' <=> NothingSpecial(key)) /\ Len(key') = n
      /\ \A j : AsItIs(j)' <=> AsItIs(j)
  BY <1>1, <1>3, KeySteady
<1>5. CASE Verbatim
  <2>1. seen' = seen
    BY <1>2, <1>3, <1>5 DEF Verbatim
  <2>2. Verbatim'
    BY <1>1, <1>3, <1>4, <1>5, <2>1 DEF Verbatim
  <2> QED
    BY <1>3, <2>2 DEF KeyStage
<1>6. CASE Gapped
  <2>1. ~NothingSpecial(key) /\ limit <= n + 2 /\ Len(made) + 2 <= limit
    BY <1>1, <1>3, <1>6 DEF Gapped
  <2>2. 2 <= limit
    BY <1>2, <2>1
  <2>3. Gapped'
    BY <1>3, <1>4, <2>1, <2>2 DEF Gapped
  <2> QED
    BY <1>3, <2>3 DEF KeyStage
<1>7. CASE KeyShown
  <2>1. seen' = seen
    BY <1>1, <1>2, <1>3, <1>7 DEF KeyShown
  <2>2. KeyShown'
    BY <1>1, <1>3, <1>4, <1>7, <2>1 DEF KeyShown
  <2> QED
    BY <1>3, <2>2 DEF KeyStage
<1>8. CASE KeyBehind
  <2>1. seen' = seen
    BY <1>1, <1>2, <1>3, <1>8 DEF KeyBehind
  <2>2. KeyBehind'
    BY <1>1, <1>3, <1>4, <1>8, <2>1 DEF KeyBehind
  <2> QED
    BY <1>3, <2>2 DEF KeyStage
<1> QED
  BY <1>3, <1>5, <1>6, <1>7, <1>8 DEF KeyStage

(***************************************************************************)
(* At the end the output is as it should be, or something is special.      *)
(***************************************************************************)
LEMMA KeyEnds ==
  ASSUME TypeOK, KeySource, KeyStage, limit = 0, seen = Len(source)
  PROVE  made = KeyExpected <=> NothingSpecial(key)
<1>1. PICK n \in Nat : n = Len(key)
  BY LenProperties DEF TypeOK
<1>2. /\ key \in Seq(Nat) /\ made \in Seq(Nat) /\ Len(made) \in Nat /\ seen = n + 5
  BY <1>1, LenProperties DEF TypeOK, KeySource, LaidOut
<1>3. made = KeyExpected
        <=> /\ Len(made) = n + 3 /\ made[1] = Formatter + 107
            /\ \A j \in 1..n : made[j + 1] = key[j]
            /\ made[n + 2] = Formatter + 115 /\ made[n + 3] = Newline
  BY <1>1, <1>2, AsExpected
<1>4. ~Verbatim /\ ~Gapped /\ seen # 0
  BY <1>1, <1>2 DEF Verbatim, Gapped
<1>5. CASE KeyShown
  <2>1. /\ Len(made) = n + 3 /\ made[1] = Formatter + 107
        /\ \A j \in 1..n : made[j + 1] = key[j]
        /\ made[n + 2] = Formatter + 115 /\ made[n + 3] = Newline
    BY <1>1, <1>2, <1>5 DEF KeyShown
  <2>2. NothingSpecial(key)
    BY <1>5 DEF KeyShown
  <2> QED
    BY <1>3, <2>1, <2>2
<1>6. CASE KeyBehind
  <2>1. ~NothingSpecial(key) /\ (Len(made) # n + 3 \/ made[n + 2] = 115)
    BY <1>1, <1>2, <1>6 DEF KeyBehind
  <2>2. Formatter + 115 # 115
    BY DEF Formatter
  <2> QED
    BY <1>3, <2>1, <2>2
<1> QED
  BY <1>4, <1>5, <1>6 DEF KeyStage

LEMMA KeyNext ==
  ASSUME Kept, KeyIInv, [EscapesNext]_inputVars
  PROVE  KeyIInv'
<1>1. TypeOK /\ KeyDelimShown
  BY DEF Kept, KeyIInv
<1>2. ASSUME use' # "delim" \/ loop' \in {"writing", "delim", "rejected"} PROVE KeyIInv'
  BY <1>2 DEF KeyIInv, KeyDelimShown
<1>3. ASSUME NEW w \in Writable, Write(w) PROVE KeyIInv'
  BY <1>2, <1>3 DEF Write
<1>4. CASE Enter
  BY <1>2, <1>4 DEF Enter
<1>5. CASE EscapeStep /\ UNCHANGED <<use, text, meant>>
  <2>1. CASE use # "delim"
    BY <1>2, <1>5, <2>1
  <2>2. ASSUME use = "delim", loop = "format" PROVE KeySource /\ KeyStage
    BY <2>2 DEF KeyIInv, KeyStage
  <2>3. ASSUME use = "delim", loop' = "format", KeySource', KeyStage' PROVE KeyIInv'
    BY <2>3 DEF KeyIInv, KeyDelimShown, KeyStage
  <2>4. ASSUME use = "delim", loop' = "failed", ~NothingSpecial(key)' PROVE KeyIInv'
    BY <2>4 DEF KeyIInv, KeyDelimShown
  <2>5. ASSUME UNCHANGED <<source, key>>
        PROVE  (KeySource' <=> KeySource) /\ (NothingSpecial(key)' <=> NothingSpecial(key))
    BY <2>5, KeySteady
  <2>6. CASE ParseDelim
    <3>1. loop' \in {"delim", "rejected"}
      BY <2>6 DEF ParseDelim, Convert, Emit, Fail
    <3> QED
      BY <1>2, <3>1
  <2>7. CASE use = "delim" /\ DelimParsed
    <3>1. /\ key' = made /\ source' = KeyFormat(made) /\ seen' = 0 /\ made' = <<>>
          /\ loop' = "format" /\ limit' = limit /\ loop = "delim"
      BY <2>7 DEF DelimParsed
    <3>2. limit' = 0 /\ key' \in Seq(Nat) /\ source' = KeyFormat(key')
      BY <1>1, <3>1 DEF TypeOK, KeyFormat
    <3>3. KeySource'
      <4>1. \A k \in Seq(Nat) : \A f : f = KeyFormat(k) => LaidOut(f, k)
        BY KeySourceIs, Zenon
      <4>2. LaidOut(source', key')
        BY <3>2, <4>1, Zenon
      <4> QED
        BY <4>2 DEF KeySource, LaidOut
    <3>4. KeyStage'
      BY <3>1, <3>2 DEF KeyStage
    <3> QED
      BY <2>3, <2>7, <3>1, <3>3, <3>4
  <2>8. CASE use = "delim" /\ FormatToken
    <3>1. loop = "format" /\ UNCHANGED <<source, key>>
      BY <2>8 DEF FormatToken, Parsing
    <3> QED
      BY <1>1, <2>2, <2>3, <2>4, <2>5, <2>8, <3>1, KeyToken
  <2>9. CASE use = "delim" /\ Literal
    <3>1. loop = "format" /\ UNCHANGED <<source, key>>
      BY <2>9 DEF Literal, Parsing
    <3> QED
      BY <1>1, <2>2, <2>3, <2>5, <2>9, <3>1, KeyLiteral
  <2>10. CASE use = "delim" /\ ResolveEscapes
    <3>1. loop = "format" /\ UNCHANGED <<source, key>>
      BY <2>10 DEF ResolveEscapes
    <3> QED
      BY <1>1, <2>2, <2>3, <2>4, <2>5, <2>10, <3>1, KeyResolve
  <2>11. CASE use = "delim" /\ Resolved
    <3>1. loop = "format" /\ UNCHANGED <<source, key>>
      BY <2>11 DEF Resolved
    <3> QED
      BY <1>1, <2>2, <2>3, <2>5, <2>11, <3>1, KeyResolved
  <2>12. CASE use = "delim" /\ Parsed
    <3>1. /\ loop = "format" /\ limit = 0 /\ seen = Len(source) /\ loop' = "done"
          /\ UNCHANGED <<source, key, made, use>>
      BY <1>5, <2>12 DEF Parsed
    <3>2. made = KeyExpected <=> NothingSpecial(key)
      BY <1>1, <2>2, <2>12, <3>1, KeyEnds
    <3>3. made' = KeyExpected' <=> NothingSpecial(key)'
      BY <3>1, <3>2, KeySteady
    <3> QED
      BY <3>1, <3>3 DEF KeyIInv, KeyDelimShown, KeyExpected
  <2> QED
    BY <1>5, <2>1, <2>6, <2>7, <2>8, <2>9, <2>10, <2>11, <2>12 DEF EscapeStep
<1>6. CASE UNCHANGED inputVars
  <2>1. UNCHANGED <<source, seen, limit, made, loop, key, use>>
    BY <1>6 DEF inputVars, escapeVars
  <2>2. /\ (KeySource' <=> KeySource)
        /\ (Verbatim' <=> Verbatim) /\ (Gapped' <=> Gapped)
        /\ (KeyShown' <=> KeyShown) /\ (KeyBehind' <=> KeyBehind)
    BY <2>1 DEF KeySource, LaidOut, Verbatim, Gapped, KeyShown, KeyBehind, NothingSpecial, AsItIs
  <2>3. KeyDelimShown' <=> KeyDelimShown
    BY <2>1 DEF KeyDelimShown, NothingSpecial
  <2> QED
    BY <2>1, <2>2, <2>3 DEF KeyIInv
<1> QED
  BY <1>3, <1>4, <1>5, <1>6 DEF EscapesNext, Writable

-----------------------------------------------------------------------------
(***************************************************************************)
(* The loops of both functions, for every text: what they make is what is  *)
(* written, except behind a hex escape, and what they refuse is a \x       *)
(* without digits and a formatter that is not known or not finished.       *)
(***************************************************************************)
EscapesIInv == Kept /\ DelimIInv /\ FormatIInv /\ KeyIInv

THEOREM EscapesInvariance == EscapesSpec => []EscapesIInv
<1>1. EscapesInit => EscapesIInv
  <2>1. EscapesInit => DelimIInv /\ FormatIInv /\ KeyIInv
    BY DEF EscapesInit, DelimIInv, DelimMeans, FormatIInv, FormatMeans,
           KeyIInv, KeyDelimShown
  <2> QED
    BY <2>1, KeptInit DEF EscapesIInv
<1>2. EscapesIInv /\ [EscapesNext]_inputVars => EscapesIInv'
  <2> SUFFICES ASSUME EscapesIInv, [EscapesNext]_inputVars PROVE EscapesIInv'
    OBVIOUS
  <2>1. Kept /\ DelimIInv /\ FormatIInv /\ KeyIInv /\ (loop = "delim" => use = "delim")
    BY DEF EscapesIInv, DelimIInv
  <2> QED
    BY <2>1, KeptNext, DelimNext, FormatNext, KeyNext DEF EscapesIInv
<1> QED
  BY <1>1, <1>2, PTL DEF EscapesSpec

(***************************************************************************)
(* ParseDelim rejects exactly the texts for -D and -K that hold a \x       *)
(* without digits, and makes of the others what is written exactly unless  *)
(* a hex escape swallows the digit behind it.                              *)
(***************************************************************************)
THEOREM DelimMeansWritten == EscapesSpec => []DelimMeans
<1>1. EscapesIInv => DelimMeans
  BY DEF EscapesIInv, DelimIInv
<1> QED
  BY <1>1, EscapesInvariance, PTL

(***************************************************************************)
(* Parse refuses -f only for a bad formatter or a \x without digits, and   *)
(* makes of it what is written exactly unless a hex escape loses the byte  *)
(* behind it, as long as no hex escape and no \\ stand behind another.     *)
(***************************************************************************)
THEOREM FormatMeansWritten == EscapesSpec => []FormatMeans
<1>1. EscapesIInv => FormatMeans
  BY DEF EscapesIInv, FormatIInv
<1> QED
  BY <1>1, EscapesInvariance, PTL

(***************************************************************************)
(* Both: the escapes of the command line mean what they are written for,   *)
(* but for the exceptions that the two name.                               *)
(***************************************************************************)
THEOREM EscapesAlwaysMean == EscapesSpec => []EscapesMean
<1>1. EscapesIInv => EscapesMean
  BY DEF EscapesIInv, DelimIInv, FormatIInv, EscapesMean
<1> QED
  BY <1>1, EscapesInvariance, PTL

(***************************************************************************)
(* What the consumer prints without -f: key, delimiter, value and newline  *)
(* as they are, exactly if nothing in the delimiter is special to Parse.   *)
(***************************************************************************)
THEOREM KeyDelimShownExactly == EscapesSpec => []KeyDelimShown
<1>1. EscapesIInv => KeyDelimShown
  BY DEF EscapesIInv, KeyIInv
<1> QED
  BY <1>1, EscapesInvariance, PTL

=============================================================================
