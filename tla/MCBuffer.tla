------------------------------ MODULE MCBuffer ------------------------------
(***************************************************************************)
(* Bounded instances of Buffer: sequences cannot be written in a cfg.      *)
(***************************************************************************)
EXTENDS Buffer

CONSTANTS nl, x   \* two byte values

MCBytes == {nl, x}
\* A delimiter that overlaps itself: "nl nl nl" holds it at offsets 0 and 1.
MCDelim == <<nl, nl>>
MCNewline == <<nl>>
=============================================================================
