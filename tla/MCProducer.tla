----------------------------- MODULE MCProducer -----------------------------
(***************************************************************************)
(* Small instance of Producer.  The bytes are a, standing for any byte of  *)
(* a key or value, and c, d, the bytes of the key delimiters: one of one   *)
(* byte, one of two; one line does not fit.  The command lines differ in   *)
(* what the code's branches tell apart.                                    *)
(***************************************************************************)
EXTENDS Producer

CONSTANTS a, c, d

MCLines == {<<>>, <<a>>, <<c, a>>, <<a, c>>, <<a, c, d, a, a>>, <<a, a, a, a, a, a>>}

Stdin == [lineMode |-> TRUE, files |-> << <<a>> >>, keyDelim |-> <<>>,
          fixedKey |-> <<>>, limit |-> 0, nullEmpty |-> FALSE, tee |-> FALSE,
          acked |-> TRUE]

Files(fs) == [Stdin EXCEPT !.lineMode = FALSE, !.files = fs]

MCConfigs ==
  { [Stdin EXCEPT !.tee = TRUE],
    [Stdin EXCEPT !.keyDelim = <<c>>, !.limit = 2, !.tee = TRUE],
    [Stdin EXCEPT !.keyDelim = <<c>>, !.nullEmpty = TRUE, !.fixedKey = <<d>>],
    [Stdin EXCEPT !.keyDelim = <<c, d>>, !.limit = 1, !.acked = FALSE],
    Files(<< <<a>>, Nil, <<>> >>), Files(<<Nil>>), Files(<< <<a>>, <<c>> >>),
    [Files(<< <<a>>, <<>>, <<c>> >>) EXCEPT !.acked = FALSE] }

DocumentedConfigs ==
  { [Stdin EXCEPT !.keyDelim = <<c>>, !.limit = 1, !.nullEmpty = TRUE, !.tee = TRUE] }

=============================================================================
