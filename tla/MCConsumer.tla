----------------------------- MODULE MCConsumer -----------------------------
(***************************************************************************)
(* Small instance of Consumer.  Without -s the timestamps 1..3 arrive in   *)
(* any order, so the stop timestamp 2 is met from below, exactly and from  *)
(* above; with it, messages of two schema ids and of every fate.           *)
(***************************************************************************)
EXTENDS Consumer

Message(ts, id, fate) == [ts |-> ts, id |-> id, fate |-> fate]

Plain == {Message(ts, 1, "whole") : ts \in 1..3}
Packed == {Message(1, 1, fate) : fate \in {"whole", "cut", "panic", "spins"}}
Framed == {Message(1, id, "whole") : id \in 1..2}
Odd == {Message(1, 1, fate) : fate \in {"whole", "cut", "panic", "unframed"}}

Raw == [limit |-> 0, stopTS |-> 0, exitEOF |-> FALSE, serde |-> "none",
        topic |-> Plain, full |-> FALSE]

MCConfigs ==
  { [Raw EXCEPT !.exitEOF = TRUE], [Raw EXCEPT !.limit = 1],
    [Raw EXCEPT !.limit = 2, !.full = TRUE],
    [Raw EXCEPT !.stopTS = 2], [Raw EXCEPT !.stopTS = 2, !.limit = 2],
    [Raw EXCEPT !.serde = "pack", !.topic = Packed, !.full = TRUE],
    [Raw EXCEPT !.serde = "avro", !.topic = Framed],
    [Raw EXCEPT !.serde = "avro", !.topic = Odd, !.limit = 2, !.full = TRUE],
    [Raw EXCEPT !.serde = "avro only", !.topic = {Message(1, 1, "whole")}] }

MCExitEOF == {[Raw EXCEPT !.exitEOF = TRUE]}

=============================================================================
