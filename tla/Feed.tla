-------------------------------- MODULE Feed --------------------------------
(***************************************************************************)
(* What whoever reads the output of consumer mode may rely on: a stretch   *)
(* of the partition, from some offset on, in order, without a gap and      *)
(* without a repetition, and after a stop at most one message more.        *)
(*                                                                         *)
(* There are no reads, no deadlines and no formatting here; module         *)
(* Consumer implements this specification.                                 *)
(***************************************************************************)
EXTENDS Naturals, Sequences

VARIABLES arrived,  \* how many messages the partition holds
          start,    \* how many of them are before the first one shown
          shown,    \* the numbers of the messages shown
          stopped,  \* the consumer was told to stop, or told itself
          extra     \* messages shown after that

vars == <<arrived, start, shown, stopped, extra>>

Init == /\ arrived = 0 /\ start = 0 /\ shown = <<>>
        /\ stopped = FALSE /\ extra = 0

Arrive == /\ arrived' = arrived + 1
          /\ UNCHANGED <<start, shown, stopped, extra>>

Begin == /\ shown = <<>>
         /\ start' \in 0..arrived
         /\ UNCHANGED <<arrived, shown, stopped, extra>>

Show == LET n == start + Len(shown) + 1 IN
        /\ n <= arrived
        /\ shown' = Append(shown, n)
        /\ stopped => extra = 0
        /\ extra' = IF stopped THEN 1 ELSE 0
        /\ UNCHANGED <<arrived, start, stopped>>

Stop == stopped' = TRUE /\ UNCHANGED <<arrived, start, shown, extra>>

Next == Arrive \/ Begin \/ Show \/ Stop

Spec == Init /\ [][Next]_vars

=============================================================================
