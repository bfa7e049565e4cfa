-------------------------------- MODULE Pipe --------------------------------
(***************************************************************************)
(* What whoever pipes data into producer mode may rely on: the messages    *)
(* of the source reach the topic one at a time.  One that stops at an      *)
(* error begins a message only when the one before is confirmed; one that  *)
(* waits for acknowledgements confirms only what the topic holds; one that *)
(* does both never lets a message overtake another, or leaves one out.     *)
(* A message may be delivered any number of times.  After a stop at most   *)
(* one more is begun by one that stops at errors; files are all begun.     *)
(*                                                                         *)
(* There are no buffers, no retries and no keys here; module Producer      *)
(* implements this specification.                                          *)
(***************************************************************************)
EXTENDS Naturals, Sequences, Functions

VARIABLES source,     \* the source's messages: whether each is blank
          careful,    \* it stops at an error
          acks,       \* it waits for acknowledgements
          cur,        \* the last message begun, or 0
          delivered,  \* the numbers of the messages in the topic
          confirmed,  \* those the writer takes to be there
          stopped,    \* it was told to stop, or told itself
          extra       \* messages begun after that

vars == <<source, careful, acks, cur, delivered, confirmed, stopped, extra>>

Init == /\ source \in Seq(BOOLEAN) /\ careful \in BOOLEAN /\ acks \in BOOLEAN
        /\ cur = 0 /\ delivered = <<>> /\ confirmed = {}
        /\ stopped = FALSE /\ extra = 0

Extend == /\ \E blank \in BOOLEAN : source' = Append(source, blank)
          /\ UNCHANGED <<careful, acks, cur, delivered, confirmed, stopped, extra>>

Begin == /\ careful /\ cur # 0 => cur \in confirmed
         /\ careful /\ stopped => extra = 0
         /\ \E n \in (cur + 1)..Len(source) :
              /\ ~source[n] /\ \A k \in (cur + 1)..(n - 1) : source[k]
              /\ cur' = n
         /\ extra' = IF stopped THEN extra + 1 ELSE extra
         /\ UNCHANGED <<source, careful, acks, delivered, confirmed, stopped>>

Deliver == /\ \E n \in 1..cur : /\ ~source[n]
                                /\ careful /\ acks => n = cur
                                /\ delivered' = Append(delivered, n)
           /\ UNCHANGED <<source, careful, acks, cur, confirmed, stopped, extra>>

Confirm == /\ cur # 0
           /\ acks => cur \in Range(delivered)
           /\ confirmed' = confirmed \cup {cur}
           /\ stopped' \in {stopped, TRUE}
           /\ UNCHANGED <<source, careful, acks, cur, delivered, extra>>

Stop == /\ stopped' = TRUE
        /\ UNCHANGED <<source, careful, acks, cur, delivered, confirmed, extra>>

Next == Extend \/ Begin \/ Deliver \/ Confirm \/ Stop

Spec == Init /\ [][Next]_vars

=============================================================================
