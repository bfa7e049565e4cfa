------------------------------ MODULE Signals ------------------------------
(***************************************************************************)
(* How SIGINT and SIGTERM reach the loops (main.go 275-280): signal.Notify *)
(* relays them into a channel of capacity one, dropping what does not fit, *)
(* and one goroutine receives ONE value and clears config.Cfg.Run, the     *)
(* flag that the loops of RunProducer, RunConsumer and RunConsumerGroup    *)
(* test, and also clear themselves when a limit is reached.                *)
(*                                                                         *)
(* Run is a plain bool that two goroutines write without synchronisation;  *)
(* both only ever clear it, so the race has one outcome: the loop sees     *)
(* the old value or the new one at each of its tests.                      *)
(***************************************************************************)
EXTENDS Naturals

CONSTANT MaxSignals   \* bound of the model: signals sent to one process

VARIABLES run,        \* config.Cfg.Run
          sigCh,      \* how many signals sigCh holds
          watching,   \* the goroutine is still waiting for its signal
          sent        \* signals sent to the process so far

sigVars == <<run, sigCh, watching, sent>>

SigTypeOK == /\ run \in BOOLEAN /\ sigCh \in 0..1
             /\ watching \in BOOLEAN /\ sent \in 0..MaxSignals

SigInit == run = TRUE /\ sigCh = 0 /\ watching = TRUE /\ sent = 0

(***************************************************************************)
(* External: a signal is sent, and dropped when the channel is full.       *)
(***************************************************************************)
Notify == /\ sent < MaxSignals
          /\ sent' = sent + 1
          /\ sigCh' = 1
          /\ UNCHANGED <<run, watching>>

(***************************************************************************)
(* The goroutine's only receive.                                           *)
(***************************************************************************)
ReceiveSignal == /\ watching /\ sigCh = 1
                 /\ sigCh' = 0 /\ watching' = FALSE /\ run' = FALSE
                 /\ UNCHANGED sent

=============================================================================
