-------------------------- MODULE MCIntentPipeline --------------------------
(* Instances of IntentPipeline for TLC. *)
EXTENDS IntentPipeline

CONSTANTS i1, i2

OneIntent == {i1}
TwoIntents == {i1, i2}
NoFaults == {}
CallFaults == {"db", "queue", "rpc"}
StoreFaults == {"db", "queue", "crash"}
AllFaults == {"db", "queue", "rpc", "crash", "replace"}

(* A bound: replaced transactions, or a loss, in one behaviour, not both.  *)
OneMishap == losses = 0 \/ \A i \in Intents : ~Replaced(i)
=============================================================================
