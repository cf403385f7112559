--------------------------- MODULE MCIntentCapture ---------------------------
(* Instances of IntentCapture for TLC. *)
EXTENDS IntentCapture

CONSTANTS i1, i2, i3

TwoIntents == {i1, i2}
ThreeIntents == {i1, i2, i3}
NoFaults == {}
AllFaults == {"db"}
=============================================================================
