---------------------------- MODULE MCClientWatch ----------------------------
(* Instances of ClientWatch for TLC. *)
EXTENDS ClientWatch

CONSTANTS w1, w2

OneWatch == {w1}
TwoWatches == {w1, w2}
=============================================================================
