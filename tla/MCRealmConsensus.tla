-------------------------- MODULE MCRealmConsensus --------------------------
(* Three validators, two proposals and three checkpoints; the epoch ends   *)
(* with the second and changes the proposer.                               *)
EXTENDS RealmConsensus

MCShuffle == [a \in 0 .. MaxCheckpoint |-> IF a < 2 THEN 1 ELSE 2]
=============================================================================
