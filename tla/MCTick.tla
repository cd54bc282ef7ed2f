-------------------------------- MODULE MCTick --------------------------------
(* Instances of Tick for TLC. *)
EXTENDS Tick

MCOneTwo == {1, 2}
MCRequests == {5}
MCOffsets == {0, 8}
MCNotifications == {2}
=============================================================================
