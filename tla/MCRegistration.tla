------------------------- MODULE MCRegistration -------------------------
(* A playback and a recording endpoint, two audio clients. *)
EXTENDS Registration, TLC

CONSTANTS p, r

MCTypeOf == p :> "Playback" @@ r :> "Recording"
=============================================================================
