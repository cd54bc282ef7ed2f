----------------------------- MODULE MCHandleClient -----------------------------
(* Instances of HandleClient for TLC. *)
EXTENDS HandleClient
=============================================================================
