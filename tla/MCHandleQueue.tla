----------------------------- MODULE MCHandleQueue -----------------------------
(* Instances of HandleQueue for TLC. *)
EXTENDS HandleQueue

=============================================================================
