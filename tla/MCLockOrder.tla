------------------------------ MODULE MCLockOrder ------------------------------
(* Instances of LockOrder for TLC. *)
EXTENDS LockOrder
=============================================================================
