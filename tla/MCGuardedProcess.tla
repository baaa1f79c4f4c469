-------------------------- MODULE MCGuardedProcess --------------------------
(* Instances of GuardedProcess for TLC. *)
EXTENDS GuardedProcess
=============================================================================
