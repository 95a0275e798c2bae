-------------------------- MODULE MCServiceLifecycle --------------------------
(* The instance of ServiceLifecycle for TLC: four troubles let a seeding be cut   *)
(* off, the service be started with other settings, fail once more and be stopped. *)
EXTENDS ServiceLifecycle

=============================================================================
