-------------------------- MODULE MCBackendLifetime -------------------------
(* A small backend for TLC: the configurations give every constant. *)
EXTENDS BackendLifetime
=============================================================================
