---------------------------- MODULE MCSupervisor ----------------------------
(* Instances of Supervisor for TLC: constants come from the configurations. *)
EXTENDS Supervisor
=============================================================================
