---------------------------- MODULE MCSupervisor ----------------------------
(***************************************************************************)
(* Instances of Supervisor for TLC: one permit that two calls compete for, *)
(* and a window short enough to be renewed several times.                  *)
(***************************************************************************)
EXTENDS Supervisor
=============================================================================
