------------------------------ MODULE MCWindow ------------------------------
(* The cutover window with two hosts and a bounded number of faults. *)
EXTENDS Window

CONSTANTS mac, devs

MCHostOrder == <<mac, devs>>
=============================================================================
