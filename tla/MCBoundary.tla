----------------------------- MODULE MCBoundary -----------------------------
(***************************************************************************)
(* Small instances of Boundary.                                            *)
(***************************************************************************)
EXTENDS Boundary

CONSTANTS b1, b2, p1
=============================================================================
