------------------------------ MODULE MCDriver ------------------------------
(***************************************************************************)
(* Instances of Driver for TLC.                                            *)
(***************************************************************************)
EXTENDS Driver

\* Answers are free or cost one unit; an earlier run of the session spent nothing or
\* has already passed the cap.
MCCosts       == {0, 1}
MCSpentBefore == {0, Cap + MaxCost}
=============================================================================
