------------------------------ MODULE MCBroker ------------------------------
(***************************************************************************)
(* Small instances of Broker.                                              *)
(***************************************************************************)
EXTENDS Broker, TLC

CONSTANTS c1, c2, k1, k2, f1, f2

\* Policies of quota 3 that grant some fingerprints; f2 costs more than f1.
Policy(generation, limit, grants) ==
  [generation |-> generation, quota_limit |-> limit, grants |-> grants,
   cost |-> [f \in Prints |-> IF f = f1 THEN 1 ELSE 2]]

\* Two generations, and the state file of the other one to refuse.
MCTwoGenerations == {Policy(g, 3, {f1, f2}) : g \in {1, 2}}

MCOnePolicy == {Policy(1, 3, {f1, f2})}

MCSymmetry == Permutations({c1, c2}) \cup Permutations(Keys)
=============================================================================
