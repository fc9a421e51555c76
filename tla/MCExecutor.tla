----------------------------- MODULE MCExecutor -----------------------------
(***************************************************************************)
(* Two attempts on one executor, whose hooks may rewrite an input before   *)
(* the rules see it and veto a call after them.                            *)
(***************************************************************************)
EXTENDS Executor, TLC

CONSTANTS a1, a2, e1, t1, good, other, bad

MCHome == [a \in Attempts |-> e1]

\* The rules allow one valid input of the tool and deny the other.
MCRuleAllow == {<<t1, good>>}
MCRuleDeny  == {<<t1, other>>}

MCCascade == [e \in Executors |-> <<"hook_bridge", "rule">>]
MCHooks   == [e \in Executors |-> 1]

\* Bounds: what follows once no process is left, once both attempts are cancelled, or once
\* one is cancelled beside a line of the driver's, is not explored (nothing does follow the
\* first).
MaxCancelled == 1
SomeoneLives == dead # Executors
FewCancelled == Cardinality(cancelled) <= MaxCancelled
OneDisturbance == cancelled = {} \/ \A i \in DOMAIN log : log[i].phase # "run"

MCSymmetry == Permutations({a1, a2})
=============================================================================
