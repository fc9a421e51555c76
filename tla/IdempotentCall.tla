--------------------------- MODULE IdempotentCall ---------------------------
(***************************************************************************)
(* What the credential broker promises a caller about an idempotency key:  *)
(* the provider sees at most one request, that request has at most one     *)
(* outcome, and every caller who is told an outcome is told that one.      *)
(* ledger.rs states it as "an accepted retry must not repeat a committed   *)
(* provider side effect".                                                  *)
(***************************************************************************)
EXTENDS Naturals

CONSTANTS Keys, Answers, None

VARIABLES
  performed,  \* provider requests sent per key
  decided,    \* the outcome of a key, None until there is one
  told        \* the outcome callers of a key have been told

Init ==
  /\ performed = [k \in Keys |-> 0]
  /\ decided = [k \in Keys |-> None]
  /\ told = [k \in Keys |-> None]

\* The side effect: never twice, and never once there is an outcome to replay.
Perform(k) ==
  /\ performed[k] = 0
  /\ decided[k] = None
  /\ performed' = [performed EXCEPT ![k] = 1]
  /\ UNCHANGED <<decided, told>>

\* The outcome is fixed; its caller may learn it at once or never.
Decide(k) ==
  /\ decided[k] = None
  /\ decided'[k] \in Answers
  /\ decided' = [decided EXCEPT ![k] = decided'[k]]
  /\ told' \in {told, [told EXCEPT ![k] = decided'[k]]}
  /\ UNCHANGED performed

\* A caller, first or later, is told the outcome.
Tell(k) ==
  /\ decided[k] # None
  /\ told' = [told EXCEPT ![k] = decided[k]]
  /\ UNCHANGED <<performed, decided>>

Next ==
  \E k \in Keys :
    \/ Perform(k)
    \/ Decide(k)
    \/ Tell(k)

Spec == Init /\ [][Next]_<<performed, decided, told>>
=============================================================================
