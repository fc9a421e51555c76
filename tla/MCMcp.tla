------------------------------- MODULE MCMcp -------------------------------
(***************************************************************************)
(* Two calls of the MCP server, on executors that the server builds for    *)
(* them, and two resumes.                                                  *)
(***************************************************************************)
EXTENDS Mcp

CONSTANTS a1, a2, e1, e2, t1, good, other

MCHome == [a \in Attempts |-> IF a = a1 THEN e1 ELSE e2]

\* The rules allow one input and defer the other.
MCRuleAllow == {<<t1, good>>}

\* The schema layer decides as execute did before the cascade and is left out.
MCCascade == [e \in Executors |-> <<"rule", "suspend", "mcp_proceed">>]
MCHooks   == [e \in Executors |-> 0]

\* Bound: what follows the death of the process is not explored; nothing does follow it,
\* and nothing is owed then.
ServerUp == up
=============================================================================
