---------------------------- MODULE MCAgentBroker ----------------------------
(* AgentBroker with an import and a wait.                                  *)
EXTENDS AgentBroker

CONSTANTS i, w

KindOf == [r \in Requests |-> IF r = i THEN "import" ELSE "wait"]
=============================================================================
