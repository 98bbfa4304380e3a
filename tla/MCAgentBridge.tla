---------------------------- MODULE MCAgentBridge ----------------------------
(* AgentBridge with two mutations that may follow or overlap each other, a *)
(* Preset that is applied (a) and one that is renamed (b), and a request   *)
(* of the direct lane (w), which is a wait or a gesture.                   *)
EXTENDS AgentBridge

CONSTANTS a, b, w

KindOf == [r \in Requests |-> IF r \in {a, b} THEN "mutation" ELSE "direct"]
ChangesOf == [r \in Requests |->
                IF r = a THEN Domains ELSE IF r = b THEN {"presets"} ELSE {}]
=============================================================================
