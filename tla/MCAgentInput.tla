---------------------------- MODULE MCAgentInput ----------------------------
(* Instances of AgentInput for TLC.                                        *)
EXTENDS AgentInput

CONSTANTS u1, u2, n1, n2

Mixed == [n \in Notices \cup {Nudge} |-> IF n = n1 THEN "job" ELSE "subagent"]
=============================================================================
