---------------------------- MODULE MC_AgentSession ----------------------------
(* Instances of AgentSession for TLC: agent a1 tries twice, a2 once.          *)
EXTENDS AgentSession, TLC

CONSTANTS a1, a2, r1, r1again, r2

MCAgentOf == r1 :> a1 @@ r1again :> a1 @@ r2 :> a2
MCBefore == r1 :> {} @@ r1again :> {r1} @@ r2 :> {}
=============================================================================
