------------------------------ MODULE MCAgents ------------------------------
\* The two provider agents, one or the other: the focus is chosen at the start.
EXTENDS ProviderAgent, LegacyAgent

VARIABLE agentFocus
mcAgentVars == <<agentVars, legacyVars, agentFocus>>

MCInit == AgentInit /\ LegacyInit /\ agentFocus \in {"managed", "legacy"}

MCNext ==
    \/ agentFocus = "managed" /\ AgentNext /\ UNCHANGED <<legacyVars, agentFocus>>
    \/ agentFocus = "legacy" /\ LegacyNext /\ UNCHANGED <<agentVars, agentFocus>>

MCSpec == /\ MCInit /\ [][MCNext]_mcAgentVars
          /\ agentFocus = "managed" => AgentFairness
          /\ agentFocus = "legacy" => LegacyFairness

\* Both agents go on working: the managed one answers, reconnects and ends when it
\* must (AgentRecovers), the legacy one stops reporting what ended (_heartbeat_loop).
AgentsRecover == AgentRecovers /\ StaleLoadFades
=============================================================================
