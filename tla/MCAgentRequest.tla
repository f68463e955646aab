--------------------------- MODULE MCAgentRequest ---------------------------
EXTENDS AgentRequest
=============================================================================
