--------------------------- MODULE MCAgentStatus ---------------------------
EXTENDS AgentStatus

\* The calls of codex's questions are alike.
CallSymmetry == Permutations(Calls)
=============================================================================
