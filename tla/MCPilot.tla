------------------------------- MODULE MCPilot -------------------------------
EXTENDS PilotProperties, TLC
Symmetry == Permutations(Threads) \cup Permutations(Challenges)
=============================================================================
