------------------------- MODULE MCLaunchExecution --------------------------
EXTENDS LaunchExecution, TLC
CONSTANTS u, v, c1, c2, s1
\* Every test case under two groups.
MCDepth == [c \in Cases |-> 2]
MCServerOf == [r \in Clients |-> s1]
Symmetry == Permutations(Clients) \cup Permutations(Cases)
=============================================================================
