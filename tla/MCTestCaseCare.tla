--------------------------- MODULE MCTestCaseCare ---------------------------
EXTENDS TestCaseCare, TLC
CONSTANTS adm, dev
MCRole == [r \in Clients |-> IF r = adm THEN "admin" ELSE "writer"]
Symmetry == Permutations(Files)
=============================================================================
