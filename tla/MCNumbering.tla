---------------------------- MODULE MCNumbering -----------------------------
EXTENDS Numbering, TLC
CONSTANTS r1, r2, r3
Symmetry == Permutations(Requests)
=============================================================================
