--------------------------- MODULE MCEntityStore ---------------------------
EXTENDS EntityStore
CONSTANTS adm, w1, w2, s1, s2
MCRole == [r \in Requests |-> IF r = adm THEN "admin" ELSE "writer"]
MCServerOf == [r \in Requests |-> IF r = w2 THEN s2 ELSE s1]
=============================================================================
