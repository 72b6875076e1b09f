------------------------------- MODULE MCFront -------------------------------
EXTENDS Front, TLC

PoolSizes == [s \in Services |-> IF s = "commande" THEN 2 ELSE 1]
=============================================================================
