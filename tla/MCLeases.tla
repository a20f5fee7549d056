-------------------------------- MODULE MCLeases --------------------------------
EXTENDS Leases

CONSTANTS w1, w2, tokA, tokB, tokC, fsX, fsY, nameP, nameQ, none

\* Two workspaces, and two names that stand for two filespaces.
SomeTokens == {[w \in Workspaces |-> IF w = w1 THEN tokA ELSE tokB]}
SomeNames == {[t \in Tokens |-> [n \in Names |-> IF n = nameP THEN fsX ELSE fsY]]}
SomeWants == {<<w1, nameP>>, <<w1, nameQ>>, <<w2, nameP>>}
================================================================================
