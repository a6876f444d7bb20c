---- MODULE MCLeaseQueue ----
EXTENDS LeaseDeaths, TLC

CONSTANTS p1, p2, p3, none

\* The processes of an instance are interchangeable.
Symmetric == Permutations(Proc)
====
