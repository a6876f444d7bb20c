---- MODULE MCLeaseFairness ----
EXTENDS LeaseFairness, TLC

CONSTANTS p1, p2, none

\* The processes of an instance are interchangeable.
Symmetric == Permutations(Proc)
====
