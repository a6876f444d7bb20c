---- MODULE MCDeviceLease ----
EXTENDS DeviceLease, TLC

CONSTANTS p1, p2, p3, none

\* The processes of an instance are interchangeable.
Symmetric == Permutations(Proc)
====
