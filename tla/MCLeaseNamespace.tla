---- MODULE MCLeaseNamespace ----
EXTENDS LeaseNamespace
====
