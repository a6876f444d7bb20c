---- MODULE MCTelemetryLifecycle ----
EXTENDS TelemetryLifecycle
====
