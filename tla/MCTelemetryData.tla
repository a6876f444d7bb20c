---- MODULE MCTelemetryData ----
(***************************************************************************)
(* What telemetry samples are taken from and the ring they are put into,   *)
(* for TLC: the pane registry, the process table, the sensors, and a ring  *)
(* of four cells used as two slots or as four, or one of two cells.  They  *)
(* meet only in the roots a scan is given, any set of them, and in samples *)
(* the ring does not look into, so each behaviour exercises one of the     *)
(* four and the others rest.                                               *)
(***************************************************************************)
EXTENDS PaneRegistry, PaneTicks, SensorScan, TelemetryRing

VARIABLE part   \* the one that is exercised

\* The second process polls two panes and the third one; the first one only takes
\* its place in the file, before them.
MCPanes == [o \in Owner |-> CASE o = 1 -> {} [] o = 2 -> {21, 22} [] o = 3 -> {31}]

MCGeometry == {[count |-> 2, size |-> 2], [count |-> 4, size |-> 1], [count |-> 2, size |-> 1]}

vars == <<part, registryVars, ticksVars, sensorVars, ringVars>>

Init ==
    /\ part \in {"registry", "ticks", "sensors", "ring"}
    /\ RegistryInit /\ TicksInit /\ SensorInit /\ RingInit
    /\ part # "sensors" => present = [p \in Path |-> Nothing]

Next ==
    /\ UNCHANGED part
    /\ \/ part = "registry" /\ RegistryNext /\ UNCHANGED <<ticksVars, sensorVars, ringVars>>
       \/ part = "ticks" /\ TicksNext /\ UNCHANGED <<registryVars, sensorVars, ringVars>>
       \/ part = "sensors" /\ SensorNext /\ UNCHANGED <<registryVars, ticksVars, ringVars>>
       \/ part = "ring" /\ RingNext /\ UNCHANGED <<registryVars, ticksVars, sensorVars>>

Spec == Init /\ [][Next]_vars

\* What the properties say of scans ends at the first one that was raced.
Unraced == ~raced

\* The types of the four parts.
TypeOK == RegistryTypeOK /\ TicksTypeOK /\ SensorTypeOK /\ RingTypeOK
====
