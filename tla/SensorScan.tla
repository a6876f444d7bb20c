---- MODULE SensorScan ----
(***************************************************************************)
(* The sensors of the telemetry collector: their paths and labels are      *)
(* looked up once and kept, their values are read at every refresh.  The   *)
(* lookup is repeated after a while, and at the refresh after one that     *)
(* missed an input.  Devices come and go meanwhile, and the next device    *)
(* may get the path of the last one.                                       *)
(*                                                                         *)
(* Time is counted in refreshes: samples within the thermal interval       *)
(* return what the last refresh found.                                     *)
(***************************************************************************)
EXTENDS Naturals

CONSTANTS
    Path,       \* input files, of thermal zones, chips and fans
    Device,     \* what may be behind a path
    Nothing,    \* no file
    Rescan      \* _sensor_rescan_ns, in refreshes

ASSUME SensorAssumption ==
    /\ Nothing \notin Device
    /\ Rescan \in Nat \ {0}

VARIABLES
    present,    \* the device behind each path
    sources,    \* _temperature_sources, _fan_sources: the device it was found for
    found,      \* refreshes since the lookup, _sensors_scanned_ns
    missing,    \* _rescan_sensors
    shown,      \* _thermal_cache, _fan_cache: of each path the label and the
                \* device whose value it carries
    steady      \* history: refreshes since a device came or went

sensorVars == <<present, sources, found, missing, shown, steady>>

Never == Rescan     \* an age at which a lookup is due
NotShown == [label |-> Nothing, device |-> Nothing]

SensorTypeOK ==
    /\ present \in [Path -> Device \cup {Nothing}]
    /\ sources \in [Path -> Device \cup {Nothing}]
    /\ found \in 0..Rescan
    /\ missing \in BOOLEAN
    /\ shown \in [Path -> [label : Device \cup {Nothing}, device : Device \cup {Nothing}]]
    /\ steady \in 0..(Rescan + 1)

SensorInit ==
    /\ present \in [Path -> Device \cup {Nothing}]
    /\ sources = [p \in Path |-> Nothing]
    /\ found = Never
    /\ missing = FALSE
    /\ shown = [p \in Path |-> NotShown]
    /\ steady = 0

Change(p, d) ==
    /\ d # present[p]
    /\ present' = [present EXCEPT ![p] = d]
    /\ steady' = 0
    /\ UNCHANGED <<sources, found, missing, shown>>

Due == missing \/ found = Rescan

\* _discover_sensors(): only inputs that exist become sources.
Lookup == IF Due THEN present ELSE sources

\* Mutant: An input that is gone is passed over in silence.
MissedNothing == FALSE
Missed == \E p \in Path : Lookup[p] # Nothing /\ present[p] = Nothing

\* _thermal(): the values of some inputs that exist make no sense, and are left
\* out without further notice.
Refresh(odd) ==
    /\ sources' = Lookup
    /\ found' = IF Due THEN 1 ELSE found + 1
    /\ missing' = Missed
    /\ shown' = [p \in Path |->
            IF Lookup[p] = Nothing \/ present[p] = Nothing \/ p \in odd THEN NotShown
            ELSE [label |-> Lookup[p], device |-> present[p]]]
    /\ steady' = IF steady <= Rescan THEN steady + 1 ELSE steady
    /\ UNCHANGED present

SensorNext ==
    \/ \E p \in Path, d \in Device \cup {Nothing} : Change(p, d)
    \/ \E odd \in SUBSET Path : Refresh(odd)

SensorSpec == SensorInit /\ [][SensorNext]_sensorVars

----
\* A removed sensor is gone from the sources at the second refresh after and
\* forces no lookup again; whatever came or went instead is known, under its own
\* name, when the lookup falls due.
SensorsSettle ==
    /\ steady >= 2 =>
        ~missing /\ \A p \in Path : sources[p] # Nothing => present[p] # Nothing
    /\ steady > Rescan =>
        sources = present /\ \A p \in Path : shown[p].label = shown[p].device
====
