---- MODULE MCHostTools ----
(***************************************************************************)
(* The host tools, for TLC: the snapshot cache, the bounded commands of    *)
(* the probes, the capture of the hardware, the verdicts of the sizer, and *)
(* the measurement intake with what it reads and the bundle it writes.     *)
(* They share no state, so each behaviour exercises one of them.           *)
(***************************************************************************)
EXTENDS SnapshotCache, BoundedProbe, HardwareProbe, SizerVerdict, IntakeBundle, IntakeInputs, TLC

VARIABLE part   \* the one that is exercised

vars == <<part, cacheVars, intakeVars, probeVars, inputVars, sizerVars, hardwareVars>>

\* Memory under no limit, one, and one above a smaller one; no device, one, and
\* two; disk for some of a job, and for all of it.
Sized(ram, levels, hidden, gpus, free, masked) ==
    [ram |-> ram, levels |-> levels, hidden |-> hidden, gpus |-> gpus, disk |-> free,
     masked |-> masked]
HostsInMind ==
    {Sized(ram, levels, FALSE, gpus, free, FALSE) :
        ram \in {5, 9}, levels \in {<<>>, <<6>>, <<NoLimit, 4>>},
        gpus \in {<<>>, 0 :> 3, (0 :> 2) @@ (1 :> 6)}, free \in {8, 20}}
    \cup {Sized(9, <<>>, FALSE, 0 :> 6, 20, TRUE), Sized(9, <<>>, TRUE, 0 :> 6, 20, FALSE),
          Sized(9, <<Unknown, 4>>, FALSE, <<>>, 20, FALSE), Sized(Unknown, <<4>>, FALSE, <<>>, 20, FALSE),
          Sized(9, <<>>, FALSE, 0 :> 6, Unknown, FALSE)}
SizesInMind ==
    [answer |-> [train |-> 4, infer |-> 2, bytes |-> 1, adapter |-> 1, staging |-> 2],
     rank |-> [train |-> 3, infer |-> 1, bytes |-> 1, adapter |-> 0, staging |-> 2]]
PeaksInMind == [ram : {Unknown, 0, 2, 6}, vram : {Unknown, 2}]

Init ==
    /\ part \in {"cache", "bundle", "probe", "inputs", "sizer", "hardware"}
    /\ CacheInit /\ IntakeInit /\ ProbeInit /\ InputsInit /\ SizerInit /\ HardwareInit
    /\ part # "cache" => cache = 0
    /\ part # "sizer" => host = Sized(9, <<>>, TRUE, 0 :> 6, 20, FALSE)
    /\ part # "hardware" => section = "host"

Next ==
    /\ UNCHANGED part
    /\ \/ /\ part = "cache" /\ CacheNext
          /\ UNCHANGED <<intakeVars, probeVars, inputVars, sizerVars, hardwareVars>>
       \/ /\ part = "bundle" /\ IntakeNext
          /\ UNCHANGED <<cacheVars, probeVars, inputVars, sizerVars, hardwareVars>>
       \/ /\ part = "probe" /\ ProbeNext
          /\ UNCHANGED <<cacheVars, intakeVars, inputVars, sizerVars, hardwareVars>>
       \/ /\ part = "inputs" /\ InputsNext
          /\ UNCHANGED <<cacheVars, intakeVars, probeVars, sizerVars, hardwareVars>>
       \/ /\ part = "sizer" /\ SizerNext
          /\ UNCHANGED <<cacheVars, intakeVars, probeVars, inputVars, hardwareVars>>
       \/ /\ part = "hardware" /\ HardwareNext
          /\ UNCHANGED <<cacheVars, intakeVars, probeVars, inputVars, sizerVars>>

Spec == Init /\ [][Next]_vars

Symmetry == Permutations(Proc) \cup Permutations(Intake)

\* The types of the parts.
TypeOK ==
    /\ CacheTypeOK /\ IntakeTypeOK /\ ProbeTypeOK /\ InputsTypeOK
    /\ SizerTypeOK /\ HardwareTypeOK
====
