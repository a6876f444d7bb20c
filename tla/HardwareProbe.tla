---- MODULE HardwareProbe ----
(***************************************************************************)
(* plebian-hardware: one capture of the hardware, as collect() makes it.   *)
(* The probes list the entries of a kernel directory and read several      *)
(* files of each; any read may fail, and a device may be unplugged between *)
(* two of them.  Every fact of the document is either what was read or an  *)
(* explicit unknown, with a marker by which a reader can find it.          *)
(*                                                                         *)
(* The sections of a document share nothing, so a behaviour collects one.  *)
(* Facts that are copied from a single file stand for all of their kind:   *)
(* the widths and speeds of a PCIe link, the energies of a battery, the    *)
(* fields of the memory and of the caches.                                 *)
(***************************************************************************)
EXTENDS Integers, Sequences, FiniteSets, FiniteSetsExt, SequencesExt

CONSTANTS
    None,       \* unknown: null, or the word where a word is expected
    Devices     \* how many entries the directory of a section lists

\* The words that are read and written in place of an unknown.
Words ==
    {"wireless", "ethernet", "other", "up", "down", "testing", "pci", "usb", "platform", "virtual",
     "mains", "battery", "nvidia", "amd", "available"}

ASSUME UnknownAssumption ==
    /\ None \notin BOOLEAN /\ None \notin Int /\ None \notin Words
    /\ Devices \in Nat

VARIABLES
    section,    \* the section that is collected
    visible,    \* whether the directory of the section is there to be listed
    tool,       \* gpu: how the tools of the backends end
    scanned,    \* how many entries have been looked at
    truth,      \* what they are
    here,       \* those that have stayed plugged in
    rows,       \* the devices written to the document
    origin,     \* history: the entry that a row is of
    readings,   \* values that only count in an aggregate
    doubt,      \* whether an entry was met that could not be read
    document    \* the aggregates and markers of the section, once it is done

hardwareVars == <<section, visible, tool, scanned, truth, here, rows, origin, readings,
                  doubt, document>>

Section == {"network", "power", "gpu", "thermal", "host"}
\* "none" is not installed, "stuck" was given up, "failed" exits with an error.
Tool == {"none", "stuck", "failed", "works"}

HardwareTypeOK ==
    /\ section \in Section /\ visible \in BOOLEAN /\ tool \in Tool
    /\ scanned \in 0..Devices /\ DOMAIN truth = 1..scanned /\ here \subseteq 1..scanned
    /\ Len(rows) = Len(origin) /\ Range(origin) \subseteq 1..scanned
    /\ Len(readings) <= scanned /\ doubt \in BOOLEAN

HardwareInit ==
    /\ section \in Section
    /\ visible \in BOOLEAN /\ (section = "host" => visible)
    /\ tool \in (IF section = "gpu" THEN Tool ELSE {"none"})
    /\ scanned = 0 /\ truth = <<>> /\ here = {}
    /\ rows = <<>> /\ origin = <<>> /\ readings = <<>> /\ doubt = FALSE /\ document = None

\* A read that is the nth of an entry that answers only the first few.
Answer(value, n, answers) == IF n <= answers THEN {value, None} ELSE {None}

\* The next entry is e; it is still there after its last read if all was answered.
Entry(e, stays) ==
    /\ visible /\ document = None /\ scanned < Devices
    /\ scanned' = scanned + 1
    /\ truth' = Append(truth, e)
    /\ here' = IF stays THEN here \cup {scanned + 1} ELSE here

Written(row) ==
    /\ rows' = Append(rows, row)
    /\ origin' = Append(origin, scanned + 1)

\* Mutant: A row is numbered by its place in the directory.
IndexInDirectory == scanned
\* The number of the next row.
NextIndex == Len(rows)

----
(* Network interfaces: what they are, whether they are up, and their bus. *)

Interfaces ==
    {i \in [kind : {"wireless", "ethernet", "other"}, state : {"up", "down", "testing"},
            bus : {"pci", "platform", "virtual"}] :
        /\ i.kind = "other" => i.bus = "virtual"
        /\ i.kind = "wireless" => i.bus = "pci"}

TypeOf(number, wirelessSeen) ==
    IF wirelessSeen THEN "wireless"
    ELSE IF number = None THEN None ELSE IF number = 1 THEN "ethernet" ELSE "other"
Online(state) == IF state = "up" THEN TRUE ELSE IF state = "down" THEN FALSE ELSE None
BusOf(subsystem, deviceSeen) ==
    IF subsystem \in {"pci", "usb"} THEN subsystem
    ELSE IF ~deviceSeen THEN "virtual" ELSE IF subsystem # None THEN "other" ELSE None

\* One interface of _network(): a wireless one has the number of an ethernet,
\* and an entry that is gone looks like one without a device.
ScanInterface ==
    /\ section = "network"
    /\ \E e \in Interfaces, answers \in 0..3 :
       \E number \in Answer(IF e.kind = "other" THEN 24 ELSE 1, 1, answers),
          state \in Answer(e.state, 2, answers),
          subsystem \in (IF e.bus = "virtual" THEN {None} ELSE Answer(e.bus, 3, answers)) :
            /\ Entry(e, answers = 3)
            /\ Written([index |-> NextIndex,
                        type |-> TypeOf(number, e.kind = "wireless" /\ answers >= 2),
                        online |-> Online(state),
                        bus |-> BusOf(subsystem, e.bus # "virtual" /\ answers = 3)])
    /\ UNCHANGED <<section, visible, tool, readings, doubt, document>>

\* Mutant: An interface that is not known to be up counts as down.
OfflineUnlessUp(states) == IF TRUE \in states THEN FALSE ELSE IF states # {} \/ visible THEN TRUE ELSE None
Offline(states) ==
    IF TRUE \in states THEN FALSE
    ELSE IF states = {FALSE} \/ (states = {} /\ visible) THEN TRUE ELSE None

----
(* Power supplies. *)

Supplies == [kind : {"mains", "battery"}, online : BOOLEAN, percent : {20, 80}]

\* One supply of _power(): without its type nothing is told of it.
ScanSupply ==
    /\ section = "power"
    /\ \E e \in Supplies, answers \in 0..2 :
       \E kind \in Answer(e.kind, 1, answers),
          value \in Answer(IF e.kind = "mains" THEN e.online ELSE e.percent, 2, answers) :
            /\ Entry(e, answers = 2)
            /\ doubt' = (doubt \/ kind = None)
            /\ IF kind = "battery" THEN Written([index |-> NextIndex, percent |-> value])
               ELSE UNCHANGED <<rows, origin>>
            /\ readings' = IF kind = "mains" /\ value # None THEN Append(readings, value) ELSE readings
    /\ UNCHANGED <<section, visible, tool, document>>

Power ==
    LET percents == {rows[i].percent : i \in DOMAIN rows}
    IN  [ac_online |-> IF readings = <<>> THEN None ELSE TRUE \in Range(readings),
         battery_present |-> IF rows # <<>> THEN TRUE ELSE IF visible /\ ~doubt THEN FALSE ELSE None,
         battery_percent |-> IF percents = {} \/ None \in percents THEN None ELSE Min(percents)]

----
(* Graphics devices. *)

\* A card is a name of a device; the tool of CUDA lists the devices it serves,
\* and may list one twice.
Cards == [device : {1, 2}, vendor : {"nvidia", "amd"}, served : BOOLEAN, vram : {4}]

Backend(status, evidence) == [status |-> status, evidence |-> evidence]

\* _command_probe(), as far as it tells what is unknown.
Unanswered ==
    CASE tool = "none" -> Backend(None, "command-unavailable")
      [] tool = "stuck" -> Backend(None, "unknown")
      [] tool = "failed" -> Backend(None, "executable-probe")
      [] OTHER -> Backend(None, "contradictory")

\* _nvidia_probe(): the device itself, listed once.
Cuda(listed) ==
    IF tool = "works" /\ listed = 1 THEN Backend("available", "executable-probe") ELSE Unanswered

\* One card of _gpu_inventory(); a tool that is not bound to a device proves
\* nothing of this one.
ScanCard ==
    /\ section = "gpu"
    /\ \E e \in Cards, answers \in 0..2 :
       \E vendor \in Answer(e.vendor, 1, answers),
          listed \in (IF e.served THEN {1, 2} ELSE {0}), vram \in {e.vram, None} :
            LET own == [vendor |-> vendor, listed |-> IF answers = 2 THEN listed ELSE 0]
                backends == IF vendor = "nvidia" THEN [cuda |-> Cuda(own.listed), vulkan |-> Unanswered]
                            ELSE IF vendor = "amd" THEN [rocm |-> Unanswered, vulkan |-> Unanswered]
                            ELSE [vulkan |-> Unanswered]
                bound == vendor = "nvidia" /\ backends.cuda.status = "available"
            IN  /\ Entry(e, answers = 2)
                /\ IF answers > 0 /\ \A i \in DOMAIN origin : truth[origin[i]].device # e.device
                   THEN Written([index |-> NextIndex, vendor |-> vendor,
                                 vram |-> IF bound THEN vram ELSE None, backends |-> backends])
                   ELSE UNCHANGED <<rows, origin>>
    /\ UNCHANGED <<section, visible, tool, readings, doubt, document>>

----
(* Sensors: the thermal zones, the inputs of hwmon where no zone has answered, *)
(* and the fans.                                                               *)

Rank == [zone |-> 1, input |-> 2, fan |-> 3]
Sensors == [kind : {"zone", "input", "fan"}, value : {40, 60}]

Readings(kinds) == {n \in DOMAIN readings : readings[n].kind \in kinds}

\* One sensor of _thermal().
ScanSensor ==
    /\ section = "thermal"
    /\ \E e \in Sensors, answers \in {0, 1} : \E value \in Answer(e.value, 1, answers) :
        /\ \A i \in DOMAIN truth : Rank[truth[i].kind] <= Rank[e.kind]
        /\ Entry(e, answers = 1)
        /\ LET skipped == e.kind = "input" /\ Readings({"zone"}) # {}
           IN  /\ doubt' = (doubt \/ (e.kind # "fan" /\ ~skipped))
               /\ readings' = IF skipped \/ value = None THEN readings
                              ELSE Append(readings, [kind |-> e.kind, value |-> value])
    /\ UNCHANGED <<section, visible, tool, rows, origin, document>>

Counted(kinds) == Cardinality(Readings(kinds))

Thermal ==
    LET temperatures == {readings[n].value : n \in Readings({"zone", "input"})}
    IN  [sensor_count |-> IF temperatures # {} THEN Counted({"zone", "input"})
                          ELSE IF visible /\ ~doubt THEN 0 ELSE None,
         maximum_celsius |-> IF temperatures = {} THEN None ELSE Max(temperatures),
         fan_count |-> IF Readings({"fan"}) = {} THEN None ELSE Counted({"fan"})]

----
(* The host: facts of one file each, and the answers of a tool. *)

Unlimited == 99   \* "max"

\* _memory() and _cpu_quota(): a limit that limits nothing is none.
LimitFound(limit, total) ==
    IF limit = None THEN [limit_status |-> None, limit |-> None]
    ELSE IF limit = Unlimited \/ (total # None /\ limit >= total) THEN [limit_status |-> "unlimited", limit |-> None]
    ELSE [limit_status |-> "observed", limit |-> limit]

\* _systemd_virtualization(): whether the tool says so, for each question.
Virtualization(container, machine) ==
    IF container = "yes" THEN "container"
    ELSE IF container # "no" THEN None
    ELSE IF machine = "yes" THEN "virtual-machine" ELSE IF machine = "no" THEN "none" ELSE None

\* smt: more processors are online than there are cores.
Smt(online, cores) ==
    IF None \in {online, cores} THEN None
    ELSE IF online > cores THEN "enabled" ELSE IF online = cores THEN "disabled" ELSE None

Host ==
    {[total |-> total, limit_status |-> LimitFound(limit, total).limit_status, smt |-> Smt(online, cores),
      virtualization |-> Virtualization(container, machine)] :
        total \in {8, None}, limit \in {4, 8, Unlimited, None}, online, cores \in {1, 2, None},
        container, machine \in {"yes", "no", "failed"}}

----
(* collect(), _required_unknown_markers() and the validator. *)

Aggregates ==
    CASE section = "network" -> {[offline |-> Offline({rows[i].online : i \in DOMAIN rows})]}
      [] section = "power" -> {Power}
      [] section = "gpu" -> {[inventory |-> IF rows = <<>> THEN None ELSE Len(rows)]}
      [] section = "thermal" -> {Thermal}
      [] section = "host" -> Host

\* The percentage of batteries that are not there is not missing.
Missing(facts, names) ==
    {f \in names : /\ facts[f] = None
                   /\ f = "battery_percent" => facts.battery_present = TRUE}

\* A marker gives the number of the device and the name of the fact.
Whole == -1   \* in place of a number, for a fact of the whole section

Gaps(row, fields) == {<<row.index, f>> : f \in {g \in fields : row[g] = None}}
Untested(row) ==
    {<<row.index, b>> : b \in {c \in DOMAIN row.backends : row.backends[c].status = None}}
GpuRows == IF section = "gpu" THEN Range(rows) ELSE {}

\* The facts that collect() and _required_unknown_markers() name: of a section, and
\* of each device in it.
MarkedFacts ==
    [network |-> {"offline"}, power |-> {"ac_online", "battery_present", "battery_percent"},
     gpu |-> {"inventory"}, thermal |-> {"sensor_count", "maximum_celsius", "fan_count"},
     host |-> {"total", "limit_status", "smt", "virtualization"}]
MarkedFields == [network |-> {"online", "type", "bus"}, power |-> {"percent"}, gpu |-> {"vendor", "vram"},
                 thermal |-> {}, host |-> {}]

Unresolved(facts) ==
    {<<Whole, f>> : f \in Missing(facts, MarkedFacts[section])}
    \cup (UNION {Gaps(row, MarkedFields[section]) : row \in Range(rows)})
    \cup (UNION {Untested(row) : row \in GpuRows})

\* collect(): the document is complete.
Collected ==
    /\ document = None
    /\ \E facts \in Aggregates : document' = [facts |-> facts, unknowns |-> Unresolved(facts)]
    /\ UNCHANGED <<section, visible, tool, scanned, truth, here, rows, origin, readings, doubt>>

HardwareNext == ScanInterface \/ ScanSupply \/ ScanCard \/ ScanSensor \/ Collected

HardwareSpec == HardwareInit /\ [][HardwareNext]_hardwareVars

\* required_hardware_unknown_markers(), which has lists of its own: it does not ask
\* for the limit of the memory.
Facts ==
    [network |-> {"offline"}, power |-> {"ac_online", "battery_present", "battery_percent"},
     gpu |-> {"inventory"}, thermal |-> {"sensor_count", "maximum_celsius", "fan_count"},
     host |-> {"total", "smt", "virtualization"}]
Fields == [network |-> {"type", "online", "bus"}, power |-> {"percent"}, gpu |-> {"vendor", "vram"},
           thermal |-> {}, host |-> {}]
Required ==
    {<<Whole, f>> : f \in Missing(document.facts, Facts[section])}
    \cup (UNION {Gaps(row, Fields[section]) : row \in Range(rows)})
    \cup (UNION {Untested(row) : row \in GpuRows})

\* semantic_errors(), of what a probe writes.
Accepted ==
    /\ Required \subseteq document.unknowns
    /\ \A i \in DOMAIN rows : rows[i].index = i - 1
    /\ \A row \in GpuRows : \A b \in DOMAIN row.backends :
          row.backends[b].evidence \in {"command-unavailable", "contradictory", "unknown"}
             => row.backends[b].status = None

----
\* A document that a probe makes is accepted by the validator, and each marker
\* in it names a device of the document, and a fact that is left open there.
CollectedIsAccepted ==
    document # None =>
        /\ Accepted
        /\ \A marker \in document.unknowns :
              marker[1] # Whole => \E row \in Range(rows) :
                  row.index = marker[1] /\ (marker[2] \in DOMAIN row => row[marker[2]] = None)

InterfaceIsTrue(row, e) ==
    /\ row.type \in {None, e.kind}
    /\ row.online \in {None, e.state = "up"}
    /\ row.bus \in {None, IF e.bus = "platform" THEN "other" ELSE e.bus}
NetworkIsTrue(facts) ==
    /\ \A i \in DOMAIN rows : origin[i] \in here => InterfaceIsTrue(rows[i], truth[origin[i]])
    /\ facts.offline = TRUE => \A d \in here : truth[d].state # "up"
    /\ facts.offline = FALSE => \E d \in DOMAIN truth : truth[d].state = "up"
PowerIsTrue(facts) ==
    /\ facts.ac_online = TRUE => \E d \in DOMAIN truth : truth[d].kind = "mains" /\ truth[d].online
    /\ facts.battery_present = FALSE => \A d \in here : truth[d].kind # "battery"
    /\ facts.battery_percent # None => \A d \in Range(origin) : facts.battery_percent <= truth[d].percent
GpuIsTrue ==
    \A i \in DOMAIN rows : \A b \in DOMAIN rows[i].backends :
        rows[i].backends[b].status = "available" => b = "cuda" /\ truth[origin[i]].served
ThermalIsTrue(facts) ==
    /\ facts.sensor_count = 0 => \A d \in here : truth[d].kind = "fan"
    /\ facts.maximum_celsius # None =>
          \E d \in DOMAIN truth : truth[d].kind # "fan" /\ truth[d].value = facts.maximum_celsius

\* What is stated of a device that stayed plugged in is true of it, whatever
\* was unplugged or could not be read meanwhile; a host that is said to be
\* offline, or to have no battery or no sensor, has none that stayed; and a
\* backend is available only on a device that its tool serves.
KnownIsTrue ==
    document # None =>
        /\ section = "network" => NetworkIsTrue(document.facts)
        /\ section = "power" => PowerIsTrue(document.facts)
        /\ section = "gpu" => GpuIsTrue
        /\ section = "thermal" => ThermalIsTrue(document.facts)
====
