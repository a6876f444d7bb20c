---- MODULE SizerVerdict ----
(***************************************************************************)
(* plebian-model-sizer: what the host has left is observed, budgets are    *)
(* what remains of it after a reserve, and a recommendation compares them  *)
(* with what a job needs: document models that are trained and served, a   *)
(* speech, vision, audio or image model with a measured profile, or a chat *)
(* model.  The module then runs the job, for the verdict to be judged by.  *)
(*                                                                         *)
(* Whatever the observation could not read is taken to be used up, and a   *)
(* model that was not measured as it is run to need more than there is.    *)
(* A host is taken to keep what was observed for as long as the snapshot   *)
(* is fresh, and nothing of it after that; the code claims no more.        *)
(***************************************************************************)
EXTENDS Integers, Sequences, FiniteSets, FiniteSetsExt, SequencesExt, TLC

CONSTANTS
    Unknown,    \* what could not be read or was not measured, and no row
    NoLimit,    \* a limit of "max"
    Hosts,      \* the hosts, each a record as Observed reads it
    Size,       \* of each task, the sizes that are estimated from its checkpoint
    Peaks,      \* the measured peaks of a profile, with Unknown where there is none
    Unmeasured, \* what a model uses that is not run as it was measured
    ChatSizes   \* the bytes of a chat model

\* The values of the code.
Task == {"answer", "rank"}
Backends == {"cpu", "cuda"}
Verdict == {"estimated-fit", "does-not-fit", "unknown", "unsupported"}

\* What is measured of a host and of models is a number or unknown.
Amount == Nat \cup {Unknown}
IsHost(h) ==
    /\ h.ram \in Amount /\ h.disk \in Amount
    /\ h.levels \in Seq(Amount \cup {NoLimit})
    /\ DOMAIN h.gpus \subseteq Nat /\ IsFiniteSet(DOMAIN h.gpus)
    /\ h.gpus \in [DOMAIN h.gpus -> Nat]
    /\ h.hidden \in BOOLEAN /\ h.masked \in BOOLEAN
Sizes == [train : Nat, infer : Nat, bytes : Nat, adapter : Nat, staging : Nat]

ASSUME SizerAssumption ==
    /\ Unknown \notin Nat /\ NoLimit \notin Amount
    /\ \A h \in Hosts : IsHost(h)
    /\ Size \in [Task -> Sizes]
    /\ Peaks \subseteq [ram : Amount, vram : Amount]
    /\ Unmeasured \in Nat /\ ChatSizes \subseteq Nat

VARIABLES
    host,       \* what can be read of the host
    snapshot,   \* what collect() has observed, or Unknown
    age,        \* of the snapshot: "fresh", or "stale" or from the future
    report,     \* a row of the recommendation, or Unknown
    loaded,     \* the parts of the job that are in memory
    done,       \* those that have run
    overran     \* history: more was used than the budget had

sizerVars == <<host, snapshot, age, report, loaded, done, overran>>

\* What is kept back for the rest of the host.
Reserve == [ram |-> 2, vram |-> 1, disk |-> 1]
MeasuredReserve == [ram |-> 1, vram |-> 1, disk |-> 1]

SizerTypeOK ==
    /\ host \in Hosts
    /\ age \in {"fresh", "stale", "future"}
    /\ report # Unknown => report.verdict \in Verdict /\ loaded \cup done \subseteq report.parts
    /\ loaded \cap done = {} /\ overran \in BOOLEAN

SizerInit ==
    /\ host \in Hosts
    /\ snapshot = Unknown /\ age = "fresh" /\ report = Unknown
    /\ loaded = {} /\ done = {} /\ overran = FALSE

----
(* The observation. *)

\* cgroup_headroom(): what is left below every visible limit up to the root;
\* nothing is known when one cannot be read or more may be hidden above.
Limits(h) == Range(h.levels) \ {NoLimit}
Headroom(h) ==
    IF h.hidden \/ Unknown \in Range(h.levels) THEN Unknown
    ELSE IF Limits(h) = {} THEN NoLimit ELSE Min(Limits(h))

\* collect(): a single device that no setting renumbers has a mapping.
Observed(h) ==
    [ram |-> IF Unknown \in {Headroom(h), h.ram} THEN Unknown
             ELSE IF Headroom(h) = NoLimit THEN h.ram ELSE Min({h.ram, Headroom(h)}),
     gpus |-> h.gpus, disk |-> h.disk,
     mapped |-> DOMAIN h.gpus = {0} /\ ~h.masked]

Collect ==
    /\ snapshot = Unknown
    /\ snapshot' = Observed(host)
    /\ UNCHANGED <<host, age, report, loaded, done, overran>>

\* The snapshot gets old, or the clock is set back.
Wait ==
    /\ snapshot # Unknown /\ report = Unknown /\ age = "fresh"
    /\ age' \in {"stale", "future"}
    /\ UNCHANGED <<host, snapshot, report, loaded, done, overran>>

----
(* budgets() and assess(). *)

\* The device with the most free memory, the first of them.
Chosen(gpu) ==
    LET devices == {d \in DOMAIN snapshot.gpus : gpu \in {Unknown, d}}
        best == {d \in devices : \A e \in devices : snapshot.gpus[d] >= snapshot.gpus[e]}
    IN  IF devices = {} THEN Unknown ELSE Min(best)

Left(available, reserve) ==
    IF age = "fresh" /\ available # Unknown THEN Max({0, available - reserve}) ELSE Unknown

Budgets(backend, gpu, reserve) ==
    LET device == Chosen(gpu)
        used == IF backend # "auto" THEN backend
                ELSE IF device # Unknown \/ gpu # Unknown THEN "cuda" ELSE "cpu"
    IN  [backend |-> used,
         gpu |-> IF used = "cuda" THEN device ELSE Unknown,
         ram |-> Left(snapshot.ram, reserve.ram),
         vram |-> IF used = "cuda" /\ device # Unknown
                  THEN Left(snapshot.gpus[device], reserve.vram) ELSE Unknown,
         disk |-> Left(snapshot.disk, reserve.disk)]

\* A shortage that is known outweighs what is unknown.
Worst(statuses) ==
    IF "does-not-fit" \in statuses THEN "does-not-fit"
    ELSE IF "unknown" \in statuses THEN "unknown" ELSE "estimated-fit"

Assess(needs, budget) ==
    Worst({IF budget[r] = Unknown THEN "unknown"
           ELSE IF needs[r] <= budget[r] THEN "estimated-fit" ELSE "does-not-fit" : r \in DOMAIN needs})

----
(* The recommendations.  A part of a job says what it uses while loaded. *)

Part(task, phase, ram, vram, gpu) ==
    [task |-> task, phase |-> phase, ram |-> ram, vram |-> vram, gpu |-> gpu]

\* A row, and the job it speaks of: its parts, whether those that serve are
\* served together, the disk of each task and of the documents, and how much
\* may be used.
Row(verdict, parts, co, disk, documents, reserve, share) ==
    [verdict |-> verdict, listed |-> verdict = "estimated-fit", parts |-> parts, co |-> co,
     disk |-> disk, documents |-> documents, reserve |-> reserve, share |-> share]

\* estimate(): the checkpoint is staged in RAM for a GPU, and next to the live
\* tensors without one; it is merged on disk and its adapter saved.
EstimatedRam(task, phase, backend) ==
    IF backend = "cuda" THEN Size[task].staging ELSE Size[task][phase] + Size[task].bytes
EstimatedVram(task, phase, backend) == IF backend = "cuda" THEN Size[task][phase] ELSE 0
EstimatedDisk(task) == 3 * Size[task].bytes + 3 * Size[task].adapter

\* The sum of what a function has.
Total(needs) == FoldFunction(+, 0, needs)

\* What the models of one phase need: they are trained one after the other.
\* Mutant: Of two models that are served together the larger one counts.
LargerOnly(phase, co, needs) == Max(Range(needs))
Combined(phase, co, needs) ==
    IF phase = "infer" /\ co THEN Total(needs) ELSE Max(Range(needs))

\* A model and its phase, on the device of the budget.
DocumentPart(t, phase, budget) ==
    Part(t, phase, EstimatedRam(t, phase, budget.backend),
         EstimatedVram(t, phase, budget.backend), budget.gpu)

\* What assess() is asked for a phase.
DocumentNeeds(selected, phase, co, disk, budget) ==
    LET ram == Combined(phase, co, [p \in selected |-> p.ram])
        vram == Combined(phase, co, [p \in selected |-> p.vram])
    IN  IF budget.backend = "cuda" THEN [ram |-> ram, disk |-> disk, vram |-> vram]
        ELSE [ram |-> ram, disk |-> disk]

\* recommend(), for one candidate of the catalog and documents of some bytes;
\* an estimate that is refused leaves the verdict unknown.
DocumentRow(tasks, phases, backend, gpu, co, documents, refused) ==
    LET budget(p) == Budgets(backend[p], gpu, Reserve)
        selected(p) == {DocumentPart(t, p, budget(p)) : t \in tasks}
        disk == [t \in tasks |-> EstimatedDisk(t)]
        checks == {Assess(DocumentNeeds(selected(p), p, co, Total(disk) + 4 * documents, budget(p)),
                          budget(p)) : p \in phases}
    IN  Row(IF refused THEN "unknown" ELSE Worst(checks), UNION {selected(p) : p \in phases},
            co, disk, 4 * documents, Reserve, 1)

\* A measured peak with the margin of its profile, rounded up.
WithMargin(peak) == (peak * 12 + 9) \div 10

\* recommend_voice() and recommend_runtime().  A profile is used when it is of
\* this model, task, backend and architecture; one that is scoped to a device
\* also needs that device, in a mode that was measured.
AsMeasured(scoped, matches) == matches /\ (scoped => snapshot.mapped)

MeasuredRow(kind, backend, scoped, matches, peak, supported) ==
    LET budget == Budgets(backend, IF scoped THEN 0 ELSE Unknown, MeasuredReserve)
        resources == IF backend = "cuda" THEN {"ram", "vram"} ELSE {"ram"}
        known == {r \in resources : peak[r] # Unknown}
        usable == known # {} /\ AsMeasured(scoped, matches) /\ (kind = "voice" => known = resources)
        assessed == IF usable THEN Assess([r \in known |-> WithMargin(peak[r])], budget) ELSE "unknown"
        verdict == IF kind = "voice" THEN (IF supported THEN assessed ELSE "unsupported")
                   ELSE IF known # resources /\ assessed = "estimated-fit" THEN "unknown"
                   ELSE IF backend = "cuda" /\ DOMAIN snapshot.gpus = {} THEN "unknown"
                   ELSE assessed
        \* What it is measured to use, where it is run as it was measured.
        use(r) == IF r \notin resources THEN 0
                  ELSE IF matches /\ peak[r] # Unknown /\ (scoped => DOMAIN host.gpus = {0} /\ ~host.masked)
                  THEN WithMargin(peak[r]) ELSE Unmeasured
    IN  Row(verdict, {Part(kind, "infer", use("ram"), use("vram"), budget.gpu)}, FALSE,
            <<>>, 0, MeasuredReserve, 1)

\* recommend_chat(): at most half of what is left goes to the chat model, and
\* one that is not installed or not supported is not listed.
ChatRow(bytes, available) ==
    LET budget == Budgets("cpu", Unknown, Reserve)
        limit == IF budget.ram = Unknown THEN Unknown ELSE budget.ram \div 2
        required == 2 * bytes + 1
        verdict == IF limit = Unknown THEN "unknown"
                   ELSE IF required <= limit THEN "estimated-fit" ELSE "does-not-fit"
    IN  [Row(verdict, {Part("chat", "infer", required, 0, Unknown)}, FALSE, <<>>, 0, Reserve, 2)
         EXCEPT !.listed = @ /\ available]

\* The workloads: by default both tasks are trained and served.
Recommend ==
    /\ snapshot # Unknown /\ report = Unknown
    /\ \/ \E tasks \in (SUBSET Task) \ {{}}, phases \in (SUBSET {"train", "infer"}) \ {{}},
             serving \in {"auto", "cuda"}, gpu \in {Unknown, 1}, co, refused \in BOOLEAN,
             documents \in {0, 1} :
            LET backend == [train |-> IF serving = "auto" THEN "auto" ELSE "cpu", infer |-> serving]
            IN  report' = DocumentRow(tasks, phases, backend, gpu, co, documents, refused)
       \/ \E kind \in {"voice", "runtime"}, backend \in Backends, scoped, matches, supported \in BOOLEAN,
             peak \in Peaks :
            /\ scoped => kind = "runtime" /\ backend = "cuda"
            /\ report' = MeasuredRow(kind, backend, scoped, matches, peak, supported)
       \/ \E bytes \in ChatSizes, available \in BOOLEAN : report' = ChatRow(bytes, available)
    /\ UNCHANGED <<host, snapshot, age, loaded, done, overran>>

----
(* The job: what the verdict is about. *)

\* What there is to use: nothing where it could not be read.
Sure(value) == IF age = "fresh" /\ value # Unknown THEN value ELSE 0
SureRam ==
    IF host.hidden \/ Unknown \in Range(host.levels) THEN 0
    ELSE Min({Sure(host.ram)} \cup {Sure(l) : l \in Limits(host)})
SureVram(gpu) == IF gpu \in DOMAIN host.gpus THEN Sure(host.gpus[gpu]) ELSE 0

\* More is used than the share of what is left beside the reserve: who uses
\* nothing of a resource does not mind how little is left of it.
Exceeds(row, used, reserve, sure) == used > 0 /\ row.share * used + reserve > sure

\* What is loaded is in memory, and on its device; the disk of a task that was
\* started stays in use.
MemoryOverrun(row, parts) ==
    \/ Exceeds(row, Total([p \in parts |-> p.ram]), row.reserve.ram, SureRam)
    \/ \E p \in parts : LET beside == {q \in parts : q.gpu = p.gpu}
                       IN  Exceeds(row, Total([q \in beside |-> q.vram]), row.reserve.vram, SureVram(p.gpu))
DiskOverrun(row, started) ==
    LET tasks == {t \in DOMAIN row.disk : \E p \in started : p.task = t}
    IN  Exceeds(row, row.documents + Total([t \in tasks |-> row.disk[t]]), row.reserve.disk, Sure(host.disk))
Overruns(parts, started) == MemoryOverrun(report, parts) \/ DiskOverrun(report, started)

\* A part is started: the models are trained one by one before any is served.
Start(p) ==
    /\ report # Unknown /\ p \in report.parts \ (loaded \cup done)
    /\ IF p.phase = "train" THEN loaded = {}
       ELSE /\ \A q \in report.parts \ done : q.phase = "infer"
            /\ loaded # {} => report.co
    /\ loaded' = loaded \cup {p}
    /\ overran' = (overran \/ Overruns(loaded', done \cup loaded'))
    /\ UNCHANGED <<host, snapshot, age, report, done>>

\* What is served together stays until all of it is there.
Finish(p) ==
    /\ p \in loaded
    /\ report.co => \A q \in report.parts : q.phase = p.phase => q \in loaded \cup done \/ p.phase = "train"
    /\ loaded' = loaded \ {p} /\ done' = done \cup {p}
    /\ UNCHANGED <<host, snapshot, age, report, overran>>

SizerNext ==
    \/ Collect \/ Wait \/ Recommend
    \/ report # Unknown /\ \E p \in report.parts : Start(p) \/ Finish(p)

SizerSpec == SizerInit /\ [][SizerNext]_sizerVars

----
\* A job whose model was listed never uses more than the host was sure to have
\* left beside the reserve: of memory within every limit of its group, of the
\* memory of the device named, and of disk, in whatever order it is run.
FitIsEnough == report # Unknown => (report.listed => ~overran)

\* A job that was said not to fit does not fit: run to its end, it has used
\* more than that.
RefusalIsJustified ==
    report # Unknown => (report.verdict = "does-not-fit" /\ done = report.parts => overran)

\* Both at once: a verdict that takes a side is right.
VerdictIsJust == FitIsEnough /\ RefusalIsJustified
====
