# Verification of kilix-system-monitor

TLA+ modules that model the concurrent and crash-prone parts of this repository,
the TLC configurations that check them on small instances, and theorems about
them that the TLA+ proof system checks for every size. Paths are relative to
`src/`; `lease.py` stands for
`components/kilix-device-lease/src/kilix_device_lease/__init__.py`, and
`ring.py`, `client.py`, `daemon.py`, `registry.py`, `collect.py` for the files of
`components/kilix-telemetry/src/kilix_telemetry/`, `state.py`, `probe.py` for those of
`components/plebian-hardware/src/plebian_hardware/`, `resources.py`, `estimate.py`,
`runtime.py`, `voice.py`, `chat.py` for those of
`components/plebian-model-sizer/src/plebian_model_sizer/`, and `profile.py` for
`tools/measure/profile.py`. `PROJECT.json` maps every definition to the lines it
models and lists the hazards, runs and theorems.

## 1. The system

Four components and their tools, each a separate Python package. Nothing here is
a server: the parts meet in files, file locks and inherited descriptors.

| Part | State | Operations | Hard behaviour |
|---|---|---|---|
| **Device lease**, queue and grant (`lease.py`) | `state.json` (`next`, `last`, `active`, `queue`), one `.ticket` file with a flock for each waiting request, `accelerator.lock` whose flock is the grant | `acquire`, `Lease.check`, `guard_fd`, `release`; every poll prunes, sweeps and tries for the grant | providers and requesters die at any step; descriptors are inherited by jobs and by forks; any save can raise; deadlines pass between any two steps |
| **Device lease**, namespace (`lease.py` 351-560) | the anchor file and the identity in it, the directory, a sibling under construction | open, create, adopt, record, validate | simultaneous first requesters, a creator that dies at any step, directories removed or replaced, inode numbers used again |
| **Telemetry ring** (`ring.py`) | an mmap file: header, slots with CRC and a sequence at both ends | `RingWriter` start and `publish`; `RingReader` open, `latest`, `history` | the writer dies between two stores to a mapping others have; a new daemon starts in the same file or in a new one under the same name |
| **Telemetry daemon and client** (`daemon.py`, `client.py`) | `telemetry-v1.lock`, what each client remembers of the writer | `run_daemon`, `ensure_running`, `snapshot`, `pane` | clients race to start the one daemon; the liveness probe takes the lock it looks at; remembered answers |
| **Pane registry** (`registry.py`, `client.py` 241-303) | `telemetry-v1-panes.json`: owner, roots, age | `update` in place under a flock, `roots` | a client that dies between write and truncate; the bound on owners; ages |
| **Collector** (`collect.py`, `model.py`) | previous ticks, process, PSS and pane caches | `sample` | process trees that fork, exit, are reaped or replaced between two scans |
| **Snapshot cache** (`state.py`) | `snapshot-v1.json` in a private directory | `refresh` (write, fsync, rename, fsync), `doctor` (read) | writers that run at the same time without a lock, failing calls, kills, power losses, a damaged file in the way |
| **Bounded commands** (`probe.py` 380-433) | a child process that leads a group of its own and a pipe | `_run_bounded` | a helper that outlives its leader, closes the pipe, or leaves the group; a deadline and a limit that pass, and an interrupt that comes, at any moment |
| **Probes** (`probe.py`) | none but the document | `collect` | any file may be unreadable, any device unplugged between two reads, any tool absent, stuck or failing; unknown must stay unknown |
| **plebian-model-sizer** | none but the observed snapshot | observation, budgets, verdicts on documents, voice, runtime and chat models | unknown values, stale snapshots, several tasks and phases combined into one verdict |
| **Measurement intake** (`profile.py`) | a bundle directory of two files | read four inputs, build, commit by a rename, verify, take back | inputs rewritten while they are read; failures after the commit; interrupts; directories that are moved |
| other **tools** | none | validators, release gates | none: comparisons of fixed files |
| contracts, integration, evidence | schemas, fixtures, recorded observations | none | none: data |

How they interact. Providers import the lease library: their processes share one
namespace directory, and meet nowhere else. A provider passes `guard_fd` to the
supervisor of its job, so the kernel keeps the grant's flock alive as long as any
copy of the descriptor. Telemetry clients import the telemetry library, read the
ring that one daemon per user writes, start that daemon when the lock says that
there is none, and tell it through the pane registry which process trees matter.
The sizer observes the host for itself and borrows the memory probe of
plebian-hardware; the intake reads a hardware snapshot as one of its inputs. The
lease and the telemetry know nothing of each other.

What makes each part correct:

- *lease*: one engine at a time, whatever dies or outlives what; a grant moves
  only after the last one was acknowledged; a queued request keeps its place; the
  rotation is fair; nobody waits past the deadline; no crash makes the registry
  unreadable.
- *namespace*: everybody works in the one directory that the anchor records, a
  refusal has a cause, and a recorded namespace is never made anew.
- *ring*: a reader gets a record that was published whole, the newest, and a
  history of one daemon.
- *daemon and client*: one writer; clients that ask get one in the end; an old
  sample or a lock that is not a daemon's is not taken for a running daemon.
- *registry*: a pane that is polled is seen by the sampler, whoever else updates.
- *collector*: a tree's CPU time is neither counted twice nor lost.
- *sensors*: what is shown under a name is that sensor's.
- *cache and bundle*: what is under the final name is whole, also after a power
  loss; what was reported stays; what was refused leaves nothing.
- *bounded command*: it ends with the whole answer, or without the command.
- *probes*: a fact that is stated is true, and what is open is marked.
- *verdicts*: a model that is listed fits beside the reserve, and one that is said
  not to fit does not.

## 2. Modules

| Module | Models |
|---|---|
| `LeaseOrder` | `_Registry.order`: the rotation, as the loop of the code (a recursive function) and as a declarative order |
| `FairQueue` | the abstract queue: it only joins, grants the first and lets go, with a history variable for how long one may be bypassed |
| `LeaseContract` | the abstract promise of a shared lease: grant, start, finish, acknowledge |
| `DeviceLease` | every process of a namespace, from `acquire()` to the end of the job |
| `LeaseFairness` | `DeviceLease` with the history of `FairQueue`, to say that its queue is one |
| `LeaseDeaths` | `DeviceLease` with counts of the dead and of the tickets they were at work on, to say what they leave and when a refusal is just |
| `DeviceLeaseProofs` | theorems about `DeviceLease`, `LeaseDeaths` and `LeaseFairness`: the engines, the record and the contract; the queue, the tickets and the refusals; what the dead leave; the rotation |
| `LeaseOrderProofs` | theorems about `LeaseOrder` and `FairQueue` |
| `SumLemmas` | sums over finite sets, and induction over numbers, for the proofs |
| `LeaseNamespace`, `LeaseNamespaceProofs` | opening and creating a namespace, and theorems |
| `TelemetryRing` | writer, readers and the ring files |
| `TelemetryLifecycle` | lock, daemons, clients |
| `TelemetryLifecycleProofs` | theorems about `TelemetryLifecycle` |
| `PaneRegistry` | the registry file and what its clients keep to refresh it |
| `PaneTicks` | a table of processes, the collector's scans of it, and what is charged to a pane |
| `SensorScan` | the kept topology of sensors and its rescans |
| `TelemetryDataProofs` | theorems about `PaneRegistry`, `SensorScan`, `PaneTicks` and `TelemetryRing`, and about the four together |
| `SnapshotCache` | `refresh` and `doctor` on one cache |
| `BoundedProbe` | one bounded command |
| `HardwareProbe` | one section of a capture, against devices that come and go |
| `HardwareProofs` | theorems about `SnapshotCache`, `BoundedProbe` and `HardwareProbe` |
| `SizerVerdict` | observation, budgets, verdicts, and the job they are about |
| `IntakeInputs`, `IntakeBundle` | what the intake reads, and the bundle it commits |
| `ToolProofs` | theorems about `IntakeInputs`, `IntakeBundle` and `SizerVerdict`, and about all host tools together |
| `MC*` | instances for TLC. `MCLeaseWedge` also narrows the next-state relation; `MCTelemetryData` and `MCHostTools` bring together modules that share no variable |

`DeviceLease` extends `LeaseOrder` and is shown to implement `LeaseContract`
(`INSTANCE ... WITH active <- state.active`; `running` is the same variable).
`FairQueue` extends `LeaseOrder` too, and grants by the declarative order, where
`DeviceLease` uses the loop of the code. `LeaseFairness` adds the history `patience` to
`DeviceLease` (it decides nothing: `WatchedNext` is `Next` and a value for `patience'`) and is
shown to implement `FairQueue` (`INSTANCE ... WITH queue <- state.queue, last <-
state.last, next <- state.next`). The telemetry modules do not import each
other: `TelemetryLifecycle` says who writes, `TelemetryRing` what a reader gets,
`PaneRegistry` which roots a scan is given, and `PaneTicks` what a scan makes of any
set of roots.

`MCTelemetryData` and `MCHostTools` have a variable `part`, chosen at the start, that
says which of their modules takes the steps of a behaviour while the others rest. The
modules have no state in common, so interleaving them would show nothing more.

Definitions called a *mutant* in a comment are not part of a specification. Each
is a wrong version of the definition after it, kept to show that a property
notices that mistake.

### DeviceLease

`state` is `state.json`; `files`, `temp` are the rest of the directory. `anchor`
is the holder of the anchor's flock: every pass from `Enter` until the action
that clears `anchor` is one `with _Registry(...)` block. `open` holds the tickets
whose file is open and locked by a live requester. `guard[t]` says who has a copy of
the descriptor of `accelerator.lock` of grant `t` (the provider, a forked child,
the job); the lock is free when no grant has one left. `running` is the set of
engines, which the code never sees: it is what the lease is for.

One action per step that another process, or a death, can come between. A pass is
`PruneScan`, `UnlinkRemoved` per ticket, `ListEntries`, `SweepOrphan` per ticket,
then `CreateTicket`/`CommitTicket` in the first pass and `TakeResource`/
`SaveGrant`/`ReturnLease` in the one that succeeds. The `except` of the grant is
`GrantRaises` and `RollBack`, the `finally` of `acquire` is `Withdraw*`,
`Unqueue`, `UnlinkOwn`, `CloseTicket`. `registry.value` needs no variable:
`Pending` is what the next save would write, and `SaveRaises` are the three ways
a save can raise (before `state.next`, with it left behind, after the rename).

`Faults` selects what the environment does: `crash`, `io` (any file operation
raises), `stall` (`_ACK_WAIT_SECONDS` runs out on a busy anchor), `fork`
(a forked child keeps the descriptor), `guard_loss` (an engine outlives its
supervisor's copy of the guard) and `early_ack` (a provider acknowledges while its
engine runs, against the documentation).

Abstractions: ticket names are the numbers of the requests; polls that find the
anchor busy are stuttering; the clock is the set `late` of requests whose
deadline has passed; the queue is a set of items with sequence numbers, since
`order` sorts each group by sequence.

### LeaseNamespace

`anchor` is absent, empty or the identity it records; `leaf` and `build` are the
directories at the path and at the private sibling name, with the files in them
and a history field `made` (by this code or not); `dir` is the directory that each
process has open. An inode stands for the two pairs of numbers in the anchor, the directory's and
its lock file's. They may be handed out again when nothing has them, also to a directory that somebody
else makes, and `validate()` compares nothing else (`Valid`). `CleanName`, `RemoveBuild`, `MakeBuild`, `Fill` (one per file
operation), `RenameBuild`, `RecordIdentity` are the steps of creation, `Adopt`
that of a complete directory whose creator died before the record. An `OSError`
leaves what a death at the same step leaves. Every pass of `DeviceLease` starts
with these steps; they are a module of their own because a recorded namespace
never goes back.

### TelemetryRing

A file is a header and a row of cells as long as the shortest slot, so that slots of
two geometries overlap as they do in a file that both use. `pack_into` first clears what it overwrites (as CPython
does), then writes: `ClearHeader`/`ResetHeader`, `Publish`/`WritePayload`/
`WriteSlot`/`Advance` are the stores of a start and of a publication, and a writer may
die after each. `Open` is a reader that maps what the path names and reads the
geometry once, before any lock. `Latest` and `History` are what a reader would be
given in a state in which the writer does not hold the file's lock.

Abstractions: no time, so the age limit is left out; the CRC is assumed to
notice every payload that is not whole; how `_fit` makes a snapshot small enough
is left out, except that it may fail (`Skip`).

### TelemetryLifecycle

`lock` is the process that has the flock of `telemetry-v1.lock`, be it a daemon or a
probe: `daemon_running()` learns whether the lock is taken by trying to take it
(`ProbeFree`, `ProbeUnlock`), and a daemon that meets a probe ends as it would for
another daemon (`FindBusy`). `why[c]` says which of the four probes of a call the
client is at: the one of `snapshot`, the first of `ensure_running`, one of its
loop, or the last. Timestamps are abstracted to what is compared: `taken` and
`after` are the waiting clients whose `started_ns` is not after the sample being
published and the one in the ring. Deadlines, age limits and the second for which
an answer is remembered may end at any time.

### PaneRegistry

`file` is what can be read of the registry: an update that is cut short, or a short
write, leaves `Torn`, which every reader takes for empty. `Clean` is
`_clean_owners`: the first `MAX_OWNERS` entries, and only then the ages. `Poll` is
`_register_pane`, `RegisterPanes` its explicit form. Time passes in equal ticks, however
short, and every poll (`seen`), every client's own last write (`renewed`, the age of
`_registered_at`) and every entry has an age in them; `IsCurrent` compares the client's own
age with `Renewal`, which in the code is a third of `Stale`. Clients poll when they like. `calm`
is a history variable: ticks since an update was cut short, written short or refused, or
the file held more owners than are read. A process has one
`TelemetryClient`, as `default_client()` gives it.

### PaneTicks

`life`, `start`, `parent`, `cpu`, `waited` are the kernel's process table: `Work`,
`Fork`, `Exit`, `Reap` and `Vanish` are what Linux does, between and during scans.
`BeginScan` lists it, `ReadProcess` reads one row, `FinishScan` computes the reports
of `_processes()`. History variables compare what was charged with what was really used.
`raced` notes that a process left the table, or changed its parent, while a scan was at it;
section 5 shows what is then counted twice, and `MCTelemetryData` explores only the
behaviours up to the first such scan (`CONSTRAINT Unraced`), the last state included.

### SensorScan

`sources` is the kept topology, `found` its age in refreshes, `shown` the label and
the value of each path. A device that takes the path of another is shown under the old
label until the next lookup, as in the code; the property bounds how long.

### SnapshotCache

One action for each call of `write_snapshot` and of the reader, in any number of
processes at once; `Fail` is an error or an interrupt at any of them, with the clean-up
that follows. `onDisk` is what the name may mean after a power loss: a rename adds
to it, a sync of the directory leaves the current one, `Writeback` is the kernel
doing the same unasked. A file is identified by the observation in it. `made` and `rooted` are
the directories on the path, which the code creates and never syncs.

### IntakeInputs, IntakeBundle

`IntakeInputs` reads each input in two blocks between two looks at its metadata, which
show the tick of the last write; the record claims the versions of the other inputs.
`IntakeBundle` has one action per call of `_write_bundle`, the `finally` clause as
steps of their own, several intakes that aim at one name, the owner who moves the
bundle or its parent, kills and power losses. `spoiled` are the intakes whose clean-up
was cut short.

### BoundedProbe

`_run_bounded` against a command that writes, closes its output, starts a helper,
and whose processes end in any order. `KillGroup` is `os.killpg`: it reaches the leader's process
group, which a helper leaves by `setpgid()`, in the same session, or by `setsid()` (`LeaveGroup`).
`Interrupt` is any exception but the two kinds the code catches.

### HardwareProbe

A behaviour collects one `section`. The entries of a directory are devices with facts
(`truth`); a device answers the first few reads and is gone for the rest
(`answers`), and any read may fail by itself. `rows` are the devices in the document.
`Collected` adds the aggregates and the markers, by the lists of the probe (`MarkedFacts`, `MarkedFields`).
`Required` and `Accepted` are the
independent derivation in `tools/validate_candidate.py`, which has lists of its own
(`Facts`, `Fields`). A fact copied from one file stands for all of its kind.

### SizerVerdict

`host` is what can be read, `snapshot` what `collect()` made of it. `Recommend` gives one row
of any request: documents (`DocumentRow`), a measured voice or runtime profile
(`MeasuredRow`) or a chat model (`ChatRow`). `Start` and `Finish` then run the job
that the row is about: training one model after the other, serving together or in turn. `Overruns`
says whether it has used more than was surely left, from the same host and without the code's
budgets: `MemoryOverrun` of what is loaded together, `DiskOverrun` of every task that was started.
A request for documents has its budgets, needs and verdict by phase (`DocumentNeeds`). The byte formulas of `estimate()` are the constant `Size`. The module takes the
host to keep what was observed as long as the snapshot is fresh (five minutes) and nothing after.

## 3. Runs

| Run | Instance | Question |
|---|---|---|
| `lease_fair` | 2 processes, 2 workloads, queue of 2, 3 requests; `crash`, `io` | is the loop the rotation it is meant to be, how long can one wait, and does it survive crashes, failed saves and rollbacks? |
| `lease_queue` | 3 processes, 1 workload, queue of 2, 3 requests; `crash`, `early_ack`, `fork`, `stall` | what may others do to a place, a grant and an acknowledgement, and is a directory with what the dead left in it refused only for cause? |
| `lease_engines` | 2 processes, 2 workloads, 3 requests; every fault but `early_ack` | one engine, a current lease, a valid record, quarantine for good, and the contract, when saves fail and guards get lost |
| `lease_live` | 2 processes, 3 requests, `crash` | does a request end, and is it served? |
| `lease_namespace` | 3 processes, 4 inodes, all faults, fair | is there one home, made once? |
| `telemetry_data` | registry: 3 owners, 3 panes, room for 2 owners, stale after 3 ticks, renewed after 2; ticks: 3 identifiers, 1 root, 3 forks, 2 ticks, 2 scans; sensors: 2 paths, 2 devices, a lookup every 3 refreshes; ring: 1 reader, three geometries (2x2, 4x1, 2x1 cells), 2 daemons, 4 samples | is a polled pane sampled, charged once, and is what a reader gets whole? |
| `telemetry_lifecycle` | 2 clients, 2 daemons, fair | is there one writer, and one in the end? |
| `host_tools` | cache: 2 processes, 2 observations, 1 missing directory; bundle: 2 intakes; inputs: 2 versions, 2 ticks; probe: 3 blocks, limit of 2; sizer: 41 hosts; hardware: 2 devices | do files keep what was promised, is a verdict just, and a document true? |
| `lease_wedge`, `lease_ack_io`, `telemetry_false_running`, `telemetry_recount` | see section 5 | statements of the documentation that the code does not keep |

Why the bounds are enough to see the cases that matter. In the lease, two processes
give every pair of racing steps, the third (`lease_queue`) lets one be pruned
while two others contend, and three requests give a grant, its successor and a
waiter, with a queue that can be full and tickets left by the dead. `lease_engines`
has one place per workload, so that both limits of the queue and the rotation
bind, and a slack of 2 directory entries instead of 5, so that few orphan tickets reach
the bound. `lease_queue` has a slack of 3, which is just the three files that are no tickets: a process that dies at work on
a ticket already makes a pass refuse the directory, and one that dies anywhere else must not. In `lease_fair` two requests wait while a third one joins behind them, which
is what a wrong turn or a rollback that grants nobody would favour. Processes are interchangeable (symmetry) except where liveness is
checked. In the namespace, three processes let a creator die, a second adopt and
a third be refused; four inodes let one be used again, by this code or by a foreign directory. In the ring, four samples
in two slots wrap twice and two daemons give a start in a file with a past; one
reader suffices, since readers change nothing. In the lifecycle, two clients are
what misleads each other, and two daemons are one that runs and a spare one.

In the registry, three owners in a file for two let one be crowded out, one owner
has two panes, and one has none and only takes its place in the file; a renewal of two ticks lets a client take its last write for
current in the tick after it. Three identifiers are a root, a child and a grandchild, or a
root, a child and its successor under the same identifier; two scans are one report. Two commands
and two observations give every order of two renames; two intakes race for one name. Two devices
let one be skipped, unplugged or unreadable beside one that is not. The hosts of the sizer have
no limit, one, or one above a smaller one; no device, one or two; and each of their values
unknown once; sizes are such that one task fits where two do not, and that some needs
meet a budget exactly.

What the passing runs show (the two that bring modules together also check one type
invariant each):

- `Exclusive`, `LeaseIsCurrent`, `QuarantineIsForGood`: no two engines at once;
  a lease that may start one is the one on record; a grant whose provider is gone
  is never taken for cleaned up.
  `RefinesContract`: every step is a step of
  `LeaseContract` or a stutter.
- `RecordIsAccepted`, `PlaceIsKept`, `NeverLost`: no interleaving leaves a record
  that the next pass rejects, drops a live entry before its deadline, or tells `lost-lease` to somebody who
  only waited. `RefusalIsJust`: as long as the
  slack has room for the tickets that the dead were at work on, `unavailable` is told for a quarantine only.
  `AcknowledgementIsKept`: the guard is not dropped before the acknowledgement
  is on record (without I/O errors; section 5 with them).
- `RefinesQueue`: the queue of the processes, which passes change that may die, raise, or be
  rolled back, is a `FairQueue`. `TurnsAreFair`: the loop gives the declarative order
  (`OrderIsRotation`), and a request is bypassed at most as often as those before it in its
  own workload and one turn of every other explain (`BypassBounded`).
- `RequestEnds`, `RequestIsServed`: liveness, see section 4.
- `OneHome`, `RefusedForCause`, `PlacedIsComplete`, `OpenEnds` for the namespace.
  `NeverRecreated`: an identity is recorded once, and only of a complete directory that
  nobody has used; none is made in the place of a removed one; and what somebody else put at the
  path is left as it is, unless it has the recorded numbers (section 5).
- `PolledIsVisible`: a pane is among the sampler's roots until a renewal short of the stale
  time after its last poll, if that poll came a renewal or more after the last torn file,
  refused update or crowd. With the code's 15 seconds and a third of them: a pane polled
  within the last 10 seconds is sampled, unless the damage is less than 5 seconds older than
  the poll. Before that the client may still take its lost entry for current.
  `ChargedOnce`: a pane is charged for all the work of its tree, and once, unless a process is
  waited for while a scan is reading (`raced`; `telemetry_recount` shows that case).
  `SensorsSettle`: a sensor that is gone costs one lookup, and labels are right
  when the next one falls due.
- `RecordsAreWhole`: the slot that the header names is whole, except when a full
  round of samples was skipped and the next one overwrites it, and no reader
  is given parts of two records. `HistoryIsOneRun`: a history has the last records of
  the daemon in the header, at most one of them missing, and a record of an older
  daemon only in the place of a sample that had to be skipped.
- `LiveRingIsKept`: no spare daemon resets the ring of one that goes on.
  `ReadyMeansSampled`: `ensure_running` ends its loop with True only if a sample
  was taken and published since the call. `DeathIsRepaired`: no false belief
  lasts (section 4).
- `CacheIsDurable`: whatever has the name of the cache, now or after a power loss, is
  a whole snapshot, and never one from before a refresh that reported success.
  `MalformedIsKept`: no sequence of commands replaces a damaged cache.
  `LitterMeansKilled`: a temporary file without a running owner is that of a killed one.
- `VisibleIsWhole`, `SuccessIsKept`, `RefusedLeavesNothing`: the bundle is seen whole
  or not at all, unless it is being taken back or its intake was refused or died; a reported one stays, whoever else fails under the same name; a refused one
  goes. `RecordedWasHeld`: each digest that is recorded is that of bytes the
  file held at one moment, unless it was written twice in a tick of the clock.
- `ProbeIsBounded`: output that is returned is all of it and within the limit; a command that
  is given up is reaped and leaves no process in its process group. Nothing is said of a helper that left
  the group, nor of a probe that is interrupted (section 5).
- `VerdictIsJust`: a job that was listed never uses more than was surely left beside the
  reserve, in any order of its parts, and one that was refused does.
- `KnownIsTrue`: what a document states of a device that stayed plugged in is true of it,
  and a host is not said to be offline, or to have no battery or no sensor, because some did not answer.
  Of `ac_online` being false nothing is said (section 5).
  `CollectedIsAccepted`: the validator, whose lists of facts are its own, accepts every document the probes make, and each marker
  names a device of the document and a fact that is open there.

## 4. Fairness

- `LiveSpec` of the lease assumes weak fairness of the `Prompt` processes only:
  they take their steps and their deadlines pass. The others may hold the anchor
  for ever. `RequestEnds` holds under it, because the deadline is looked at
  without the anchor.
- `RequestIsServed` is an implication: *if* every process takes its steps, gets
  its turn at a free anchor (strong fairness, because whoever finds it busy
  polls every 20 ms and a pass takes milliseconds), holders release or let go in
  the end, and jobs and forked children end, *then* whoever waits is served or
  refused, even if no deadline ever passes.
- `FairSpec` of the namespace: processes that are not killed go on (weak), and get
  their turn at the anchor (strong, the same polling).
- `FairSpec` of the lifecycle: clients keep asking, as panels do, and take their
  steps; what they remember expires; a wait reaches its deadline and a spawn that
  could succeed again and again does (strong: the client is at that step only now and
  then). A daemon starts, and may die at once. `DeathIsRepaired` assumes in its
  statement that from some point on no client dies and no probe meets another one. Without
  the latter it does not hold: to start a daemon a call needs two true answers, and two clients
  can go on misleading each other's second probe. Probes last
  microseconds and are at least 200 ms apart in a client, so this needs a
  coincidence at every poll.

## 5. Where documentation and code differ

1. `lease_wedge`: coordinators that die between saving the pruned queue and
   unlinking the removed tickets leave files that count against the bound of
   `MAX_QUEUE + 5` directory entries (`lease.py:586`), and the pass that would sweep them
   refuses the directory first. After enough such deaths every request is
   `unavailable`, although the README of the component says that a coordinator
   killed at any step cannot wedge the queue. One that is killed indeed cannot
   (`OneDeathIsSwept`, a theorem): it leaves at most a queue of tickets, and the slack
   of five has room for that. Each further one may add as many if no pass comes to its sweep
   in between, or if those whose entries were removed are stalled and still have their tickets locked.
2. `lease_ack_io`: if the save of an acknowledgement, or the opening of the registry before it, raises, `release()` closes the
   guard all the same (`lease.py:684`), and the namespace stays quarantined:
   the outcome that the comment above it gives as the reason to keep the guard.
3. `telemetry_false_running`: a probe that meets another client's probe reports a
   running daemon where there is none (`ring.py:177`).
4. `telemetry_recount`: a child that is read, exits and is waited for before its parent
   is read has its ticks in the tree twice (`collect.py:455`), where the README of the component says that
   they are not counted again when a live child is reaped.

Others were met while modelling. Each is a matter of one or two
steps of the code, and has no run of its own:

- A directory that is put in the place of a removed namespace, and gets the same numbers for itself and
  its lock file, is taken for the one that was recorded (`lease.py:516-520`): the README of the component
  says (80-81) that replaced state is refused.
- A daemon restarted with another geometry of the same total size rewrites the
  ring in place (`ring.py:202`), and a reader with a cached mapping goes on with the old
  geometry: it can be given a record of the last daemon as the latest, where
  `client.py:55-56` expects a new file under the path.
- A cache that is replaced between a reader's `open` and its `fstat` has no link
  left and is refused as malformed (`state.py:254`), though it was valid.
- `ac_online` is false as soon as one supply says so and no other one can be read
  (`probe.py:662`); SMT is `enabled` when the topology of a core could not be
  read (`probe.py:1027`); an interface that vanishes between two reads has the bus
  `virtual` and may have the type `ethernet` (`probe.py:744-774`); counts of sensors and
  fans are those of the readable ones (`probe.py:827-838`). The README of the component says
  (55-56) that facts which cannot be observed are recorded as unknown.
- Two first refreshes that create the private directory at once: the loser ends with
  status 69, and a second attempt succeeds (`state.py:118`).
- An interrupt between the rename of a bundle and the line that notes it makes the
  clean-up empty the committed bundle and leave the directory (`profile.py:591`).
- A bounded command whose runner is interrupted goes on: only an `OSError` or a timeout makes
  `_run_bounded` kill its process group (`probe.py:421`); and the group is not the whole session, so a helper
  that called `setpgid()` outlives the kill (`probe.py:423`).
- Without a daemon `pane()` scans for the one root it was asked for and forgets the
  others, so a client that polls two panes in turn sees no CPU rate of either
  (`client.py:236`).

## 6. Proofs

Proved for every value of the constants (processes, requests, workloads, inodes,
clients, daemons, geometries, files, entries of a directory, hosts), from the named assumptions on them only,
except where a line says more. The assumptions are what the code gives: that
bounds are numbers (`LeaseAssumption`, `ProbeAssumption`, `InputsAssumption`, ...), that there is a
workload (`NKindsAssumption`), that a geometry has the least number of slots (`RingAssumption`),
that "unknown" is none of the values it stands for (`UnknownAssumption`), that what is measured of
hosts and models is a number or unknown (`SizerAssumption`), and that process identifiers
are finitely many positive numbers (`TicksAssumption`; Linux has a `pid_max`). TLC evaluates each of
them on the instances of section 3.

Each proof is an inductive invariant, one lemma per group of actions that they keep it,
and the property from the invariant. None of the properties is inductive by itself; what
is added, and why, is below.

- `DeviceLeaseProofs`. `LeaseInv` adds to the types: names of requests are given
  once (`RequestsNamed`, `NamesUnique`); a process in a pass has the anchor
  (`AnchorExcludes`); at most one grant has copies of the guard and a
  provider at work has one (`OneGuard`, `ProviderHasGuard`); the provider's lease is
  the one on record (`LeaseIsHeld`); a grant about to be saved is new and its
  engine not started (`GrantIsNew`, `NotStarted`); a record that is not held has
  no engine (`AcknowledgedIsDone`); and an engine without a copy of the guard
  leaves the record held (`EngineIsMarked`). What prevents a second engine is
  that a grant needs both a free lock and a record that is not held, so the
  invariant has to say which of the two every running engine keeps. Theorems:
  the invariant and the types, `LeaseIsCurrent`, `QuarantineIsForGood`;
  `Exclusive` if not both `guard_loss` and `early_ack` are among the faults; and
  `RefinesContract` without `early_ack`, with a further inductive part that a
  ticket about to be granted is not the one on record. From the refinement and the
  contract's own invariant follows `EngineIsGranted`: only the engine of the grant that is
  held runs.
- The queue, in the same module on top of `LeaseInv`. `QueueInv` follows a request's ticket from the file that is
  created to the one that is unlinked: only requests that were made have one anywhere (`RequestsKnown`); it
  is open from joining on (`TicketOpen`), and not in the queue before (`NotJoined`); what a
  pass unlinks is closed or past its deadline (`UnlinksAreDue`); and the room that the first
  look found is there at the save (`RoomToJoin`), since nobody else writes meanwhile. Theorems:
  `RecordIsAccepted`, `PlaceIsKept`, `NeverLost` with every fault;
  and `AcknowledgementIsKept` without `io` (with it `lease_ack_io` refutes it).
  `RefusalHasCause`, also without `io`,
  says that a refusal has one of two causes: a grant that nobody can acknowledge, or more
  tickets without an entry than the slack of `prune()` has room for (`Littered`).
- What the dead leave, in the same module and without `io`. `Litter` is the tickets that neither an entry nor a
  pass knows of. No step but a death adds to it (`LitterStep`), and a death adds what its process was at
  work on, which is never more than a queue (`DutyFits`); so after any number of deaths
  it is at most what they were at work on (`unfinished`), and that at most `MAX_QUEUE` for each
  (`LitterIsOfTheDead`). With the causes of a refusal it follows that `RefusalIsJust`: however many
  processes die, and wherever, `unavailable` means a quarantine while what they left undone fits into the
  slack (`Spared`). With the code's slack of five, three of which are other files, that is two
  tickets. A process is at work on a ticket only from creating it to saving its entry, and from saving its removal
  to unlinking it. Nothing is said beyond that room, where
  `lease_wedge` shows what happens. It also follows that `NeverWedged`, which
  `lease_wedge` refutes, holds as long as no more than one process has died (`OneDeathIsSwept`, given two
  entries of slack).
- The rotation, in the same module. That the queue in `state.json` is a `FairQueue` needs two facts
  about the steps between the look at the queue and its save: a process that grants is
  still the head when it saves (`GrantIsDue`; a rollback finds either the grant
  on disk, and changes nothing of the queue, or the queue as it was, and grants), and an entry is
  of the workload of its request (`EntryIsOwn`). With `NewTicket` each save is then one step of
  `FairQueue` or none (`FairStep`). Theorems: `RefinesQueue`, and from it and the invariant of
  `FairQueue`, which is taken over through an instance of `LeaseOrderProofs`,
  `TurnsAreFair`: both with every fault.
- `LeaseOrderProofs`. `Order` is a recursive function over what is left of the queue. That it has a
  value, ends, serves everybody once and agrees with `ServedBefore` (`OrderRotates`) is shown by
  induction on the number of requests, as a statement about a set of numbers: a least one at which it
  fails does not exist. `OrderIsRotation` follows for every queue, and that the loop and the declarative
  order have the same first (`FirstIsPopped`). For
  `BypassBounded` the invariant is `Patient`: what may still come before a request,
  its rank in its workload times the number of workloads plus the turns until its own (`Due`), is never more than
  its patience. A grant takes one from both; a request that joins or leaves adds to
  nobody's.
- `LeaseNamespaceProofs`. `NamespaceInv`: only the holder of the anchor is
  between opening and closing (`LockIsHeld`); the anchor is empty while somebody
  creates (`EmptyWhileCreating`); what is under construction is the creator's
  (`BuildIsOwn`); a directory in use is recorded (`LeafIsRecorded`). Theorems:
  the invariant, the types, `OneHome`, `RefusedForCause`, `PlacedIsComplete`,
  `NeverRecreated`.
- The ring, in `TelemetryDataProofs`. `RingInv` says of the file that is being written what each slot holds
  at each store (`WindowFits`: every slot but the one in hand has what was published into it;
  `SlotFits`: how far the one in hand is; `HeaderFits`: the header names the last sample that was not
  skipped), and of every other file what this comes to when its writer dies at that store (`Settled`).
  It rests on the arithmetic of slots: two sequences less than a round apart are in different
  slots, and slots do not overlap. Theorems: the invariant,
  `RecordsAreWhole`, `HistoryIsOneRun`, for any set of geometries. A history is
  the set of its records there; their order is that of their sequences.
- `TelemetryLifecycleProofs`. `LifecycleInv`: a daemon has the lock from before it
  opens the ring, a probe until it gives it back, and a probe has a reason; with it
  `LiveRingIsKept`, and `ReadyMeansSampled`, since whoever a sample in the ring is after has been
  served (`MarksAreServed`).
- `TelemetryDataProofs`. `RegistryInv`: what a client takes for
  current, because its own last write is younger than a renewal, is in the file with just that age if it was
  written since the last damage (`WrittenIsThere`); and what was polled a renewal after the damage is in an entry
  written less than a renewal before the poll (`PolledIsWritten`), which no other client's update drops, since a
  file that is not crowded is read whole; with it `PolledIsVisible`, for any stale time and any renewal within it. `SensorInv` ties what was missing and shown to the refreshes since the
  last change; with it `SensorsSettle`.
  `TicksInv` keeps the books of a pane while processes fork, work, exit and are waited for, between
  scans and during one: what the scan has read is still in the table but for more
  ticks (`ScanInv`); what a tree shows is what was used in it, less what left unreaped
  (`UsedInv`); and what was charged to a root plus what its tree still has to report is at most
  what was used in it (`ChargeInv`), with equality in the last scan if nothing happened since. Each
  step of a process is a lemma about the closure under parenthood: a fork adds a leaf, an
  exit cuts subtrees off, and a child that is waited for moves its ticks one
  up, which leaves the sum of every tree the parent is in. With it `ChargedOnce`, for any process table and any
  panes, and for scans during which no process leaves the table or changes its parent.
  A step of `MCTelemetryData` is a step of one of its modules, in which the others rest
  (`PartsAreSeparate`), so that each theorem about one of them is one about the whole; with it and the
  types of each module, `TypeOK`.
- `SumLemmas`. `MapThenSumSet` picks its elements in an order of its own. That the recursion has a solution,
  that it is the only one, and that any element can be taken out first (`SumWithout`) is
  shown by induction on the number of elements, as statements about sets of
  numbers, since no induction theorem about a predicate can be applied here.
- `HardwareProofs`. `CacheInv`: files are whole before they are synced and synced before
  they take the name; what the directory on disk may still hold is former or current, and a
  refresh that has reported success has left neither an older one nor a damaged one. Theorems: the invariant,
  `CacheIsDurable`, `LitterMeansKilled`, `MalformedIsKept` (of every step).
  `ProbeInv`: where the runner is against what the process group and the pipe still hold; with it `ProbeIsBounded`.
  `HardwareInv`, by section: what each row and reading says against the entry it
  is of, that no entry is left out while nothing is in doubt, and that a document is of what was scanned; with
  it `KnownIsTrue` and `CollectedIsAccepted`, for a directory of any length.
- `ToolProofs`. `IntakeInv`: which directory has the name, whose it is, and what of it
  is on disk, at each step of an intake and of its clean-up; with it
  `VisibleIsWhole`, `SuccessIsKept`, `RefusedLeavesNothing`. `InputsInv`: a file that
  is being read is open and its blocks are of versions that were current since the first
  look; with it `RecordedWasHeld`.
  For the sizer, `RowIsJust` says of a row what its verdict promises without running anything: one that is
  listed has enough for each part, for any of those that serve together and for the disk of all tasks
  (`Enough`); one that is refused lacks one of these (`Short`). It is shown of each kind of
  row (`ChatIsJust`, `MeasuredIsJust`, `DocumentIsJust`) from three facts: a budget draws the line between what
  fits beside the reserve and what does not, in memory, on the device that was chosen and on disk
  (`BudgetsHold`); the worst of the verdicts on the phases is one of them (`WorstIs`); and a larger set of
  parts never uses less (`OverrunStays`). `JobInv` then follows the job: one part is
  loaded, or several that serve together; whatever overruns alone has been counted; and what serves together leaves
  only after all of it was there, so that a refusal that rests on the sum is borne out too. With it
  `VerdictIsJust`, for any hosts, devices, limits, sizes, profiles and chat models.
  As for telemetry, `MCHostTools` is each of its modules at a time (`ToolsAreSeparate`); with it and the types of
  each module, also of those in `HardwareProofs`, `TypeOK`.

Only model-checked: all liveness (`RequestEnds`, `RequestIsServed`, `OpenEnds`,
`DeathIsRepaired`), since the prover does not reach fairness or ENABLED. Every other property of a passing
run is also a theorem.

## 7. Not modelled

- In the lease: permissions, ownership and link checks of each open (they refuse,
  and change nothing), clock values, the handler that closes the copies of tracked
  descriptors in a forked child, a fork by another thread between a system call and
  the line that records its descriptor, a torn write of the 200 bytes of an identity, and the
  text of errors.
- In the ring: `_fit` and `_fit_processes`, except that they may fail; which exception an
  unreadable header raises; the 0.2 s snapshot cache of the client.
- In the snapshot cache: an interrupt between the creation of the temporary file and the line that notes
  it leaves the file (`state.py:344-350`). The steps of the model include that outcome, but as a clean-up
  that failed (`killed`), and `LitterMeansKilled` says nothing after it.
- In the collector: the memory of panes, rates of single processes and processors, and
  the parsing of `/proc` and `/sys`; in the registry, two clients in one process.
- In the probes: frequencies, caches, instruction sets, platform state and bus counts,
  which are copied from one file each, and their entries in the two lists of markers; the wait for a killed process that does not end.
- In the sizer: the verdict on the installation of a voice model (`voice.py:144-151`), which is shown beside the
  verdict on its use and does not change it; byte formulas and the choice among listed models, which the unit tests pin
  down, and the checks of requests and catalogs, which refuse and change nothing.
- In the intake: schemas and the privacy scan, whose refusal is a choice of the model.
- Command lines, JSON conversions, `diff`: input and output.
- Validators and release gates of `tools/`, apart from what `validate_candidate.py`
  asks of a hardware document: sequential comparisons of fixed files, with nothing that
  persists and nothing that runs beside them.

What the models assume of the world: `fsync` of a file or a directory makes it last, a
rename is atomic, a move within one file system is one transaction whichever directory is
synced, `flock` is exclusive and ends with the last copy of the descriptor, and the CRC
notices every payload that is not whole.

## 8. Plan

Next: the rest of the collector and the client of the telemetry daemon (section 7), each with its
types and its first invariant proved as it is modelled; and what passes that raise
leave in the directory, which `LeaseDeaths` does not count yet.
