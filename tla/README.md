# Verification of proxmox-fleet

TLA+ models of the fleet manager in `src/proxmox_fleet`, the TLC runs that check
them and the theorems TLAPS proves about them. Everything is translated from the
source; what lies outside of it (Proxmox, Ansible, Loki, Alloy, the programs in a
guest, the kernel) is modelled by how the source uses it.

Contents: [the system](#1-the-system), [modules](#2-the-modules),
[runs](#3-the-runs), [properties](#4-the-properties), [fairness](#5-fairness-and-refinement),
[proofs](#6-the-proofs), [disagreements](#7-where-code-and-text-disagree),
[limits](#8-limits), [plan](#9-plan). Paths are relative to `src/proxmox_fleet`.

## 1. The system

The manager (Python) updates a fleet of Proxmox containers, VMs, bare hosts and
nodes, and, in its housekeeping pipeline, archives the guests' logs to Loki and
deletes what is archived. It keeps a SQLite checkpoint per guest, runs Ansible
primitives over SSH, and drives one long helper script on each node
(`housekeeping_io.py`). A dashboard starts runs and shows them.

| Component | State it keeps | Operations | Talks to | Correct when |
|---|---|---|---|---|
| Local retention `housekeeping_retention.py` | prune intents, in the checkpoint | recover open intents, plan, authorise a batch, record intents, call the helper, resolve outcomes | checkpoint, node helper | nothing unarchived is deleted; an outcome on record is true; no file stays in quarantine unexplained |
| Node helper: prune `housekeeping_io.py` | quarantine directory, an in-memory call | look, rename to quarantine, re-check, unlink, restore | guest file system | it deletes exactly the file the manager authorised |
| Node helper: log access | one measurement, one repair | look at root and file, walk, measure read access, grant ACLs | guest file system, manager | evidence that belongs together; no grant outside the source |
| Node helper: disk usage | a forked worker, a pipe | walk, report, deadline, kill | guest file system | never too much, nothing missed in a complete result, always an end |
| Node helper: capture and snapshot | spool of frozen prefixes | manifest, copy, receipt, ranges, release | guest file system | the frozen prefix outlives rotation until it is archived |
| Checkpoint `housekeeping_checkpoint.py` | source rows, capture intents, blobs, pending batch, acknowledgements, prune intents, tombstones | one SQLite transaction each | import, retention | every prefix of its transactions is a state a later run can continue from |
| Archive import `housekeeping_import.py`, `housekeeping_sources.py` | none of its own | capture, resume, plan, verify prefix, send batches, complete, cover, release | checkpoint, node helper, Loki | coverage never runs ahead of what Loki acknowledged; work once begun is finished |
| Log streams `housekeeping_stream.py` | windows, a pool of transfers, a decode buffer | fetch, batch, decode, cut into fragments | node helper, import | every byte once, in order, under its line number |
| Native policies `housekeeping_native.py` and the journald, logrotate and marker stages of retention | none | write policies, cut over, verify delivery, vacuum | helper, guest | deletion by the guest's own tools only after delivery was seen |
| Cache cleaning `housekeeping_cache.py` | cache times | plan and clean caches | guest | cleaned once per cadence |
| Pipeline `housekeeping.py`, `flows/housekeeping.py`, `alloy.py` | run summary | prepare, validate, repair access, environment, reconcile Alloy, cache, import, retention | all of the above | a failed stage stops the destructive ones after it; what it calls effective is on the guest |
| LXC flow `flows/lxc.py` | snap_taken, rollback_done, outcome | start, snapshot, update, reboot, health check, rescue, clean up | executor | an update is protected or warned of; what is reported is true |
| VM and custom flows `flows/vm.py`, `flows/custom.py`, `steps.py` | the same | the same | executor | the same |
| Remote and node flows `flows/remote.py`, `flows/node.py` | outcome | upgrade, diagnostics, reboot, post-upgrade checks | executor | no node is rebooted under the manager; the loop stops after a failure |
| Run driver `driver.py`, `orchestration.py`, `cluster.py`, `deps.py`, `window.py` | FleetState | phases, canary waves, soak, quorum gate, dependencies, windows, limits | flows | the rest of a wave runs only after good canaries; every run ends with a truthful report |
| Run lock `lock.py`, `cli.py` | one flock and its payload | acquire, announce, probe, release | file system, dashboard | one run at a time, none refused wrongly |
| Executor and runner `executor.py`, `runner.py` | none | one primitive per call, snapshot retries | Ansible | a failed command is a result, never an exception |
| Scan, alerts, notifications, briefing | reminder state, alert streak | de-duplicate, alert after a streak | Kuma, mail | a problem is reported once and not never |
| History, ledger, changes `history.py`, `ledger.py` | run files, totals, ledger | write, fold, prune, strip | file system | a crash counts no run twice and invents no upgrade |
| Web application `web/` | running subprocess, run records, tails, sessions | start a run, watch it, list, tail; edit configuration | driver, lock | a run is tracked until it ends |
| Configuration, models, log plugins `log_plugins.py` | files | validate, resolve evidence into one verdict | | a verdict follows from the evidence |
| Probes and discovery | none | one probe per call | guest | facts are as old as the code believes |

What is hard here: the guest writes, rotates and deletes its logs while they are
read, verified and pruned; manager and helper are separate processes and each may
die between any two steps; answers of Loki, of the helper and of Proxmox get lost
after the effect; checkpoints are updated in several transactions; a retry meets
the result of the attempt it retries; names (paths, inodes, the snapshot name) are
reused by later things; threads of a wave end in any order; nodes come and go
under a run; a decision is taken from a probe that is older than the command.
PROJECT.json lists every such place with its line under `hazards`, and the
properties that watch it.

## 2. The modules

Common conventions: constants named `Max...` are bounds, `Next` is a disjunction of
one action per step of the code, and a step ends where another actor can get in between
(an SSH call, a SQLite transaction, a system call of the helper). Variables marked
*observation* or *ghost* in a module are history that properties speak of; no action
of the system reads them. An operator `Name_Variant` is a plausible wrong form of
`Name`; it documents which mistake the properties would catch, and no specification
uses it. Two modules whose theorems share a proof module share no name either: the
specification of NativeRetention is `NativeSpec`, that of RunControl `ControlSpec`, that of
UpdateFlow `FlowSpec`, and their `Init`, `Next` and `TypeOK` are called alike.

### Retention, RetentionMC, Retention_proofs

One guest's logs, the manager's retention run and the helper's prune call.

* `orig`, `quar`, `data`, `writer`: the file system (paths of one rotation family,
  inodes that are reused, content versions, open writers). `Create`, `WriteLog`,
  `Rotate`, `RemoveLog`, `OpenWriter`, `CloseWriter` are the guest.
* `row`, `intent`: the checkpoint. `mpc` and its neighbours: one manager run, from
  `StartRun` over `ImportFile` (what the import vouches for), `RecoverChunk`
  (open intents of earlier runs), `PlanChunk`, `RecordIntent`, `CallPrune`, `Resolve` to
  `EndRun` and `PurgeTombstone`. The intent id is (path, inode), as in the code, and a
  record of an id that exists returns what exists.
* `hpc`, `hcur`, `hwait`, `outcome`: one helper call (`_prune_one`): first look,
  rename, `_quarantine_recheck` in two steps (stat and writers, then digest),
  unlink or `_restore_or_retain` in two steps, and `_recover_leftover` for a file
  found in quarantine. Manager and helper die independently; a helper call
  survives its manager.

### ArchiveImport, ArchiveImportMC, ArchiveImport_proofs

The import of one rotation family. A log is a sequence of distinct units, so a
prefix is its own digest. Rows carry the fields that the code decides by: offset,
digest, `ack`, `done`, the completed and the verified size, `conf` (prefix
conflict), generation. The run goes capture (`BeginCapture`, `SpoolBlob`,
`FinishCapture`), resume of a saved batch (`PushBatch`, `AckBatch`, the three
`Rebuild` steps for one older than a day), planning (`BeginPlan`, `PlanWire`,
`PlanBlob`, `EndPlan`), then per plan `VerifyPrefix`, `SaveDigest`, `ReadSource`,
`SaveBatch`, `PushBatch`, `AckBatch`, `MarkComplete`, `MarkDigest`,
`MarkAcknowledged`, and last `ReleaseBlob`. Every checkpoint transaction is a
step and `Crash` may come after any of them.

Retention and ArchiveImport meet in `Retention.ImportFile`: it offers a file with a
digest of archived content in one step. `ArchiveImport.CoveredMeansArchived` is the
property that justifies it.

### LogStream, LogStreamMC, LogStream_proofs

How bytes reach the importer, below the level of ArchiveImport: the helper's
snapshot of ranges (`Call`, `Replies`), the reader that asks in windows, the pool
that batches frozen ranges into one transfer and falls back to single fetches
(`FetchServed`, `FetchBatch`, `FetchOne`), the decoder (`Pull`, `EndOfStream`) and
the cut into fragments at line, byte and entry limits without splitting a character
(`Chunk`, `SafeEnd`, `Fit`, `Yield`). `Flush` saves the row. A byte is one of seven
classes, those the code tells apart; of a compressed blob the decoded bytes are the
others than its end marker (`Decoded`). Logs grow, rotate and are truncated, blobs rot or
vanish, transfers return the wrong thing (`Garbled`) or nothing.

### LogAccess, LogAccess_proofs

One log source from measurement to verdict to repair. `ReadEnv` to `MeasureFiles` are
the helper's system calls, in the order of the code; the guest may change before each
(`ChangeFile`, `ChangeRoot`, `ChangeExact`). `Computed`, `Contradictory` and
`Resolved` are the manager's cross-checks and its verdict; `StartRepair` to
`FinishRepair` are the ACL repair with its open descriptors (`held`), after which the
source is measured again.

### Pipeline, Pipeline_proofs

One maintenance pass over one container: preparation (probe, install, measure,
validate the candidate, repair access, write and load the environment drop-in), the
Alloy reconciliation (`Before`, the five `Task...` steps of the playbook, `Final`,
`Verify`), cache cleaning (`CacheLook` to `CacheRecord`), and the gates of import and
retention. Every command may fail before or after its effect; the manager may die;
the guest changes by itself; a second run starts from what is left. `LogAccess`
decides the verdict, here `Verdict`; import and retention appear by their outcome.

### NativeRetention (proofs in Retention_proofs)

The stages of `apply_guest_retention` before any file is pruned: `Ready` and
`FirstMarkers` (readiness of Loki, delivery proof or its reuse), `WriteJournald` and
`RestartJournald` (the drop-in), `ReadNative` to `WriteNative` (`_apply_npm_cutover`: the
logrotate stanzas of Nginx Proxy Manager are saved, copied into the manager's policy and
taken out of the native file), `LookBefore`, `Reopen`, `Reopened`, `Rotate`, `LookAfter`
(a proxy that still writes to a rotated log is found before and after the rotation),
`Fresh`, `SecondMarkers`, `Persist`, `Match` (policies are probed again and the proof
stored), `Authorize1`, `Authorize2`, `Vacuum`, `After`. `guest` is what is installed,
`proof` the verification in the store, `run` what one run knows. Every command may fail
before or after its effect, which also stands for the death of the manager; between any
two the guest rotates, packages write stanzas, somebody edits, applications come and go,
Loki stops answering. Some reasons to fail do not pass by themselves, and end every run
until somebody removes them: a PBS without a task log inside the retention window has no
task line to prove its delivery by (`HasTaskLine`, `guest.tasks`), a manager's policy that
cannot be parsed is nobody's to guess (`guest.garbled`), and in a guest that is `sick`
(a full disk, a stopped application) anything may fail at any time, at no cost to the
bound on faults. Retention goes on at `Prune`.

### DiskUsage, DiskUsageMC, DiskUsage_proofs

The `disk_usage` operation: the forked worker (`Start` to `Exit`, one step per
descriptor that is opened and checked, per entry and per write to the pipe) and the
parent (`Select`, `Read`, `Reap`, `Drain`, `Terminate`). The guest removes, links and
replaces files and mounts file systems under the walk; reads fail; the worker may hang
in a system call that no signal ends (`Hang`).

### UpdateFlow (proofs in FleetRun_proofs)

The update of one guest, run after run, for the three flows that share the frame
(`kind` is "lxc", "vm" or "custom"). The disk is a version number, every change
raises it, and going down is a rollback. `own` remembers the last version the guest
made by itself, between runs. `snap` is what BEFORE_UPDATE_AUTO holds and `task` a
Proxmox task (create, delete or rollback) whose client has given up: it ends, with
its effect or without, at any later point (`TaskEnds`), also in a later run, and
while it is a rollback the guest is locked. `TakeSnapshot` is one attempt
of `snapshot_with_retry`; `CallRaises` is the one way into the rescue that any
call of the try block has; `OsUpdate` and `AppUpdate` (container) go on after a
failure and record it, `Upgrade` and `RunSteps` raise. `Rescue`, `Poll`,
`DeleteSnapshot`, `StopAgain` are the except and finally blocks, and `Killed` is
the end of the manager process, which no finally block survives. `run.broken` is an
observation of the model, set where an update step fails.

### NodePhase, FleetRun, FleetPromise, FleetRunMC, FleetRun_proofs

`NodePhase` is `run_node_phase` with `run_node_update`: probe for the manager's
container, apt with retries, diagnostics, reboot, settling, re-check, record; then the
manager's own update. `FleetRun` EXTENDS it with the rest of `run_fleet`: pre-flight,
the phases in order, discovery and quorum, resolution of VMs over clusters, canary
waves on a pool of `Forks` threads, soak, dependencies and windows, the final report.
Nodes stop and start answering at any time (`Flap`), and a remote call may never return
(`Calling`, `NodeCalling`: the steps at which the main thread waits for one). The flow of one host is its
outcome here; `UpdateFlow` has its steps. `batches` is what is left to hand to the thread
pool: one set of hosts per pool, also where a pool has nothing to do, which is over at
once. A host is an entry of the inventory: a name that is in two groups is two hosts.
`FleetPromise` is the abstract specification a run implements (section 5).

### RunControl, RunControl_proofs

The fleet-wide flock, its payload, command-line runs with Ctrl-C (`Interrupt`,
`WorkerEnds`), and the dashboard's run manager: `start` with its mutex and probe,
detached processes, watcher threads (`Publish`, `Unclaim`), the repair of orphaned
records when they are listed, tails (`OpenTail`, `Drain`, `Poll`). Any process may be
killed and the dashboard restarted. Whether a process is dead the dashboard learns by
signalling its pid (`PidAlive`), which also finds a child nobody has waited for and
another process with a recycled pid: `PidLingers` puts such a run into `undead`, for as
long as it likes (`PidFreed`).

### RunRecords (proofs in RunControl_proofs)

What runs and scans leave on disk, for the three kinds of job that write: run
files with pruning and stripping, totals, ledger, the reminder state, the alert
streak. Files that the code truncates and then writes are torn by a death or a full
disk (`Open`/`Close`, `Die`, `WriteFails`); files that it replaces are not. For the
alerts, reading the failure counter, saving it and sending the briefing are three things
that may go wrong or be cut off separately: the counter may be unreadable for once or for
good (`CountUnread`, `Spoil`), not be saved (`CountKept`), and the run may die before
`Dispatch`, which alone ends a silence. The ledger drops what is beyond its cap
(`Newest`, `EventsCap`).

## 3. The runs

| Run | Question | Bounds | States |
|---|---|---|---|
| `retention` | Are deletions archived, outcomes true, and quarantined files recoverable? | 2 paths, 2 rows, 2 versions, batches of 2; one inode with everything, or two without writers | 5.08 M |
| `archive_import` | Do coverage, release and progress follow Loki, as long as every file has a row of its own? | 3 paths, 4 rows; one log file at a time with 3 writes, or two with 4 | 4.52 M |
| `import_shared_row` | The same if planning gives two files one row? (no) | two log files | trace |
| `update_flow` | Are updates protected or warned of, rollbacks to the right state, and reports true? | all kinds, 2 attempts, 5 versions | 568 k |
| `fleet_run` | Do canaries go first, exit codes tell the truth, runs end unless a call hangs, and is the promise kept? | 3 nodes in 2 clusters, 12 hosts, 2 threads, 2 outages, 11 requests | 275 k |
| `run_control` | Is there one run at a time, and does the dashboard tell what became of it? | 1 shell run, 2 dashboard runs, 1 page, 1 tail, 2 faults | 806 k |
| `run_records` | Do totals, reminders, alerts and ledger survive deaths and full disks? | 4 jobs, 2 faults, 2 run files and 2 events kept, streak of 2, 4 versions | 6.30 M |
| `log_access` | Does the verdict on a log source fit the guest, and do grants stay inside? | 2 names, 1 kept, 2 oddities, 2 changes | 3.37 M |
| `pipeline` | Does a pass leave what it calls effective, and delete only on fresh facts? | 2 oddities, 2 runs, 1 fault, 1 change | 3.01 M |
| `native_retention` | Is a journal vacuumed on proof only, do logs keep policy and tail, and do runs come through? | 2 stanzas, 2 configurations, 1 fault, 2 changes | 1.71 M |
| `log_stream` | Does every byte arrive once, in order, under its line number? | 3 blobs and the live log, window 4, 2 runs, 1 fault, 2 changes | 2.55 M |
| `disk_usage` | Is a report never too large, a complete one never too small, and does the call end? | 2 directories, 2 files, 5 entries, 1 row, 1 change, 1 error | 2.27 M |

Why these bounds are enough to matter.

*Retention*: the hard cases need a path taken over by another inode or an inode found
at another path (two of one, one of the other: rotation), two versions of a file, two
rows that both could prove an intent, a batch in which one file blocks the other, and
two runs; the runs themselves are not bounded, only the number of versions ever
written. The instance is the union of two (`RetentionMC`): with one inode everything
may happen; with two, open writers and calls that outlive their run are left out.
*ArchiveImport*: the instance is the union of two (`ArchiveImportMC`). With one log file,
three writes give a completed prefix, a grown file, a rewrite or a second generation; with
two, rotation, replacement and the reuse of paths meet rows of both, and four writes let
either file change after it was imported (the initial capture and logs that stay open
during a run are then left out). The number of runs and crashes is unbounded. The second
part goes no further than a plan in which two files share a row (`OwnRows`): the run
`import_shared_row` shows what follows then.
*UpdateFlow*: five versions let the guest change, a run change it in two places, an
earlier snapshot be left behind, and a second run roll back; two attempts are the
first and the retry that meets its result.
*FleetRun*: with two nodes in a cluster quorum can be lost and regained, a vmid exists
in both clusters, three custom hosts make a chain and a cycle of dependencies, two
threads interleave canaries of several hosts, and the eleven requests (`MCOptions`)
switch on each phase, limit, mode and override that the code branches on.
*RunControl*: three competing runs and one page that probes are the smallest case in
which a refusal, a probe and a holder meet; two faults are a killed run and a restart, or
a watcher that cannot be started and a pid that lingers.
*RunRecords*: four jobs exceed the two files kept, so pruning, stripping and reseeding
of torn totals happen, and a streak of two is reached, reported and begun again; a run
that dies untold is followed by one that makes up for it. Four versions allow three
upgrades, one more than the ledger's two events.
*LogAccess*, *Pipeline*: an oddity is one way in which the starting guest or its settings
differ from a plain converged one; all pairs of oddities are initial states. One change or
fault per step boundary, at every boundary, finds what needs one coincidence; two changes
(LogAccess) find what needs an object replaced and put back.
*NativeRetention*: two stanzas make a cut-over in which one is read and another appears;
a fault leaves any half of a run behind for the next one, one change meets it there and
another one comes after; the number of runs is not bounded.
*LogStream*: the texts hold lines longer than a fragment and than a window, entries that
must shrink, characters on every cut and a compressed log without its end; three blobs
make batches of two and three; two runs resume. One blob is nearly three windows long, so
that a run can end in it, the disk decay behind what was read, and the next run go on.
*DiskUsage*: a file that is linked in two directories, one that is replaced, a mount over
either directory, and more rows than fit. The walk halts as soon as it has visited as many
entries as it may, so that five are the least with which a walk over all four names can be
complete; one that the limit cuts short takes the same steps as one that the deadline does,
which comes anywhere (`Over`).

Deadlock is checked except in `retention`, where the guest at its bounds with an empty
family really may stop (`CHECK_DEADLOCK FALSE`). Modules whose bounded program has a
proper end have a stuttering `Done`, `Rest` or `Exited` that is enabled only there.

## 4. The properties

Retention
* `NoUnarchivedErase`: the helper never unlinks bytes Loki has not acknowledged.
* `ResolvedMeansGone`: an intent resolved done or absent is true and stays true.
* `QuarantineRecoverable`: while a quarantined file's intent is pending the row that
  proves it survives purging.

ArchiveImport
* `CoveredMeansArchived`: what authorises a deletion is a digest of the file's size all of
  whose units are in Loki.
* `ReleasedMeansArchived`: a frozen copy is given up only when Loki has all of it.
* `PendingContinues`: a saved batch starts where its row's progress ends.
* `NothingSkipped`: with the batch about to be sent Loki has everything up to its end.

LogStream
* `NothingLostOrDoubled`: the fragments put together are what was written, up to the
  row's offset, however windows, batches, fragments and runs cut the stream.
* `CompleteMeansAll`: a source is complete only when all that was recorded is archived.
* `LineNumbers`: every fragment has its line's number and its index within the line. Of a
  blob that decayed this is said once it is complete: the bytes are checked at its end,
  and what was sent until then stays sent.

LogAccess
* `NeverContradicts`: no behaviour of the guest makes the evidence contradict itself.
* `VerdictMatchesGuest`: if the guest held still, the verdict is the one an independent
  reading of the file system (`Deserved`) gives; a measurement cut short never ends in
  "active" or "quiet"; after a repair access is not what is missing.
* `GrantsStayInside`: no grant reaches a file outside the declared root.

Pipeline
* `EffectiveVerified`: a run that ends with an effective configuration leaves exactly
  that one on the guest, service running and every collected source readable.
* `RetentionOnFreshFacts`: retention never plans from a probe older than the run's last
  change of the configuration.
* `CacheCadence`: a cache is cleaned twice in one window only after a lost note.
* `DryRunTouchesNothing` (action property): a dry run changes nothing.

NativeRetention
* `VacuumOnProof`: when the journal is vacuumed, a run under this configuration and these
  policies saw its markers in Loki: the journal's, and one through an application if
  the guest has one that counts, whatever was reused, edited or lost since.
* `PolicyKept`: no log with a rotation policy is left without one at any step of the
  cut-over, also when a run dies in it or a package writes its stanzas meanwhile.
* `TailKept`: the manager's rotation never compresses a log the proxy still writes to, also
  after a run that died between rotation and reopening.
* `Converges` (liveness): if Loki answers and the guest is not sick, has policies that can
  be parsed and, as a PBS, a task log inside the window, then runs come through again and
  again, whatever earlier ones left half done. Each condition ends every run that lacks
  it, at the lines `map` names for `HasTaskLine`, `ReadManaged` and `Policies`.

DiskUsage
* `NeverOvercounts`, `CompleteMissesNothing`: no row counts more inodes than were below
  it during the walk; a complete result misses none all of whose names were there
  throughout.
* `ParentEnds` (liveness): the call ends, also when the worker hangs for good.

UpdateFlow
* `ProtectedUnlessWarned`: every update step of a run that wants a snapshot has a
  snapshot of the very state the run started from, or the warning is out. Lost
  answers, late tasks and leftovers of killed runs are in the model.
* `OwnWorkKept`: what the guest did between two runs is never rolled back, neither by
  a run that takes a left-over snapshot for its own nor by a rollback that ends
  after the run which asked for it.
* `ConfirmedRollback`: VMs and custom systems reported as rolled back are.
* `BrokenMeansReported`: a failed update step never ends in a success.

FleetRun
* `CanariesFirst`: no host outside the canaries is worked on before every canary of its
  phase came to a good end.
* `CleanExitMeansClean`: exit status 0 and the dead-man's switch tell the truth.
* `RunEnds`, `ManagerStillUpdated` (liveness): every run ends whatever nodes do, and the
  manager updates itself even after an aborted node loop, unless a remote call hangs for
  good: one of the main thread (`MainHangs`) or the flow of one host.
* `KeepsPromise`: the refinement of FleetPromise.

RunControl
* `OneRunAtATime`: one process at most is in the body of a run, and it holds the lock.
* `OneDashboardRun`: of the dashboard's recorded runs one is alive at most.
* `DoneMeansAll`: a tail that says "done" has delivered the whole log of a dead process.
* `TailEnds` (liveness): every tail ends or dies with the dashboard, unless its run stays
  in its body for ever, or is dead and its pid reads alive for ever.

RunRecords
* `TotalsHonest`: totals never count a run twice, and miss none without a fault.
* `SilenceBounded`: maintenance never fails a threshold of times in a row in silence, also
  when its counter cannot be read or saved. Not counted are runs that die before they
  could tell: those that died before their failure was saved, and those that died between
  that and the dispatch. The latter the next failing run that comes through makes up for.
* `LedgerTellsTruth`: without faults the ledger has the newest `EventsCap` of the upgrades
  two scans saw, in order, and it invents none whatever fails.

Defined beside them and not part of a run: the type invariants of the modules
(`TypeOK`; proved for every module but NodePhase, RunRecords and FleetPromise, and for
NodePhase as part of FleetRun's), `UpdateFlow.RollbackToOwnBase` (proved),
`Pipeline.ValidatedFirst`, `LogStream.BatchCostsOne`, `RunRecords.RemindedMeansSent`,
`UpdateFlow.UpdatedMeansUp`, `Retention.QuarantineOnRecord`,
`ArchiveImport.CompleteMeansArchived` (proved), `Pipeline.ErrorsSurface`, `RunControl.StatusKept`
and `LogStream.WholeCharacters`. They hold on the same instances (add them to the
`INVARIANTS` or `PROPERTIES` of the module's .cfg) and are implied by, or shallower than, the ones above.

## 5. Fairness and refinement

Safety is checked without fairness. Liveness is checked where the code provides what it
needs, and fairness is stated for that only:

* `FleetRun.Fairness`: the operating system schedules threads, so the main thread is
  weakly fair in its local steps, and a worker takes the next host. Nothing makes a remote
  call return: `invoke_primitive` runs Ansible without a timeout (`runner.py:177-186`), no
  caller of `run_concurrent` passes its own, and its docstring warns that a hung session
  blocks the phase (`orchestration.py:59-65`). So the steps in which the main thread waits
  for a machine (`Calling`) and the end of a host's flow (`End`) have no fairness, and the
  properties name the hang as the only way out. Outages (`Flap`) have none either: a node
  need never come back. The wait for a port (`settle`) has a deadline and is fair.
* `RunControl.ControlFairSpec`: a process that starts gets to its body, threads of the dashboard
  and its requests are scheduled. A tail polls every half second, so it reads the record
  again and again: `Poll` is strongly fair, as the record is in between rewritten by
  others. Nothing is assumed of a run's body, of kills, restarts, new runs or Ctrl-C, nor
  that a lingering pid is ever freed.
* `DiskUsage.FairSpec`: weak fairness of the parent's steps and of time. The worker has
  none, since it may hang for good; that the parent ends nevertheless is the property.
* `NativeRetention.NativeFairSpec`: weak fairness of the manager: its timer starts a run every
  hour (`install.sh:214`), and systemd kills one that hangs (`TimeoutStartSec=3600`,
  `install.sh:204`), which is a step that fails. Which of its outcomes a step has is free;
  faults and changes are bounded in number. A guest on which calls hang or fail in every
  run is `sick`, and the property excludes it. Those of the guest and of Loki are not fair.

What must eventually happen elsewhere (a backlog is archived, a gate opens) depends on a
reachable node and on a schedule that the code does not provide. Where it fails forever
for a reason in the code, a property states it as safety over the state it can no longer
leave (`ArchiveImport.CompletedGateAdvances`, `KeptPrefixNoConflict`).

`FleetPromise` says what a run promises whatever its threads, waves and phases do: every
unit is dealt with at most once; phases do not overlap; the rest of a phase waits for its
front; a dependent waits for what it needs; of the exclusive units (nodes) one runs at a
time and none after one failed; the verdict comes last and calls a failure a failure.
`FleetRun` maps its `fate` and the node phase's `status` to `deed`, the canaries of an
update run to `front` (not those among the custom hosts: `run_custom_phase` knows none,
and one of the instance's custom hosts is a canary by name), the dependencies of custom
hosts to `needs`, and exit status to `verdict`. `KeepsPromise == Promise!PromiseSpec` is
checked as a PROPERTY and proved (section 6): every step of a run is a step of the
promise or leaves it alone.

## 6. The proofs

Eight modules named `..._proofs`, checked by TLAPS for all values of the constants that
satisfy the modules' assumptions (numbers of paths, inodes, rows, attempts, versions,
stanzas, configurations, processes, tails, runs, hosts, nodes, threads, texts, windows,
limits, files, faults and changes are arbitrary, and so are trees, inventories and requests).
They hold 50 theorems and 641 lemmas. Of the safety properties that the runs check all are
stated by a theorem.

**Retention** (`TypeCorrect`, `NeverErasesUnarchived`, `Inductive`,
`AlwaysResolvedMeansGone`, `AlwaysRecoverable`). The inductive invariant is

    IInv == TypeOK /\ ProofsArchived /\ LinkedOnce /\ HelperKnows /\ NoUnarchivedErase

`NoUnarchivedErase` alone is not inductive: the unlink trusts what earlier steps of
the helper established. `HelperKnows` says what that is, at each of its steps: the
inode in quarantine is the authorised one, has no writer, and, after the digest was
read, holds the authorised body. It survives the guest's steps only because a file in
quarantine is linked nowhere else (`LinkedOnce`), so nobody can open or write it.
That the authorised body is archived comes from `ProofsArchived`: rows, coverage,
batches and pending calls all carry archived bodies. A restore keeps
`LinkedOnce` even where it replaces a file: the rename removes that file's only link.

What is said of intents needs time. `VersionsPast`: every version that a row, a
coverage, a batch or an intent records is older than what its inode holds now, or is
that very version and has not moved below the recorded path. A step of guest or helper
only lets an inode age (`Ageing`): it gets a newer version, or its file moves to higher
paths. So what has left its path (`Gone`) never returns, although the inode may, and
`ResolvedInv` follows the outcome from the helper's report over its reply to the intent;
`AlwaysResolvedMeansGone` is its end. `PendingInv` says that a pending intent still has
the row that proves it, or that its file has been written to since; the hard step is
an import that rewrites the row, which it does only for a version newer than the intent's.

**ArchiveImport** (`TypeCorrect`, `AlwaysReleasedArchived`, `AlwaysPendingContinues`,
`AlwaysCoveredArchived`, `AlwaysCompleteArchived`, `AlwaysNothingSkipped`). Four
invariants, each resting on those before it:

* `TypeInv`: besides the types, that what rows, plans and batches refer to is there,
  and that generations are bounded, so that the id of a next generation exists.
* `BlobInv`: a row with a frozen copy has progress that is archived *in that copy*, and
  its blob is given up only after all of it. It holds whatever the guest does, also
  with `Interfere`: a captured copy never changes.
* `OwnInv`: a plan's position and the saved batch's start are the row's offset, from
  planning to the acknowledgement, over a resume and a rebuild too. It needs `[]OwnRows`
  (no two planned files have one row), which is not always so: `import_shared_row`
  (section 7) ends in a state without it. The run keeps to the same condition.
* `ContentInv`: what a row's progress says of the guest's files. It is not said of what
  the file holds now, since it may grow, rotate or vanish at any time: if the inode
  *still starts with the row's digest* (`Shows`), everything of that digest up to the offset is
  in Loki; a completed prefix is in Loki for good (`Progress`, `BlobProgress`); an
  acknowledged and completed row has the digest of just what it covers (`AckSize`, which
  a crash between the three transactions of a completion must not break). A prefix that
  was verified hands this on to the source that is read (`Verified`, `ReadOK`, `GotOK`),
  and a batch carries it over a lost answer (`BatchOK`). The guest's steps keep it because
  what is written later than a digest is none of it (`Old`, `Grows`), and an inode that
  comes back holds other content. It needs `~ Interfere`, as the run has it: between
  two reads of one file by the import nobody rewrites it in place; section 7 tells what
  happens otherwise.

`TypeInv` and `BlobInv`, and so `AlwaysReleasedArchived`, have no condition.

**UpdateFlow** (`TypeCorrect`, `AlwaysProtectedUnlessWarned`, `AlwaysOwnWorkKept`,
`AlwaysRollbackToOwnBase`, `AlwaysConfirmedRollback`, `AlwaysBrokenReported`). The
inductive invariant is

    SnapshotInv == OwnSnapshot /\ OwnWorkSafe

`OwnSnapshot` says what a run knows of the snapshot: before it nothing is taken or
warned of (`Fresh`), and the guest is as found unless a late rollback has ended, whose
snapshot then stands in the way of a new one (`FoundAsIs`); a snapshot reported as
taken is of the state found *and no task is running that could replace it* (`Owned`);
from then on the run has it or has warned (`TakenOrWarned`); a rollback whose result
is awaited has restored the base (`PolledIsBack`). `Owned` carries the argument:
`snapshot_with_retry` stops only at a call that reports a change, Proxmox reports one
only if the name was free and no task held the lock, and nothing but the run's own
deletion touches the snapshot afterwards. `OwnWorkSafe` adds that a run starts with
all of the guest's own work in its base, and that a rollback which outlives its call
goes no further back than that work and keeps the guest down: the lock of Proxmox is
what makes the late rollback harmless. `BrokenKnown` is the invariant of the reports: a
container goes on after a failed step only with an error on record, and the other flows
leave for the rescue, which has no success to report.

**NativeRetention** (`TypeCorrect`, `AlwaysVacuumOnProof`, `AlwaysTailKept`,
`AlwaysPolicyKept`). Three invariants, one per theorem. `ProofInv`: the proof in the
store is none or is backed by deliveries that were seen, with the same configuration
and policies; a run that is about to store one has seen the journal arrive; and at a
vacuum the proof matches what the run probed, because only `Authorize` leads there and
neither guest nor world can change proof or run. `TailInv`: a run comes to the
rotation only from a look that found no writer in a rotated log, and from then on only
the guest's own rotation could put one there, which the property excuses. `PolicyInv`
follows the cutover: the native file has all that is governed or nothing, and then the
manager's policy has it; a run writes what the native file still has at least; and it
empties that file only while the manager's policy has the very same stanzas. The
theorem assumes `~ Partial`, as the run does: stanzas come back together, and nobody
removes the manager's policy between its writing and the emptying of the native file
(the last command trusts the one before).

**Pipeline** (`TypeCorrect`, `AlwaysRetentionOnFreshFacts`, `AlwaysEffectiveVerified`,
`AlwaysCacheCadence`, `AlwaysDryRunTouchesNothing`). One invariant per theorem; each is
about where a run can be with what it knows, because a stage trusts the gates before it.
`FreshInv`: import and retention are reached only with a fresh probe, and retention
only past an import that is not pending, or in a dry run. `CacheInv`: the steps that
clean are reached only outside the window, and one cleaning beyond those whose note was
lost is noted or about to be. `DryInv`: a dry run never comes to a step that writes,
and audits only if it is dry; the theorem, about steps, follows with the types.
`VerifiedInv`: no result before preparation ends, verification is reached only from a
last look without drift, and a result stays true of what was seen as long as the guest
does not change by itself. It needs `DryInv`: only a dry run takes the
short way over the audit, and the property is about the others.

**RunRecords** (`AlwaysSilenceBounded`, `AlwaysTotalsHonest`, `AlwaysLedgerTellsTruth`).
`SilenceInv` relates the silence, which only a dispatch ends, to the streak on disk. The
streak is at least as long as the silence, without the runs that died uncounted; a failure
that is decided not to be told has its count saved and below the threshold, so that only a
death after the decision can carry the silence to it; and a counter that cannot be read or
saved makes its failure told: a bad disk costs alerts too many, never one too few.
`DiskInv` is about the files, also while one of them is open and torn. Totals that are torn
are reseeded from the run files, so `CountInv` bounds both: no more run files are readable
than runs were written (one less while `strip` has one open), and the totals say no
more than the runs they can know of (`Told`), exactly that many without faults. Its
lemmas count the readable files of a directory that gets one more, loses one or has one
rewritten. `LedgerInv` says that the ledger, on disk or about to be written, is
`Faithful`: nothing but what it was told, and the newest of it if nothing failed. That the
list is cut at each upgrade, and not once at the end, makes no difference (`NewestAgain`).

**RunControl** (`TypeCorrect`, `AlwaysOneRunAtATime`, `AlwaysOneDashboardRun`,
`AlwaysDoneMeansAll`, `AlwaysFinishedMeansGone`). `OneRunAtATime` is inductive given
the types: the lock is taken only when free, and lost only with its holder's body.
What the dashboard says needs

    WebInv == Types /\ RecordsTrue /\ OneInFlight

`RecordsTrue` says that a run that `start` is about to spawn has no process yet, that
only what has ended is called finished, and what a tail knows at each of its steps: it
has seen the end of the process *before* it read the log to its end. `OneInFlight`:
one record at most is without an end, and none while `start` is on its way to making
one, which its mutex and the order check, spawn, record give.

**FleetRun** (`TypeCorrect`, `AlwaysCanariesFirst`, `AlwaysCleanExit`,
`RunKeepsPromise`). One invariant carries all:

    RunInv == DriverTypes /\ QueueInv /\ PhaseInv /\ DiscInv
              /\ CanaryInv /\ FailInv /\ ReportInv /\ NodeInv

`QueueInv`: the pools left to run hold hosts of this phase, each once, in the order of
the inventory for custom hosts, and nobody behind the first pool has begun. `PhaseInv`:
phases that are over left no host waiting or at work, later ones touched none, and in
a phase under way whoever is not in a pool has been dealt with; the container
phase needs `DiscInv` here, since only a container on a node of the node order
gets into a pool. `CanaryInv` is why canaries go first: in the canary stage only
canaries are in pools, and a failed one is known to the gate or still in its pool;
once the gate is passed the phase is `Guarded`: the others are out of the question, or
the canaries are past all danger. That is kept by every thread because the two sides of
`Guarded` exclude each other's steps. `FailInv` and `ReportInv` follow a
failure to the exit status: it is in the totals, or in a pool that is not yet folded.
`NodeInv` is the loop of the node phase: one node at a time, each once, none after a
failed one.

The refinement maps each action to one of the promise: threads and custom hosts to
`Start`, `Finish` or `Skip`, a gate and a verdict of discovery to `Skip`, the end of
the node phase to `Skip` of those it never came to, the report and every abort to
`Conclude`. `HostMayStart` is its heart. That a dependent comes after what it needs
takes the order of the queue, `validate_depends_order` and `OrderInv` (a custom phase
that goes on was found in order) together: one that is still in the queue would be
behind its dependent, against that order. The assumptions are on the
inventory only: groups are disjoint, as entries are, a container's node is a node,
and Proxmox names (`Manager`, `None`) are no hosts.

**LogAccess** (`TypeCorrect`, `HonestHelperAccepted`, `VerdictIsDeserved`,
`GrantsInsideRoot`). One invariant:

    IInv == Types /\ Sane /\ Descriptors /\ Coherent /\ Measured /\ Followed
            /\ Granting /\ Repairing /\ NeverContradicts /\ VerdictMatchesGuest

The two halves of the argument are about different guests. `Coherent` says what evidence
an honest measurement can contain *whatever* the guest does between its system calls:
statuses, kinds and counts that go together. From it alone follows that the manager's
cross-checks find no contradiction, and that rolling the parts up never lowers the verdict
they give (`Told`). `Followed` says what the evidence is worth if the guest *held
still*: at each step of the measurement the parts already taken are those an independent
reading would give, so that `Computed(ev) = Deserved(guest)` at the verdict
(`ComputedIsDeserved`); a reply that was cut short gives neither "active" nor "quiet"
(`CutShort`). `Granting` does the same for the repair: what it has granted at each of its
steps, up to the second measurement, which so never finds access missing. `Descriptors` is
why grants stay inside: the repair holds descriptors of regular files below the root that
were opened without following a link, and a file that is replaced afterwards is another one.

**DiskUsage** (`TypeCorrect`, `AlwaysNeverOvercounts`, `AlwaysCompleteMissesNothing`).
That names form a tree is an assumption on the constants: every name has a depth greater
than its parent's. `Path`, a recursive function, is shown to be the set of names above a
name, and whatever fails for some name fails for one whose parent is fine (`Highest`). The
theorem on excess rests on `Upper`: a row has at most the inodes counted so far that had a
name below it, and every table that was said, is in the pipe or is held by the parent is
`Sound`, which stays so because `Seen` only grows. The theorem on omissions rests on `Lower`:

* `Covered`: as long as nothing made the walk partial, every file left alone is counted, or
  it is still ahead, below an entry of some frame of the stack or of the descriptor just
  opened. This has to follow a push, a pop and every entry that is passed over.
* `Tallied` and `Entered`: what was counted has a row in every directory above it, because
  those were entered, and so given rows, first; a row that did not fit has made it partial.
* `Intact` and `Looked`: an inode all of whose names were left alone is found under the
  name by which it is looked up.
* `Honest`: a message that says "complete" has it all, on the worker, in the pipe and at
  the parent. `Kept` only shrinks, so it stays true while the guest goes on.

**LogStream** (`TypeCorrect`, `AlwaysNothingLostOrDoubled`, `AlwaysCompleteMeansAll`,
`AlwaysLineNumbers`). The inductive invariant is

    IInv == Types /\ OnDisk /\ Recorded /\ Rows /\ Reaches /\ Indexed /\ Agenda /\ Kept
            /\ Reading /\ Buffered

`NothingLostOrDoubled` speaks of rows and of what was sent; a row is saved from a chain of
buffers, and the invariant follows the bytes through all of it. What is archived is
`Placed`: it is the decoded stream up to the row's offset, and every fragment stands at
its line. `Reading` says the same of the fragments taken and not yet sent; `Follows` says
that the line buffer holds what comes next in what was decoded, once the bytes a resumed
run must skip are skipped; and `Kept` says that a range the pool keeps is the first
window of its source. Every one of them has a second case: a blob that decayed (`Bad`) is
read with a wrong first byte (`Spoilt`), and then nothing is claimed but that it cannot
complete, since its digest, taken over the same bytes, will not match. A blob that
decayed after its first window was read falls under the first case. `Recorded` and
`Agenda` are why a run works on what it recorded: a live log only grows past it, is
rotated to its end, or is cut, and then the range is not readable. `Indexed` counts: the
index of a fragment is the number of those before it on its line, also where the line
began in an earlier run. `Reaches` carries the completion.

The lemmas are of three kinds. The decoder, the joining of fragments and the search for
an entry that fits (`Keeping`, `FlattenSeq`, `Fit`) are recursive functions; they are
shown to obey their definitions by building them one element at a time, and then to
take beginnings to beginnings (`DecodedBegins`), which is what lets a stream be
cut anywhere. `RepliesExact` and `Delivered` say what a call can give to whoever accepts
it: the bytes on disk, exactly, whatever the transport did. One lemma per action keeps the
invariant; those of the three ways to fetch share `ReceiveKeeps` and `GiveUpKeeps`, and
those of all ways a batch is sent share `SendFacts` and `FlushFacts`.

What the attempts at these proofs found. `CompleteMissesNothing` was checked with a limit
of as many entries as there are names, where no walk over all of them completes; with room
for one more TLC shows that an inode can be counted under one of its names, which is then
unlinked, and be missed in the directory of the other. What is promised is therefore said
of inodes all of whose names are left alone (`Held`). `LineNumbers` is false of a blob that
decays between two runs, as the longer text of the instance now shows (leave out the
exception and TLC violates it). The decoder's marker was taken out of uncompressed logs as well
(`Decoded`), and nothing said that the names of DiskUsage form a tree.

Only model-checked: liveness (`RunEnds`, `ManagerStillUpdated`, `TailEnds`, `ParentEnds`,
`Converges`), because fairness and ENABLED are outside of what the prover does. Induction
needs care: the library's induction theorems are stated for a predicate, which no installed
prover can instantiate. `Least` (from the well-foundedness of the naturals) and `Induction` are
stated for sets instead, and suffice for the recursive functions here. There are no
RECURSIVE operators: recursion is written as functions and folds.

## 7. Where code and text disagree

PROJECT.json quotes the lines. One disagreement has a run that ends in a trace:

* `import_shared_row`: planning chooses new source ids from the rows it began with, so that
  two files can be given one id, one row and one offset. The run ends in the coverage of
  one with the digest of the other; later on, units of the second are skipped and it
  becomes deletable (`DeletableMeansArchived`, without any interference).

The others are properties of their modules that TLC violates as well. To see a trace,
put the property into a .cfg with the constants of the module's passing run (for
`Pipeline.EffectiveMeansLoaded`: `MaxOddities = 1`, `MaxChanges = 0`).

| Property | What happens |
|---|---|
| `Retention.IntentBeforeQuarantine` | a second deletion of a (path, inode) that was resolved before runs without a pending intent |
| `Retention.RestoreNeverOverwrites` | a restore looks and renames in two steps and replaces a log created in between |
| `ArchiveImport.DeletableMeansArchived` with `Interfere = TRUE` | the prefix is verified in one read and the final digest taken from another; a rewrite between them becomes deletable |
| `ArchiveImport.KeptPrefixNoConflict`, `CompletedGateAdvances` | a crash between two transactions leaves an intact prefix in conflict, or a complete source unacknowledged, for good |
| `ArchiveImport.StaleBatchRebuilds` | the bytes of a stale batch are in the guest and its rebuild fails |
| `UpdateFlow.RolledBackMeansRestored` | a container whose rollback failed is reported as "FAILED + ROLLED BACK", and the snapshot is deleted |
| `FleetRun.ActsOnOwnVm` | with one cluster undiscovered, a vmid of two clusters is "unique" and the run works on the wrong VM |
| `FleetRun.ManagerNodeKept` | the probe for the manager's container fails on the manager's own node, which is then rebooted |
| `FleetRun.WorkIsReported` | a SystemExit of a later phase leaves finished work without a report |
| `NodePhase.SkippedNeverAnswered` | a node that was upgraded and stops answering is recorded as never reached |
| `RunControl.NeverTogether` | after Ctrl-C a worker thread goes on while another run has the lock |
| `RunControl.RefusedByARun` | a run is refused because a page of the dashboard probed the lock |
| `Pipeline.MaintenanceNeverInstalls` | Alloy disappears between two probes and a maintenance run installs it |
| `Pipeline.EffectiveMeansLoaded` | after a lost restart no later run sees a drift: the old configuration stays loaded |
| `NativeRetention.PolicyKept` with `Partial = TRUE` | a stanza that reappears alone in the native file replaces those that were moved earlier |
| `NativeRetention.ProofCoversProfiles` | the delivery proof of one application is reused for another |
| `NativeRetention.JournaldLoaded` | after a lost restart of journald no later run sees a drift |
| `LogStream.OwnFailuresOnly` | an unreadable blob fails the intact source before it in the batch, in every run |
| `LogStream.LineNumbersAlways` | a writer that goes on in a rotated log gets its line the number of the next one |
| `DiskUsage.FinalKept` | the worker reports and exits between a select and a waitpid: its last message is not read |

Read from the code, without a property: `rollback_command` runs with `pve_vmid` set when
the snapshot failed (`flows/custom.py:282`); "was not enforced" is said of a configuration
that was installed (`housekeeping.py:1577`); a full disk raises out of the notification
phase (`driver.py:1291`); a run whose watcher thread could not be started is never waited
for when it dies, so that `_pid_alive` (`web/runs.py:38`) takes the zombie for a living
run: its record stays open, its tail polls and `start` refuses every other run until the
child is reaped, at the latest when the dashboard is restarted.

## 8. Limits

* Retention: a second helper call on a guest starts only after the first ended;
  overlapping calls of two runs are not modelled. `ImportFile` is one step. The gates
  before the file phase, which only end a run early, are NativeRetention's.
* NativeRetention: a stanza is a log it names; nobody removes the manager's policy between
  the last two commands of a cut-over. One proxy writes to one log. The gates of endpoint,
  environment and access rights, which Pipeline and LogAccess establish, and the audit of
  a dry run are left out; which task log of a PBS is compared is left open.
* ArchiveImport: each read of a file and each probe is one step; the release on the
  node and its mark in the store are one step. Compression is LogStream's; PBS task logs,
  plugin sources and row aliases are left out. The identity of a numbered Nginx Proxy
  Manager family is always compatible, so that check is true.
* LogStream: one snapshot call is one step, since the helper fails it when a file changes
  under it; a flush is atomic (ArchiveImport has its transactions).
* LogAccess: one root with one pattern and one exact file; the directories above the root
  are their worst member.
* Pipeline: one log source and one cache. A reboot of the guest is one change.
* DiskUsage: every file occupies one unit; a mount covers one name.
* UpdateFlow: one guest at a time; it changes by itself only between runs, so a
  rollback that undoes the guest's own work of the same run is no violation (it is
  what a rollback is). A late task other than a rollback does not lock the power.
  Templates, vzdump contents, resource scaling and `rollback_command` are left out, as
  is which monitor is polled: a health check passes only if the guest runs.
  Housekeeping before a container's snapshot is one possible change of the disk.
* FleetRun: one run; the steps of a host are its outcome. The remote flow is one of the
  outcomes; NodePhase has the steps of a node.
* RunControl: sign-in, sessions and the editing of configuration are left out: requests
  that do not touch runs. RunRecords: one host and one manually updated system; the
  wording of a briefing and its transports are left out.

Not modelled: rendering, parsing and validation of configuration, inventories and
templates are data conversion and appear only where a decision depends on them.

## 9. Plan

Done: the modules above, with proofs of every safety property the runs check, and the
refinement FleetRun => FleetPromise. Left, in this order:

1. Overlapping helper calls of two runs in Retention.
2. An abstract archive (a unit is unarchived, archived or deleted, in that order),
   refined by Retention and by ArchiveImport, with the proofs.
3. Proofs of the properties defined beside the runs (`ValidatedFirst`, `BatchCostsOne`,
   `WholeCharacters`, `QuarantineOnRecord`).
