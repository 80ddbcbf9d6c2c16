----------------------------- MODULE UpdateFlow -----------------------------
(***************************************************************************)
(* The update of one guest, run after run: snapshot BEFORE_UPDATE_AUTO,    *)
(* update, reboot, health check, rollback on failure, snapshot deletion.   *)
(* Three flows share this frame and differ in what fails, what raises and  *)
(* what counts as a rollback: a container (flows/lxc.py), a VM             *)
(* (flows/vm.py) and a custom system (flows/custom.py).                    *)
(*                                                                         *)
(* A call to Proxmox may fail, succeed without saying so, or go on after   *)
(* its client gave up; an exception of the runner may end the try block    *)
(* at any call, and the manager may be killed at any point.  Only the      *)
(* snapshot and the guest outlive a run.  The guest's disk is a version    *)
(* number that every change raises: a lower number is a rollback.          *)
(*                                                                         *)
(* An operator named Name_Variant before Name is a plausible wrong form of *)
(* Name; nothing uses it, and the properties below are known to reject it. *)
(***************************************************************************)
EXTENDS Integers

CONSTANTS Kinds,      \* flows considered, a subset of {"lxc", "vm", "custom"}
          Attempts,   \* snapshot calls of one request: snapshot_retries + 1
          MaxVersion  \* bound on the changes ever made to the guest's disk

ASSUME UpdateAssumption ==
    /\ Kinds \subseteq {"lxc", "vm", "custom"} /\ Kinds # {}
    /\ Attempts \in Nat \ {0} /\ MaxVersion \in Nat \ {0}

VARIABLES
    kind,    \* the flow that updates this guest
    disk,    \* version of the guest's disk
    clock,   \* versions made so far
    own,     \* observation: the last version the guest made by itself
    alive,      \* the guest runs
    snap,    \* version held by snapshot BEFORE_UPDATE_AUTO, or NoSnap
    task,    \* a Proxmox task that outlived its call, of TaskKinds, or "none"
    pc,      \* where the flow is
    tries,   \* snapshot calls left
    run      \* what this run, or else the one before, knows

flowVars == <<kind, disk, clock, own, alive, snap, task, pc, tries, run>>

NoSnap == 0
TaskKinds == {"create", "delete", "rollback"}
FlowStatuses == {"none", "ok", "failed", "no snapshot", "rolled back"}
Run == [dry : BOOLEAN, wants : BOOLEAN, monitored : BOOLEAN,   \* settings
        wasStopped : BOOLEAN, base : Nat,                      \* as found
        taken : BOOLEAN, warned : BOOLEAN,                     \* snap_taken
        changed : BOOLEAN, errors : BOOLEAN,
        broken : BOOLEAN,    \* observation: a failed update step left its traces
        status : FlowStatuses]
NoRun == [dry |-> FALSE, wants |-> FALSE, monitored |-> FALSE, wasStopped |-> FALSE,
          base |-> 1, taken |-> FALSE, warned |-> FALSE, changed |-> FALSE,
          errors |-> FALSE, broken |-> FALSE, status |-> "none"]

Updating == {"alloy", "os", "app", "upgrade", "steps", "reboot", "health"}
TrySteps == {"backup"} \cup Updating    \* calls that may raise into the rescue
Closing  == {"cleanup", "stop"}

FlowPlaces   == {"idle", "introspect", "snapshot", "report", "rescue", "poll"}
                \cup TrySteps \cup Closing

Counts ==
    /\ clock \in Nat /\ snap \in Nat /\ snap <= clock
    /\ disk \in Nat /\ disk > NoSnap /\ disk <= clock /\ own \in Nat
    /\ task = "rollback" => snap > NoSnap
    /\ tries \in Nat /\ tries <= Attempts
Tags ==
    /\ kind \in Kinds /\ alive \in BOOLEAN
    /\ task \in TaskKinds \cup {"none"} /\ pc \in FlowPlaces
RunKnown ==
    /\ run \in Run
    /\ pc \in Closing => run.status # "none"
    /\ pc \notin Closing \cup {"idle"} => run.status = "none"

\* Type invariant: a run has a status exactly in its closing steps, and no
\* version on disk or in the snapshot is younger than the clock.
FlowTypeOK == Counts /\ Tags /\ RunKnown /\ run.base <= clock

FlowInit ==
    /\ kind \in Kinds
    /\ disk = 1 /\ clock = 1 /\ own = 1 /\ alive \in BOOLEAN
    /\ snap = NoSnap /\ task = "none"
    /\ pc = "idle" /\ tries = 0 /\ run = NoRun

-----------------------------------------------------------------------------
(***************************************************************************)
(* The guest between runs, and Proxmox tasks that outlive their call.      *)
(***************************************************************************)
\* A running guest's disk is changed, or was not touched after all.
Touch(running)    == running /\ clock < MaxVersion /\ clock' = clock + 1 /\ disk' = clock + 1
MayTouch(running) == Touch(running) \/ UNCHANGED <<disk, clock>>

\* What may become of its power: nothing while a rollback holds its lock.
Power(outcomes) == IF task = "rollback" THEN {alive} ELSE outcomes

\* The guest works, and its owner starts and stops it.
GuestLives ==
    /\ pc = "idle"
    /\ \/ Touch(alive) /\ own' = disk' /\ UNCHANGED alive
       \/ alive' \in Power({~ alive}) /\ UNCHANGED <<disk, clock, own>>
    /\ UNCHANGED <<kind, snap, task, pc, tries, run>>

\* A task whose client gave up ends, with its effect or without; until then the
\* guest is locked.
TaskEnds ==
    /\ task \in TaskKinds /\ task' = "none"
    /\ \/ UNCHANGED <<disk, snap, alive>>
       \/ task = "create"   /\ snap' = disk /\ UNCHANGED <<disk, alive>>
       \/ task = "delete"   /\ snap' = NoSnap /\ UNCHANGED <<disk, alive>>
       \/ task = "rollback" /\ disk' = snap /\ alive' \in BOOLEAN /\ UNCHANGED snap
    /\ UNCHANGED <<kind, clock, own, pc, tries, run>>

-----------------------------------------------------------------------------
(***************************************************************************)
(* Up to the snapshot.                                                     *)
(***************************************************************************)
StartRun_KeepsRun(dry, wants, monitored) ==
    /\ pc = "idle"
    /\ run' = [run EXCEPT !.dry = dry, !.wants = wants, !.monitored = monitored,
                          !.base = disk]
    /\ pc' = IF kind = "lxc" THEN "introspect" ELSE "backup"
    /\ UNCHANGED <<kind, disk, clock, own, alive, snap, task, tries>>

StartRun(dry, wants, monitored) ==
    /\ pc = "idle"
    /\ run' = [NoRun EXCEPT !.dry = dry, !.wants = wants, !.monitored = monitored,
                            !.base = disk]
    /\ pc' = IF kind = "lxc" THEN "introspect" ELSE "backup"
    /\ UNCHANGED <<kind, disk, clock, own, alive, snap, task, tries>>

\* A stopped container is started, the result of pct start unread, and
\* housekeeping may change it: all of it before the snapshot and outside try.
Introspect ==
    /\ pc = "introspect"
    /\ alive' \in Power({alive, TRUE})
    /\ IF run.dry THEN UNCHANGED <<disk, clock>> ELSE MayTouch(alive')
    /\ run' = [run EXCEPT !.wasStopped = ~ alive, !.base = disk']
    /\ pc' = "backup"
    /\ UNCHANGED <<kind, own, snap, task, tries>>

\* The introspection or the start raises: run_lxc_update does, too.
IntrospectRaises ==
    /\ pc = "introspect"
    /\ alive' \in Power({alive, TRUE})
    /\ pc' = "idle"
    /\ UNCHANGED <<kind, disk, clock, own, snap, task, tries, run>>

\* A dry run, or a custom system that is up to date, only reports.  The result
\* of vzdump (or of backup_command) is not read.
Backup ==
    /\ pc = "backup"
    /\ \/ /\ run.dry \/ kind = "custom"
          /\ run' = [run EXCEPT !.status = "ok"]
          /\ pc' = "cleanup" /\ UNCHANGED tries
       \/ /\ ~ run.dry /\ ~ run.wants
          /\ pc' = "alloy" /\ UNCHANGED <<tries, run>>
       \/ /\ ~ run.dry /\ run.wants
          /\ pc' = "snapshot" /\ tries' = Attempts /\ UNCHANGED run
    /\ UNCHANGED <<kind, disk, clock, own, alive, snap, task>>

\* One snapshot call: what becomes of the snapshot and what is reported.  An
\* existing snapshot of that name is a success that changed nothing.
CreateCall(report) ==
    \/ /\ task = "none" /\ snap = NoSnap
       /\ report \in {"changed", "failed"}
       /\ snap' = disk /\ UNCHANGED task
    \/ /\ task = "none" /\ snap = NoSnap
       /\ report = "failed"
       /\ task' = "create" /\ UNCHANGED snap
    \/ /\ task = "none" /\ snap # NoSnap
       /\ report = "unchanged"
       /\ UNCHANGED <<snap, task>>
    \/ /\ report = "failed"
       /\ UNCHANGED <<snap, task>>

\* snapshot_with_retry(present): until a call reports a change; one that raises
\* ends the attempts.  Without a snapshot the update goes on, with a warning.
TakeSnapshot_UntilNotFailed ==
    /\ pc = "snapshot"
    /\ \E report \in {"changed", "unchanged", "failed"} :
         /\ CreateCall(report)
         /\ \/ /\ report # "failed"
               /\ run' = [run EXCEPT !.taken = TRUE]
               /\ pc' = "alloy" /\ tries' = 0
            \/ /\ report = "failed" /\ tries > 1
               /\ tries' = tries - 1 /\ UNCHANGED <<run, pc>>
            \/ /\ report = "failed"
               /\ run' = [run EXCEPT !.warned = TRUE]
               /\ pc' = "alloy" /\ tries' = 0
    /\ UNCHANGED <<kind, disk, clock, own, alive>>

TakeSnapshot ==
    /\ pc = "snapshot"
    /\ \E report \in {"changed", "unchanged", "failed"} :
         /\ CreateCall(report)
         /\ \/ /\ report = "changed"
               /\ run' = [run EXCEPT !.taken = TRUE]
               /\ pc' = "alloy" /\ tries' = 0
            \/ /\ report # "changed" /\ tries > 1
               /\ tries' = tries - 1 /\ UNCHANGED <<run, pc>>
            \/ /\ report # "changed"
               /\ run' = [run EXCEPT !.warned = TRUE]
               /\ pc' = "alloy" /\ tries' = 0
    /\ UNCHANGED <<kind, disk, clock, own, alive>>

-----------------------------------------------------------------------------
(***************************************************************************)
(* The update.                                                             *)
(***************************************************************************)
\* Alloy compliance (not for custom systems): no part of "changed".
Alloy ==
    /\ pc = "alloy"
    /\ IF kind = "custom" THEN UNCHANGED <<disk, clock>> ELSE MayTouch(alive)
    /\ pc' = CASE kind = "lxc" -> "os" [] kind = "vm" -> "upgrade" [] kind = "custom" -> "steps"
    /\ UNCHANGED <<kind, own, alive, snap, task, tries, run>>

\* A container's failed OS or app update is an error on record and the flow goes
\* on; its output may or may not show that something was changed.
OsUpdate ==
    /\ pc = "os"
    /\ MayTouch(alive)
    /\ \E failed \in BOOLEAN, seen \in {FALSE, disk' # disk} :
         /\ ~ failed => seen = (disk' # disk)
         /\ run' = [run EXCEPT !.changed = @ \/ seen, !.errors = @ \/ failed,
                               !.broken = @ \/ failed]
    /\ pc' = "app"
    /\ UNCHANGED <<kind, own, alive, snap, task, tries>>

\* lxc_app_did_update judges by version file or package hash, and takes a
\* silent success for an update if it has neither.
AppUpdate ==
    /\ pc = "app"
    /\ MayTouch(alive)
    /\ \E failed, seen \in BOOLEAN :
         /\ failed => ~ seen
         /\ run' = [run EXCEPT !.changed = @ \/ seen, !.errors = @ \/ failed,
                               !.broken = @ \/ failed]
    /\ pc' = "reboot"
    /\ UNCHANGED <<kind, own, alive, snap, task, tries>>

\* A VM's upgrade: a failed command raises.
Upgrade ==
    /\ pc = "upgrade"
    /\ MayTouch(alive)
    /\ \/ alive /\ run' = [run EXCEPT !.changed = (disk' # disk)] /\ pc' = "reboot"
       \/ run' = [run EXCEPT !.broken = TRUE] /\ pc' = "rescue"
    /\ UNCHANGED <<kind, own, alive, snap, task, tries>>

\* run_steps of a custom system: the first step that fails raises.  The
\* configured change detection (always, by version, by command) is free.
RunSteps ==
    /\ pc = "steps"
    /\ MayTouch(alive)
    /\ \/ /\ \E seen \in BOOLEAN : run' = [run EXCEPT !.changed = seen]
          /\ pc' = "reboot"
       \/ run' = [run EXCEPT !.broken = TRUE] /\ pc' = "rescue"
    /\ UNCHANGED <<kind, own, alive, snap, task, tries>>

\* A container reboots whenever the guest asks for it, the others only after a
\* change.  The result is not read: the guest may stay down.
RebootGuest ==
    /\ pc = "reboot"
    /\ \/ UNCHANGED alive
       \/ (kind = "lxc" \/ run.changed) /\ alive' \in Power(BOOLEAN)
    /\ pc' = "health"
    /\ UNCHANGED <<kind, disk, clock, own, snap, task, tries, run>>

\* The monitor is polled only after a change; only a running guest passes.
HealthCheck_IgnoresTimeout ==
    /\ pc = "health"
    /\ pc' = "report"
    /\ UNCHANGED <<kind, disk, clock, own, alive, snap, task, tries, run>>

HealthCheck ==
    /\ pc = "health"
    /\ \/ (run.monitored /\ run.changed => alive) /\ pc' = "report"
       \/ run.monitored /\ run.changed /\ pc' = "rescue"
    /\ UNCHANGED <<kind, disk, clock, own, alive, snap, task, tries, run>>

ReportFlow_DropsErrors ==
    /\ pc = "report"
    /\ run' = [run EXCEPT !.status = "ok"]
    /\ pc' = "cleanup"
    /\ UNCHANGED <<kind, disk, clock, own, alive, snap, task, tries>>

ReportFlow ==
    /\ pc = "report"
    /\ run' = [run EXCEPT !.status = IF run.errors THEN "failed" ELSE "ok"]
    /\ pc' = "cleanup"
    /\ UNCHANGED <<kind, disk, clock, own, alive, snap, task, tries>>

\* A call of the try block raises: the runner itself failed.
CallRaises ==
    /\ pc \in TrySteps
    /\ pc' = "rescue"
    /\ UNCHANGED <<kind, disk, clock, own, alive, snap, task, tries, run>>

-----------------------------------------------------------------------------
(***************************************************************************)
(* Rescue and cleanup.                                                     *)
(***************************************************************************)
\* pct or qm rollback: works if the snapshot exists and no task holds the lock.
\* It stops the guest first; whether that runs afterwards is Proxmox's business.
RollbackCall(ok) ==
    \/ /\ task = "none" /\ snap # NoSnap
       /\ disk' = snap /\ alive' \in BOOLEAN /\ UNCHANGED task
    \/ /\ ~ ok /\ task = "none" /\ snap # NoSnap
       /\ task' = "rollback" /\ alive' = FALSE /\ UNCHANGED disk
    \/ ~ ok /\ UNCHANGED <<disk, alive, task>>

\* Only a run that took the snapshot itself rolls back to it.  A container's
\* result is not read; its exceptions are.
Rescue_AnySnapshot ==
    /\ pc = "rescue"
    /\ \E ok \in BOOLEAN :
         /\ RollbackCall(ok)
         /\ pc' = IF ok \/ kind = "lxc" THEN "poll" ELSE "cleanup"
         /\ run' = [run EXCEPT !.status = IF pc' = "cleanup" THEN "failed" ELSE @]
    /\ UNCHANGED <<kind, clock, own, snap, tries>>

Rescue ==
    /\ pc = "rescue"
    /\ \/ /\ ~ run.taken
          /\ run' = [run EXCEPT !.status = IF run.warned THEN "no snapshot" ELSE "failed"]
          /\ pc' = "cleanup" /\ UNCHANGED <<disk, alive, task>>
       \/ /\ run.taken
          /\ \E ok \in BOOLEAN :
               /\ RollbackCall(ok)
               /\ \/ /\ ok \/ kind = "lxc"
                     /\ pc' = "poll" /\ UNCHANGED run
                  \/ /\ ~ ok
                     /\ pc' = "cleanup" /\ run' = [run EXCEPT !.status = "failed"]
    /\ UNCHANGED <<kind, clock, own, snap, tries>>

\* Twelve status calls: a VM or a custom system must be seen running, a
\* container counts as rolled back whatever they show, unless one raises.
Poll_AnyAnswer ==
    /\ pc = "poll"
    /\ alive' \in Power({alive, TRUE})
    /\ run' = [run EXCEPT !.status = "rolled back"]
    /\ pc' = "cleanup"
    /\ UNCHANGED <<kind, disk, clock, own, snap, task, tries>>

Poll ==
    /\ pc = "poll"
    /\ alive' \in Power({alive, TRUE})
    /\ \/ /\ alive' \/ kind = "lxc"
          /\ run' = [run EXCEPT !.status = "rolled back"]
       \/ run' = [run EXCEPT !.status = "failed"]
    /\ pc' = "cleanup"
    /\ UNCHANGED <<kind, disk, clock, own, snap, task, tries>>

\* snapshot_with_retry(absent): the result, after all attempts, is not read.
DeleteSnapshot ==
    /\ pc = "cleanup"
    /\ \/ ~ run.taken /\ UNCHANGED <<snap, task>>
       \/ run.taken /\ task = "none" /\ snap' = NoSnap /\ UNCHANGED task
       \/ run.taken /\ task = "none" /\ task' = "delete" /\ UNCHANGED snap
       \/ run.taken /\ UNCHANGED <<snap, task>>
    /\ pc' = "stop"
    /\ UNCHANGED <<kind, disk, clock, own, alive, tries, run>>

\* A container that was started for the update is stopped again, unless it was
\* rolled back; pct stop may fail.
StopAgain ==
    /\ pc = "stop"
    /\ \/ UNCHANGED alive
       \/ /\ kind = "lxc" /\ run.wasStopped /\ run.status # "rolled back"
          /\ alive' = FALSE
    /\ pc' = "idle"
    /\ UNCHANGED <<kind, disk, clock, own, snap, task, tries, run>>

Killed ==
    /\ pc # "idle"
    /\ pc' = "idle" /\ tries' = 0 /\ run' = NoRun
    /\ UNCHANGED <<kind, disk, clock, own, alive, snap, task>>

Flow ==
    \/ \E dry, wants, monitored \in BOOLEAN : StartRun(dry, wants, monitored)
    \/ Introspect \/ IntrospectRaises \/ Backup \/ TakeSnapshot
    \/ Alloy \/ OsUpdate \/ AppUpdate \/ Upgrade \/ RunSteps
    \/ RebootGuest \/ HealthCheck \/ ReportFlow \/ CallRaises
    \/ Rescue \/ Poll \/ DeleteSnapshot \/ StopAgain \/ Killed

FlowNext == GuestLives \/ TaskEnds \/ Flow

FlowSpec == FlowInit /\ [][FlowNext]_flowVars

-----------------------------------------------------------------------------
(***************************************************************************)
(* Properties.                                                             *)
(***************************************************************************)
\* An update either runs with a snapshot of the very state it started from or
\* with a warning that there is none, whatever earlier runs, lost answers and
\* late tasks have left behind (snapshot_with_retry, snapshot_failure_warning).
ProtectedUnlessWarned ==
    pc \in Updating /\ run.wants /\ ~ run.warned => snap = run.base

\* What the guest did between two runs is never lost: no rollback goes to a
\* snapshot that an earlier run, a late task or a late answer left behind, and
\* a rollback that outlives its run ends before the guest works again.
OwnWorkKept == own <= disk

\* A run's rollback takes the guest to where that run found it, and to no state
\* in the middle of an update.
RollbackToOwnBase ==
    [][pc = "rescue" /\ pc' \in {"poll", "cleanup"} /\ disk' # disk
         => disk' = run.base]_flowVars

\* "FAILED + ROLLED BACK" means it: unless the rollback is still going, the guest
\* is back where the run found it (flows/lxc.py: "a completed rollback"; without
\* one, "report what remains").
RolledBackMeansRestored ==
    pc \in Closing /\ run.status = "rolled back" /\ task # "rollback" => disk = run.base

\* The flows that read the result of the rollback also have seen the guest run
\* (migration-roadmap.md, "rollback_done truthfulness").
ConfirmedRollback ==
    kind # "lxc" /\ pc \in Closing /\ run.status = "rolled back"
        => disk = run.base /\ alive

\* A step that failed half-way is never reported as a success, whether it raised
\* or was only put on record.
BrokenMeansReported == pc \in Closing /\ run.broken => run.status # "ok"

\* A monitored guest that the run has changed, and maybe rebooted, is reported
\* as updated only if it came back: no path from the change to the report
\* passes by the monitor.
UpdatedMeansUp ==
    pc = "cleanup" /\ run.status = "ok" /\ run.monitored /\ run.changed => alive
=============================================================================
