----------------------------- MODULE RunRecords -----------------------------
(***************************************************************************)
(* What runs and scans leave on the manager's disk: history files with     *)
(* their pruning, all-time totals, the per-host ledger, the reminder state *)
(* of manually updated systems and the alert streak of maintenance         *)
(* (history.py, ledger.py, scan_notifications.py, housekeeping_alerts.py,  *)
(* and driver.run_notify_phase, which orders them).                        *)
(*                                                                         *)
(* Jobs come one after the other (RunControl).  History files, totals and  *)
(* ledger are truncated and then written, so a job that dies, or a disk    *)
(* that is full, leaves a torn file; reminder and streak are replaced as a *)
(* whole.  There is one host and one manually updated system.              *)
(***************************************************************************)
EXTENDS Integers, Sequences, FiniteSets

CONSTANTS Keep, KeepDetail,  \* fleet_history_keep, fleet_package_detail_keep
          Threshold,         \* _FAILURE_THRESHOLD
          EventsCap,         \* _EVENTS_CAP
          Versions,          \* OS versions of the host, 1..n
          Attentions,        \* fingerprints of what a manual system may ask for
          MaxJobs, MaxFaults

ASSUME RecordsAssumption ==
    /\ Keep \in Nat \ {0} /\ KeepDetail \in 1..Keep /\ Threshold \in Nat \ {0}
    /\ EventsCap \in Nat \ {0}
    /\ Versions \subseteq Nat \ {0} /\ 1 \in Versions
    /\ 0 \notin Attentions /\ MaxJobs \in Nat /\ MaxFaults \in Nat

VARIABLES
    job,     \* the job in progress: kind, outcome, step, the content being written
    jobs,    \* jobs so far; also the timestamp of the job in progress
    files,   \* per history directory: run files (oldest first), totals, ledger
    remind,  \* state of the manual system: observed and notified fingerprint
    streak,  \* consecutive_failures, or Broken
    os,      \* version the host runs
    written, \* observation, per directory: run files completed
    sent,    \* observation: fingerprints a briefing was dispatched with
    silent,  \* observation: failed maintenance runs that nobody was told of
    scanned, \* observation: what the ledger was told: version, upgrades, last update
    faults

vars == <<job, jobs, files, remind, streak, os, written, sent, silent, scanned, faults>>

Spaces  == {"fleet", "housekeeping"}
Torn    == [n |-> 0]
Broken  == -1            \* the counter's file is malformed
Kinds   == {"fleet", "maintenance", "scan"}
Steps   == {"alert", "dispatch", "remember", "run", "totals", "ledger", "prune",
            "strip", "observe", "record"}
Idle    == [kind |-> "none", at |-> "none", failed |-> FALSE, applied |-> FALSE,
            tried |-> FALSE, allow |-> FALSE, saved |-> FALSE, open |-> FALSE, new |-> Torn]

Directory == IF job.kind = "maintenance" THEN "housekeeping" ELSE "fleet"
Blank     == [changed |-> 0, os |-> 0, events |-> <<>>]

\* Since the last alert, or success on record: the runs that failed untold; of those,
\* the runs that died before their count was saved; and the runs that died with it saved
\* since the last one that came through its dispatch.
NoSilence == [runs |-> 0, unsaved |-> 0, killed |-> 0]

TypeOK ==
    /\ job.kind \in Kinds \cup {"none"} /\ job.at \in Steps \cup {"none"}
    /\ jobs \in 0..MaxJobs /\ faults \in 0..MaxFaults
    /\ \A s \in Spaces :
         /\ Len(files[s].runs) <= Keep + 1 + faults
         /\ files[s].totals = Torn \/ files[s].totals.n \in 1..MaxJobs
         /\ files[s].ledger = Torn \/ files[s].ledger.os \in Versions \cup {0}
    /\ remind \in [fp : Attentions \cup {0}, notified : Attentions \cup {0}]
    /\ streak \in Nat \cup {Broken} /\ silent \in [runs : Nat, unsaved : Nat, killed : Nat]
    /\ os \in Versions

Init ==
    /\ job = Idle /\ jobs = 0
    /\ files = [s \in Spaces |-> [runs |-> <<>>, totals |-> Torn, ledger |-> Torn]]
    /\ remind = [fp |-> 0, notified |-> 0] /\ streak = 0 /\ os = 1
    /\ written = [s \in Spaces |-> 0] /\ sent = {} /\ silent = NoSilence
    /\ scanned = [os |-> 0, upgrades |-> <<>>, changed |-> 0]
    /\ faults = 0

-----------------------------------------------------------------------------
Go(step)  == job' = [job EXCEPT !.at = step, !.open = FALSE, !.new = Torn, !.allow = FALSE, !.saved = FALSE]
End       == job' = Idle

\* A run of either kind has come to phase 4, or a scan has looked at the host and
\* the manual system.  For its alerts a dry maintenance run is an idle one.
StartJob ==
    /\ job = Idle /\ jobs < MaxJobs /\ jobs' = jobs + 1
    /\ \E kind \in Kinds, failed, applied, tried \in BOOLEAN :
         /\ applied => kind = "fleet"
         /\ failed \/ tried => kind = "maintenance"
         /\ job' = [Idle EXCEPT !.kind = kind, !.failed = failed, !.applied = applied, !.tried = tried,
                   !.at = CASE kind = "fleet" -> "dispatch" [] kind = "maintenance" -> "alert"
                            [] OTHER -> "observe"]
    /\ UNCHANGED <<files, remind, streak, os, written, sent, silent, scanned, faults>>

\* Someone upgrades the host's operating system.
Upgrade ==
    /\ os + 1 \in Versions /\ os' = os + 1
    /\ UNCHANGED <<job, jobs, files, remind, streak, written, sent, silent, scanned, faults>>

\* Something makes the counter's file unreadable for good.
Spoil ==
    /\ job = Idle /\ streak # Broken /\ faults < MaxFaults /\ faults' = faults + 1
    /\ streak' = Broken
    /\ UNCHANGED <<job, jobs, files, remind, os, written, sent, silent, scanned>>

\* The process dies: what was open stays torn, what failed is not told.
Die ==
    /\ job # Idle /\ faults < MaxFaults /\ faults' = faults + 1 /\ End
    /\ silent' = IF ~ (job.failed /\ job.at \in {"alert", "dispatch"}) THEN silent
                 ELSE IF job.saved THEN [silent EXCEPT !.runs = @ + 1, !.killed = @ + 1]
                 ELSE [silent EXCEPT !.runs = @ + 1, !.unsaved = @ + 1]
    /\ UNCHANGED <<jobs, files, remind, streak, os, written, sent, scanned>>

-----------------------------------------------------------------------------
(***************************************************************************)
(* Alerts, reminders and the briefing.                                     *)
(***************************************************************************)
Decide(allow, saved) == job' = [job EXCEPT !.at = "dispatch", !.allow = allow, !.saved = saved]

RecordRun_CountsIdle ==
    /\ job.at = "alert"
    /\ LET count == IF job.failed THEN streak + 1 ELSE 0
       IN  streak' = count /\ Decide(job.failed /\ count >= Threshold, TRUE)
    /\ silent' = IF job.tried /\ ~ job.failed THEN NoSilence ELSE silent
    /\ UNCHANGED <<jobs, files, remind, os, written, sent, scanned, faults>>

\* A failure whose count cannot be read is told, and the count left as it is.
CountUnread ==
    /\ job.failed
    /\ \/ streak = Broken /\ UNCHANGED faults
       \/ streak # Broken /\ faults < MaxFaults /\ faults' = faults + 1
    /\ Decide(TRUE, FALSE) /\ UNCHANGED <<streak, silent>>

\* One more failure, or a success that did something and starts anew; a failure may be
\* told from the Threshold-th on, or when its count cannot be saved.
CountKept ==
    /\ job.failed \/ job.tried
    /\ job.failed => streak # Broken
    /\ LET count == IF job.failed THEN streak + 1 ELSE 0
       IN  \/ /\ streak' = count /\ Decide(job.failed /\ count >= Threshold, TRUE)
              /\ silent' = IF job.failed THEN silent ELSE NoSilence
              /\ UNCHANGED faults
           \/ /\ faults < MaxFaults /\ faults' = faults + 1
              /\ Decide(job.failed, FALSE) /\ UNCHANGED <<streak, silent>>

\* record_run; an idle success is not counted.
RecordRun ==
    /\ job.at = "alert"
    /\ \/ CountUnread \/ CountKept
       \/ ~ job.failed /\ ~ job.tried /\ Decide(FALSE, FALSE) /\ UNCHANGED <<streak, silent, faults>>
    /\ UNCHANGED <<jobs, files, remind, os, written, sent, scanned>>

Dispatch_RemembersFirst ==
    /\ job.at = "dispatch"
    /\ IF job.kind = "fleet"
       THEN Go("run") /\ remind' = [remind EXCEPT !.notified = remind.fp]
       ELSE Go("run") /\ UNCHANGED remind
    /\ UNCHANGED <<jobs, files, streak, os, written, sent, silent, scanned, faults>>

\* decide_stored_notifications: what was not told yet, or has changed, is due; what was told
\* is due again when the reminder hours are over.
Due == IF remind.fp = remind.notified THEN {remind.fp # 0, FALSE} ELSE {TRUE}

\* One briefing holds the fleet's outcome and the manual systems that are due; a failing
\* notifier is ignored.  Maintenance does not look at reminders; it tells a failure that it may
\* tell, and any failure when something else sends a briefing (force, a warning).
Dispatch ==
    /\ job.at = "dispatch"
    /\ \/ /\ job.kind = "fleet" /\ TRUE \in Due /\ sent' = sent \cup {remind.fp}
          /\ Go("remember") /\ UNCHANGED silent
       \/ /\ (job.kind = "fleet" => FALSE \in Due) /\ Go("run") /\ UNCHANGED sent
          /\ IF job.failed
             THEN \E told \in {job.allow, TRUE} :
                    silent' = IF told THEN NoSilence ELSE [silent EXCEPT !.runs = @ + 1, !.killed = 0]
             ELSE UNCHANGED silent
    /\ UNCHANGED <<jobs, files, remind, streak, os, written, scanned, faults>>

\* save_state after the dispatch; a write that fails is ignored.
Remember ==
    /\ job.at = "remember" /\ Go("run")
    /\ \/ remind' = [remind EXCEPT !.notified = remind.fp] /\ UNCHANGED faults
       \/ faults < MaxFaults /\ faults' = faults + 1 /\ UNCHANGED remind
    /\ UNCHANGED <<jobs, files, streak, os, written, sent, silent, scanned>>

\* record_manual_results: a scan replaces what it saw, forgets what is clean and
\* leaves what it could not reach.
RecordManual ==
    /\ job.at = "record" /\ End
    /\ \/ \E f \in Attentions : remind' = [remind EXCEPT !.fp = f]
       \/ remind' = [fp |-> 0, notified |-> 0]
       \/ UNCHANGED remind
    /\ UNCHANGED <<jobs, files, streak, os, written, sent, silent, scanned, faults>>

-----------------------------------------------------------------------------
(***************************************************************************)
(* write_history and write_pending.                                        *)
(***************************************************************************)
Here    == files[Directory]
RunsOf(s) == {i \in DOMAIN files[s].runs : files[s].runs[i].n # 0}

\* _seed_totals: the readable run files that are still there.
Seed(s) == [n |-> Cardinality(RunsOf(s))]

NewTotals_AddsTwice ==
    IF Here.totals = Torn THEN [n |-> Seed(Directory).n + 1] ELSE [n |-> Here.totals.n + 1]

\* _accumulate_totals: the run file just written is part of a new seed.
NewTotals == IF Here.totals = Torn THEN Seed(Directory) ELSE [n |-> Here.totals.n + 1]

\* read_ledger: torn or missing reads as empty.
Ledger == IF Here.ledger = Torn THEN Blank ELSE Here.ledger

FoldRun_Replaces == [Blank EXCEPT !.events = Ledger.events,
                                  !.changed = IF job.applied THEN jobs ELSE Ledger.changed]

\* _fold_run: an applied update is noted, what scans stored stays.
FoldRun == [Ledger EXCEPT !.changed = IF job.applied THEN jobs ELSE @]

\* Events stand newest first; what is beyond the cap is dropped.
Newest(events) == IF Len(events) > EventsCap THEN SubSeq(events, 1, EventsCap) ELSE events

\* _observe_release: another version than the stored one is an upgrade.
Observe == [Ledger EXCEPT !.os = os,
              !.events = IF Ledger.os \notin {0, os}
                         THEN Newest(<<[from |-> Ledger.os, to |-> os]>> \o @) ELSE @]

Put(field, content) == files' = [files EXCEPT ![Directory][field] = content]
RunFiles(content)   == Append(SubSeq(Here.runs, 1, Len(Here.runs) - 1), content)

\* Each file is truncated when it is opened ...
Open ==
    /\ job.at \in {"run", "totals", "ledger", "observe"} /\ ~ job.open
    /\ \/ job.at = "run" /\ Put("runs", Append(Here.runs, Torn))
          /\ job' = [job EXCEPT !.open = TRUE, !.new = [n |-> jobs, detail |-> TRUE]]
       \/ job.at = "totals" /\ Put("totals", Torn)
          /\ job' = [job EXCEPT !.open = TRUE, !.new = NewTotals]
       \/ job.at = "ledger" /\ Put("ledger", Torn)
          /\ job' = [job EXCEPT !.open = TRUE, !.new = FoldRun]
       \/ job.at = "observe" /\ Put("ledger", Torn)
          /\ job' = [job EXCEPT !.open = TRUE, !.new = Observe]
    /\ UNCHANGED <<jobs, remind, streak, os, written, sent, silent, scanned, faults>>

\* ... and has its content when it is closed.
Close ==
    /\ job.open
    /\ \/ job.at = "run" /\ Put("runs", RunFiles(job.new)) /\ Go("totals")
          /\ written' = [written EXCEPT ![Directory] = @ + 1] /\ UNCHANGED scanned
       \/ job.at = "totals" /\ Put("totals", job.new) /\ Go("ledger") /\ UNCHANGED <<written, scanned>>
       \/ job.at = "ledger" /\ Put("ledger", job.new) /\ Go("prune") /\ UNCHANGED written
          /\ scanned' = IF job.applied THEN [scanned EXCEPT !.changed = jobs] ELSE scanned
       \/ /\ job.at = "observe" /\ Put("ledger", job.new) /\ Go("record") /\ UNCHANGED written
          /\ scanned' = [scanned EXCEPT !.os = job.new.os,
                         !.upgrades = IF scanned.os \notin {0, job.new.os}
                                      THEN <<[from |-> scanned.os, to |-> job.new.os]>> \o scanned.upgrades
                                      ELSE scanned.upgrades]
    /\ UNCHANGED <<jobs, remind, streak, os, sent, silent, faults>>

\* The disk is full: the exception ends the job, unless the ledger swallows it.
WriteFails ==
    /\ job.open /\ faults < MaxFaults /\ faults' = faults + 1
    /\ IF job.at = "ledger" THEN Go("prune") ELSE IF job.at = "observe" THEN Go("record") ELSE End
    /\ UNCHANGED <<jobs, files, remind, streak, os, written, sent, silent, scanned>>

PruneTo(k) ==
    LET n == Len(Here.runs)
    IN  Put("runs", SubSeq(Here.runs, IF n > k THEN n - k + 1 ELSE 1, n))
Prune_OnlyWhenFailed ==
    /\ job.at = "prune" /\ Go("strip") /\ PruneTo(IF job.failed THEN Keep ELSE MaxJobs)
    /\ UNCHANGED <<jobs, remind, streak, os, written, sent, silent, scanned, faults>>

\* Run files beyond the newest Keep are removed.
Prune ==
    /\ job.at = "prune" /\ Go("strip")
    /\ PruneTo(Keep)
    /\ UNCHANGED <<jobs, remind, streak, os, written, sent, silent, scanned, faults>>

\* The oldest run file that must lose its package detail, or 0.
Stale ==
    LET old == {i \in DOMAIN Here.runs : /\ i <= Len(Here.runs) - KeepDetail
                                         /\ Here.runs[i].n # 0 /\ Here.runs[i].detail}
    IN  IF old = {} \/ job.kind = "maintenance" THEN 0 ELSE CHOOSE i \in old : \A k \in old : i <= k

\* _strip_package_detail rewrites old run files in place; then phase 4 is over.
Strip ==
    /\ job.at = "strip"
    /\ \/ /\ Stale # 0 /\ ~ job.open
          /\ files' = [files EXCEPT ![Directory].runs[Stale] = Torn]
          /\ job' = [job EXCEPT !.open = TRUE, !.new = [n |-> Here.runs[Stale].n, detail |-> FALSE, i |-> Stale]]
       \/ /\ job.open /\ Go("strip")
          /\ files' = [files EXCEPT ![Directory].runs[job.new.i] = [n |-> job.new.n, detail |-> FALSE]]
       \/ Stale = 0 /\ ~ job.open /\ End /\ UNCHANGED files
    /\ UNCHANGED <<jobs, remind, streak, os, written, sent, silent, scanned, faults>>

Rest == job = Idle /\ jobs = MaxJobs /\ UNCHANGED vars

Next == \/ StartJob \/ Upgrade \/ Spoil \/ Die \/ RecordRun \/ Dispatch \/ Remember \/ RecordManual
        \/ Open \/ Close \/ WriteFails \/ Prune \/ Strip \/ Rest

Spec == Init /\ [][Next]_vars

-----------------------------------------------------------------------------
\* read_totals: the file, or else a sum over the run files.
Shown(s) == IF files[s].totals = Torn THEN Seed(s) ELSE files[s].totals

\* The all-time totals never count a run twice, whatever was torn, reseeded or
\* pruned in between, and miss none as long as nothing went wrong.
TotalsHonest ==
    \A s \in Spaces :
        /\ Shown(s).n <= written[s]
        /\ job = Idle /\ faults = 0 => Shown(s).n = written[s]

\* A fingerprint counts as notified only after a briefing with it was sent out:
\* a run that dies in between repeats itself rather than keep silent.
RemindedMeansSent == remind.notified \in sent \cup {0}

\* Of the failed maintenance runs in a row that nobody was told of, fewer than Threshold
\* lived long enough to tell: the others died before their count was saved, or between
\* it and the dispatch, and the next run that comes through makes up for the latter.  A
\* counter that cannot be read or saved hides no failure, and idle runs neither hide
\* nor heal a streak.
SilenceBounded == silent.runs < Threshold + silent.unsaved + silent.killed

\* The ledger has the newest EventsCap of the upgrades that two scans saw, runs between
\* them or not; a torn ledger forgets, and invents nothing.
LedgerTellsTruth ==
    LET told == files["fleet"].ledger
    IN  ~ job.open /\ told # Torn =>
            /\ faults = 0 => told.events = Newest(scanned.upgrades) /\ told.changed = scanned.changed
            /\ told.changed \in {0, scanned.changed}
            /\ {told.events[i] : i \in DOMAIN told.events}
                 \subseteq {scanned.upgrades[i] : i \in DOMAIN scanned.upgrades}
=============================================================================
