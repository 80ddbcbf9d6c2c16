----------------------------- MODULE RunControl -----------------------------
(***************************************************************************)
(* Who may work on the fleet, and what is known of who did: the fleet-wide *)
(* run lock (lock.py), the command line under it (cli.run_locked), and the *)
(* dashboard's run manager, which launches runs as detached processes,     *)
(* watches them, and lets consoles tail their logs (web/runs.py).          *)
(*                                                                         *)
(* A process may be killed at any step and the dashboard restarted; the    *)
(* kernel frees the lock of the dead, nobody cleans its payload.           *)
(***************************************************************************)
EXTENDS Integers, FiniteSets

CONSTANTS Clis,       \* runs by cron, the timer or a shell
          Terminals,  \* those with a terminal: Ctrl-C reaches them
          Runs,       \* dashboard run ids
          Pages,      \* dashboard requests that show whether a run is active
          Consoles,   \* tails of a run's log
          Nobody,
          MaxLines, MaxMishaps   \* log length; kills, restarts, failed writes, pids that linger

ASSUME ControlAssumption ==
    /\ Terminals \subseteq Clis /\ Clis \cap Runs = {} /\ Pages \cap (Clis \cup Runs) = {}
    /\ {Nobody, "start"} \cap (Clis \cup Runs \cup Pages) = {} /\ Nobody # "start"
    /\ MaxLines \in Nat /\ MaxMishaps \in Nat

VARIABLES
    proc,     \* where each process stands
    leak,     \* processes with a worker thread nobody waits for any more
    rc,       \* exit status of each process; "probed": refused while a probe held the lock
    lock,     \* holder of the flock
    payload,  \* process the lock file names
    log,      \* lines each dashboard run has written
    mutex,    \* _start_mutex
    starter,  \* the start() call in progress: step and run
    meta,     \* the record of each run
    watched,  \* _watched
    watcher,  \* runs with a watcher thread that has not published yet
    undead,   \* dead runs whose pid still takes a signal: a child nobody waited
              \* for, or a pid that the kernel gave to another process
    unsure,   \* observation: runs whose watcher died or could not publish
    console,  \* each tail: run, what its last read of the record said, position
    mishaps

procVars    == <<proc, leak, rc, lock, payload, log>>
webVars     == <<mutex, starter, meta, watched, watcher, undead, unsure>>
controlVars == <<procVars, webVars, console, mishaps>>

Procs    == Clis \cup Runs
Holders  == Procs \cup Pages \cup {"start", Nobody}
Alive    == {"booting", "locked", "working", "lingering"}
Statuses == {"none", "done", "refused", "probed", "killed"}
NoRecord == [finished |-> FALSE, rc |-> "none", there |-> FALSE]
NoTail   == [run |-> Nobody, at |-> "closed", ended |-> FALSE, pos |-> 0]

ControlTypeOK ==
    /\ proc \in [Procs -> Alive \cup {"none", "gone"}] /\ leak \subseteq Clis
    /\ rc \in [Procs -> Statuses]
    /\ lock \in Holders /\ payload \in Procs \cup {Nobody}
    /\ log \in [Runs -> 0..MaxLines]
    /\ mutex \in {Nobody, "start"}
    /\ starter \in [step : {"idle", "probe", "unlock", "spawn", "record"}, run : Runs \cup {Nobody}]
    /\ (starter.step = "idle") = (mutex = Nobody)
    /\ meta \in [Runs -> [finished : BOOLEAN, rc : Statuses,
                          there : BOOLEAN]]
    /\ watcher \subseteq watched /\ watched \cup undead \cup unsure \subseteq Runs
    /\ console \in [Consoles -> [run : Runs \cup {Nobody}, at : {"closed", "drain", "check", "done"},
                                ended : BOOLEAN, pos : 0..MaxLines]]
    /\ mishaps \in 0..MaxMishaps

ControlInit ==
    /\ proc = [p \in Procs |-> "none"] /\ leak = {} /\ rc = [p \in Procs |-> "none"]
    /\ lock = Nobody /\ payload = Nobody
    /\ log = [r \in Runs |-> 0]
    /\ mutex = Nobody /\ starter = [step |-> "idle", run |-> Nobody]
    /\ meta = [r \in Runs |-> NoRecord] /\ watched = {} /\ watcher = {}
    /\ undead = {} /\ unsure = {}
    /\ console = [c \in Consoles |-> NoTail]
    /\ mishaps = 0

-----------------------------------------------------------------------------
(***************************************************************************)
(* The process of a run.                                                   *)
(***************************************************************************)
ProcStep == UNCHANGED <<webVars, console, mishaps>>

\* cron, the timer or an operator starts a run.
Launch(p) ==
    /\ p \in Clis /\ proc[p] = "none" /\ proc' = [proc EXCEPT ![p] = "booting"]
    /\ UNCHANGED <<leak, rc, lock, payload, log>> /\ ProcStep

TakeLock_ByPayload(p) ==
    /\ proc[p] = "booting"
    /\ \/ /\ payload = Nobody
          /\ lock' = p /\ proc' = [proc EXCEPT ![p] = "locked"]
          /\ UNCHANGED rc
       \/ /\ payload # Nobody
          /\ proc' = [proc EXCEPT ![p] = "gone"] /\ rc' = [rc EXCEPT ![p] = "refused"]
          /\ UNCHANGED lock
    /\ UNCHANGED <<leak, payload, log>> /\ ProcStep

\* flock without waiting; a held lock ends the process with status 1.
TakeLock(p) ==
    /\ proc[p] = "booting"
    /\ \/ /\ lock = Nobody
          /\ lock' = p /\ proc' = [proc EXCEPT ![p] = "locked"]
          /\ UNCHANGED rc
       \/ /\ lock # Nobody
          /\ proc' = [proc EXCEPT ![p] = "gone"]
          /\ rc' = [rc EXCEPT ![p] = IF lock \in Procs THEN "refused" ELSE "probed"]
          /\ UNCHANGED lock
    /\ UNCHANGED <<leak, payload, log>> /\ ProcStep

\* Truncate the lock file, write pid and argv, enter the body.
Announce(p) ==
    /\ proc[p] = "locked" /\ payload' = p /\ proc' = [proc EXCEPT ![p] = "working"]
    /\ UNCHANGED <<leak, rc, lock, log>> /\ ProcStep

\* The run prints a line (its stdout is the log of a dashboard run).
Write(r) ==
    /\ r \in Runs /\ proc[r] = "working" /\ log[r] < MaxLines
    /\ log' = [log EXCEPT ![r] = @ + 1]
    /\ UNCHANGED <<proc, leak, rc, lock, payload>> /\ ProcStep

\* Ctrl-C while the main thread waits for a worker: run_concurrent takes the
\* KeyboardInterrupt for the result of that host, and goes on without it.
Interrupt(p) ==
    /\ p \in Terminals \ leak /\ proc[p] = "working" /\ leak' = leak \cup {p}
    /\ UNCHANGED <<proc, rc, lock, payload, log>> /\ ProcStep

\* The worker nobody waits for comes to its end.
WorkerEnds(p) ==
    /\ p \in leak /\ leak' = leak \ {p}
    /\ proc' = IF proc[p] = "lingering" THEN [proc EXCEPT ![p] = "gone"] ELSE proc
    /\ UNCHANGED <<rc, lock, payload, log>> /\ ProcStep

\* The body returned or raised: blank the payload, unlock, and leave; the
\* interpreter waits for worker threads before it exits.
Release(p) ==
    /\ proc[p] = "working" /\ payload' = Nobody /\ lock' = Nobody
    /\ proc' = [proc EXCEPT ![p] = IF p \in leak THEN "lingering" ELSE "gone"]
    /\ rc' = [rc EXCEPT ![p] = "done"]
    /\ UNCHANGED <<leak, log>> /\ ProcStep

\* A signal or a reboot of the manager's service: the lock goes, the payload stays.
Kill(p) ==
    /\ proc[p] \in Alive /\ proc' = [proc EXCEPT ![p] = "gone"]
    /\ mishaps < MaxMishaps /\ mishaps' = mishaps + 1
    /\ rc' = [rc EXCEPT ![p] = "killed"] /\ leak' = leak \ {p}
    /\ lock' = IF lock = p THEN Nobody ELSE lock
    /\ UNCHANGED <<payload, log, webVars, console>>

Starting(p) == TakeLock(p) \/ Announce(p)
Running(p)  == Starting(p) \/ WorkerEnds(p) \/ Release(p)

-----------------------------------------------------------------------------
(***************************************************************************)
(* Looking whether a run is active.                                        *)
(***************************************************************************)
\* probe_lock takes the lock when it is free, and gives it back; holder is the
\* page or start() call that looks.
ProbeTakes(h) ==
    /\ lock' = IF lock = Nobody THEN h ELSE lock
    /\ UNCHANGED <<proc, leak, rc, payload, log>>
ProbeReturns(h) ==
    /\ lock = h /\ lock' = Nobody
    /\ UNCHANGED <<proc, leak, rc, payload, log>>

\* A page of the dashboard (overview, trigger) is rendered: it looks at the lock.
Look(g)  == lock = Nobody /\ ProbeTakes(g) /\ ProcStep
Rendered(g) == ProbeReturns(g) /\ ProcStep

\* The parent of a dead child has not waited for it (no watcher thread could be
\* started), or another process has the pid of a run that died: _pid_alive says yes.
\* Of a watched run nobody asks.
PidLingers(r) ==
    /\ proc[r] = "gone" /\ meta[r].there /\ ~ meta[r].finished /\ r \notin watched \cup undead
    /\ mishaps < MaxMishaps /\ mishaps' = mishaps + 1 /\ undead' = undead \cup {r}
    /\ UNCHANGED <<procVars, mutex, starter, meta, watched, watcher, unsure, console>>

\* The child is reaped, or that other process ends; nothing makes sure of either.
PidFreed(r) ==
    /\ r \in undead /\ undead' = undead \ {r}
    /\ UNCHANGED <<procVars, mutex, starter, meta, watched, watcher, unsure, console, mishaps>>

\* _pid_alive: kill(pid, 0) finds somebody.
PidAlive(r) == proc[r] \in Alive \cup {"none"} \/ r \in undead

\* read_meta: a record without an end whose pid is dead and whose watcher is not
\* this manager's is closed with an unknown status.
Orphan(r) == meta[r].there /\ ~ meta[r].finished /\ r \notin watched /\ ~ PidAlive(r)
Seen_NeverCloses(r) == meta[r]
Seen(r) == IF Orphan(r) THEN [meta[r] EXCEPT !.finished = TRUE] ELSE meta[r]

\* list_runs, active_run: every record is read, and orphans closed on the way.
ReadAll == meta' = [r \in Runs |-> Seen(r)]
InFlight(m) == {r \in Runs : m[r].there /\ ~ m[r].finished}

ListRuns ==
    /\ mutex = Nobody /\ ReadAll
    /\ UNCHANGED <<procVars, mutex, starter, watched, watcher, undead, unsure, console, mishaps>>

-----------------------------------------------------------------------------
(***************************************************************************)
(* RunManager.start, all of it under the mutex.                            *)
(***************************************************************************)
Refuse_KeepsMutex == UNCHANGED mutex /\ starter' = [step |-> "idle", run |-> Nobody]
Refuse   == mutex' = Nobody /\ starter' = [step |-> "idle", run |-> Nobody]
Proceed(s) == starter' = [starter EXCEPT !.step = s] /\ UNCHANGED mutex
TailsKept == UNCHANGED <<console, undead>>

StartCheck_LockOnly ==
    /\ mutex = Nobody /\ ReadAll
    /\ \E r \in Runs : /\ ~ meta[r].there /\ proc[r] = "none"
                       /\ mutex' = "start" /\ starter' = [step |-> "probe", run |-> r]
    /\ UNCHANGED <<procVars, watched, watcher, unsure, mishaps>> /\ TailsKept

\* No dashboard run may be in flight.
StartCheck ==
    /\ mutex = Nobody /\ ReadAll /\ InFlight(meta') = {}
    /\ \E r \in Runs : /\ ~ meta[r].there /\ proc[r] = "none"
                       /\ mutex' = "start" /\ starter' = [step |-> "probe", run |-> r]
    /\ UNCHANGED <<procVars, watched, watcher, unsure, mishaps>> /\ TailsKept

\* Nor may anyone hold the lock.
StartProbe ==
    /\ starter.step = "probe"
    /\ \/ lock # Nobody /\ Refuse /\ UNCHANGED procVars
       \/ lock = Nobody /\ ProbeTakes("start") /\ Proceed("unlock")
    /\ UNCHANGED <<meta, watched, watcher, unsure, mishaps>> /\ TailsKept

StartProbed ==
    /\ starter.step = "unlock" /\ ProbeReturns("start") /\ Proceed("spawn")
    /\ UNCHANGED <<meta, watched, watcher, unsure, mishaps>> /\ TailsKept

\* Open the log and spawn the command, detached.
StartSpawn ==
    /\ starter.step = "spawn" /\ Proceed("record")
    /\ proc' = [proc EXCEPT ![starter.run] = "booting"]
    /\ UNCHANGED <<leak, rc, lock, payload, log, meta, watched, watcher, unsure, mishaps>>
    /\ TailsKept

New == [meta EXCEPT ![starter.run].there = TRUE]

\* Claim the run, publish its record, start its watcher.  A record that cannot
\* be written leaves the process without one; a thread that cannot be started
\* leaves the record without a watcher.
StartRecord ==
    /\ starter.step = "record" /\ Refuse
    /\ \/ /\ watched' = watched \cup {starter.run} /\ meta' = New
          /\ watcher' = watcher \cup {starter.run} /\ UNCHANGED <<unsure, mishaps>>
       \/ /\ mishaps < MaxMishaps /\ mishaps' = mishaps + 1
          /\ meta' \in {meta, New}
          /\ unsure' = unsure \cup {starter.run} /\ UNCHANGED <<watched, watcher>>
    /\ UNCHANGED procVars /\ TailsKept

\* _watch: the child's status is published, then the claim dropped.
Publish(r) ==
    /\ r \in watcher /\ proc[r] = "gone" /\ mutex = Nobody
    /\ \/ /\ meta' = [meta EXCEPT ![r] = [@ EXCEPT !.finished = TRUE, !.rc = rc[r]]]
          /\ UNCHANGED <<unsure, mishaps>>
       \/ /\ mishaps < MaxMishaps /\ mishaps' = mishaps + 1
          /\ unsure' = unsure \cup {r} /\ UNCHANGED meta
    /\ watcher' = watcher \ {r}
    /\ UNCHANGED <<procVars, mutex, starter, watched>> /\ TailsKept

\* The claim ends after the publication, in a critical section of its own.
Unclaim(r) ==
    /\ r \in watched \ watcher /\ mutex = Nobody /\ watched' = watched \ {r}
    /\ UNCHANGED <<procVars, mutex, starter, meta, watcher, unsure, mishaps>> /\ TailsKept

\* The dashboard stops and starts again: threads, claims and tails are gone, a
\* probe's lock is freed, runs go on.
Restart ==
    /\ mishaps < MaxMishaps /\ mishaps' = mishaps + 1
    /\ Refuse /\ watched' = {} /\ watcher' = {}
    /\ unsure' = unsure \cup watcher \cup ({starter.run} \cap Runs)
    /\ lock' = IF lock \in Procs THEN lock ELSE Nobody
    /\ console' = [c \in Consoles |-> IF console[c].at = "done" THEN console[c] ELSE NoTail]
    /\ UNCHANGED <<proc, leak, rc, payload, log, meta, undead>>

-----------------------------------------------------------------------------
(***************************************************************************)
(* stream and astream: read the record, drain the log, and stop when the   *)
(* record read before the drain said the run had ended.                    *)
(***************************************************************************)
ReadRecord(c, r) ==
    /\ mutex = Nobody /\ meta[r].there
    /\ meta' = [meta EXCEPT ![r] = Seen(r)]
    /\ console' = [console EXCEPT ![c] = [@ EXCEPT !.run = r, !.at = "drain",
                                                   !.ended = Seen(r).finished]]
    /\ UNCHANGED <<procVars, mutex, starter, watched, watcher, undead, unsure, mishaps>>

OpenTail(c) == console[c].at = "closed" /\ \E r \in Runs : ReadRecord(c, r)

Drain(c) ==
    /\ console[c].at = "drain"
    /\ console' = [console EXCEPT ![c] = [@ EXCEPT !.pos = log[console[c].run], !.at = "check"]]
    /\ UNCHANGED <<procVars, webVars, mishaps>>

Poll_TrustsLatest(c) ==
    /\ console[c].at = "check" /\ mutex = Nobody
    /\ LET r == console[c].run
       IN  /\ meta' = [meta EXCEPT ![r] = Seen(r)]
           /\ console' = [console EXCEPT ![c].at = IF Seen(r).finished THEN "done" ELSE "drain"]
    /\ UNCHANGED <<procVars, mutex, starter, watched, watcher, undead, unsure, mishaps>>

Poll(c) ==
    /\ console[c].at = "check"
    /\ \/ /\ console[c].ended /\ console' = [console EXCEPT ![c].at = "done"]
          /\ UNCHANGED <<procVars, webVars, mishaps>>
       \/ ~ console[c].ended /\ ReadRecord(c, console[c].run)

-----------------------------------------------------------------------------
\* Nothing is left to start: every id is used and every process has ended.
AllEnded == /\ \A p \in Procs : proc[p] = "gone"
            /\ UNCHANGED controlVars

ControlNext ==
    \/ \E p \in Procs : Launch(p) \/ Running(p) \/ Interrupt(p) \/ Kill(p)
    \/ \E r \in Runs : Write(r) \/ Publish(r) \/ Unclaim(r) \/ PidLingers(r) \/ PidFreed(r)
    \/ \E g \in Pages : Look(g) \/ Rendered(g)
    \/ \E c \in Consoles : OpenTail(c) \/ Drain(c) \/ Poll(c)
    \/ StartCheck \/ StartProbe \/ StartProbed \/ StartSpawn \/ StartRecord
    \/ ListRuns \/ Restart \/ AllEnded

ControlSpec == ControlInit /\ [][ControlNext]_controlVars

\* A process that starts gets to its body, threads of the dashboard are scheduled,
\* a tail polls every half second.  Nothing is assumed of the body: a remote call of
\* it may never return.
Fairness ==
    /\ \A p \in Procs : WF_controlVars(Starting(p))
    /\ \A r \in Runs : WF_controlVars(Publish(r)) /\ WF_controlVars(Unclaim(r))
    /\ \A g \in Pages : WF_controlVars(Rendered(g))
    /\ \A c \in Consoles : WF_controlVars(Drain(c)) /\ SF_controlVars(Poll(c))
    /\ WF_controlVars(StartProbe) /\ WF_controlVars(StartProbed)
    /\ WF_controlVars(StartSpawn) /\ WF_controlVars(StartRecord)
ControlFairSpec == ControlSpec /\ Fairness

-----------------------------------------------------------------------------
\* Of all processes one at most is in the body of a run (README.md:38), and it
\* is the one that holds the lock.
OneRunAtATime ==
    \A p \in Procs : proc[p] \in {"locked", "working"} => lock = p

\* The dashboard has one run in flight at most: two of its processes are alive
\* together only when one of them was left without a record.
OneDashboardRun ==
    \A r, s \in Runs : r # s /\ proc[r] \in Alive /\ proc[s] \in Alive
        => ~ meta[r].there \/ ~ meta[s].there

\* A finished record holds the exit status of the process, unless its watcher
\* died with the dashboard or could not write (README.md:444, read_meta).
StatusKept ==
    \A r \in Runs : meta[r].finished =>
        /\ proc[r] = "gone"
        /\ meta[r].rc = rc[r] \/ (meta[r].rc = "none" /\ r \in unsure)

\* A tail that says "done" has delivered the whole log of a process that is dead.
DoneMeansAll ==
    \A c \in Consoles : console[c].at = "done" =>
        proc[console[c].run] = "gone" /\ console[c].pos = log[console[c].run]

\* Every tail comes to its end, or dies with the dashboard, unless its run hangs in
\* its body or its dead run's pid reads alive for ever: neither a lost watcher nor a
\* restart, a failed write or another start keeps it waiting.
TailEnds ==
    \A c \in Consoles :
        \/ console[c].at = "drain" ~> console[c].at \in {"done", "closed"}
        \/ <>[](\E r \in Runs : console[c].run = r /\ (proc[r] = "working" \/ r \in undead))

\* What README.md:38 promises of the lock: the fleet is never worked on by two.
NeverTogether ==
    Cardinality({p \in Procs : proc[p] = "working" \/ (p \in leak /\ proc[p] \in Alive)}) <= 1

\* What probe_lock says of itself ("without taking it") and cli.run_locked prints:
\* a run is refused only because another run is active.
RefusedByARun == \A p \in Procs : rc[p] # "probed"
=============================================================================
