------------------------- MODULE RunControl_proofs -------------------------
(***************************************************************************)
(* Theorems about RunControl, for any number of runs, pages and tails, and *)
(* of kills and restarts; and, after them, about RunRecords, for any       *)
(* threshold and any number of jobs and faults.                            *)
(***************************************************************************)
EXTENDS RunControl, RunRecords, FiniteSetTheorems, SequenceTheorems, TLAPS


(***************************************************************************)
(* Types, one part for each actor.                                         *)
(***************************************************************************)
ProcTypes ==
    /\ proc \in [Procs -> Alive \cup {"none", "gone"}] /\ leak \subseteq Clis
    /\ rc \in [Procs -> Statuses]
    /\ lock \in Holders /\ payload \in Procs \cup {Nobody}
    /\ log \in [Runs -> 0..MaxLines]
    /\ mishaps \in 0..MaxMishaps

StarterTypes ==
    /\ mutex \in {Nobody, "start"}
    /\ starter \in [step : {"idle", "probe", "unlock", "spawn", "record"}, run : Runs \cup {Nobody}]
    /\ (starter.step = "idle") = (mutex = Nobody)
    /\ starter.step # "idle" => starter.run \in Runs

RecordTypes ==
    /\ meta \in [Runs -> [finished : BOOLEAN, rc : Statuses, there : BOOLEAN]]
    /\ watcher \subseteq watched /\ watched \cup undead \cup unsure \subseteq Runs

Tails == [run : Runs \cup {Nobody}, at : {"closed", "drain", "check", "done"}, ended : BOOLEAN,
          pos : 0..MaxLines]

ConsoleTypes ==
    /\ console \in [Consoles -> Tails]
    /\ \A c \in Consoles : console[c].at # "closed" => console[c].run \in Runs

Types == ProcTypes /\ StarterTypes /\ RecordTypes /\ ConsoleTypes

\* Reading a record changes nothing but a missing end.
LEMMA SeenType ==
    ASSUME ProcTypes, RecordTypes, NEW r \in Runs
    PROVE  /\ Seen(r) \in [finished : BOOLEAN, rc : Statuses, there : BOOLEAN]
           /\ Seen(r).there = meta[r].there
           /\ meta[r].finished => Seen(r).finished
           /\ Seen(r).finished => meta[r].finished \/ proc[r] = "gone"
  <1>1. Orphan(r) => proc[r] = "gone"
    BY DEF Orphan, PidAlive, ProcTypes, Procs
  <1> QED
    BY <1>1 DEF RecordTypes, Seen, Orphan

LEMMA ProcTypesKept == Types /\ [ControlNext]_controlVars => ProcTypes'
  <1> SUFFICES ASSUME Types, [ControlNext]_controlVars PROVE ProcTypes'
    OBVIOUS
  <1> USE ControlAssumption DEF Types, ProcTypes, StarterTypes, Procs, Holders, Alive, Statuses
  <1>1. ASSUME NEW p \in Procs, Launch(p) PROVE ProcTypes'
    BY <1>1 DEF Launch, ProcStep, webVars
  <1>2. ASSUME NEW p \in Procs, TakeLock(p) PROVE ProcTypes'
    BY <1>2 DEF TakeLock, ProcStep, webVars
  <1>3. ASSUME NEW p \in Procs, Announce(p) PROVE ProcTypes'
    BY <1>3 DEF Announce, ProcStep, webVars
  <1>4. ASSUME NEW p \in Procs, WorkerEnds(p) PROVE ProcTypes'
    BY <1>4 DEF WorkerEnds, ProcStep, webVars
  <1>5. ASSUME NEW p \in Procs, Release(p) PROVE ProcTypes'
    BY <1>5 DEF Release, ProcStep, webVars
  <1>6. ASSUME NEW p \in Procs, Interrupt(p) PROVE ProcTypes'
    BY <1>6 DEF Interrupt, ProcStep, webVars
  <1>7. ASSUME NEW p \in Procs, Kill(p) PROVE ProcTypes'
    BY <1>7 DEF Kill
  <1>8. ASSUME NEW r \in Runs, Write(r) PROVE ProcTypes'
    BY <1>8 DEF Write, ProcStep, webVars
  <1>9. ASSUME NEW r \in Runs, Publish(r) PROVE ProcTypes'
    BY <1>9 DEF Publish, procVars
  <1>10. ASSUME NEW r \in Runs, Unclaim(r) PROVE ProcTypes'
    BY <1>10 DEF Unclaim, procVars
  <1>11. ASSUME NEW g \in Pages, Look(g) \/ Rendered(g) PROVE ProcTypes'
    BY <1>11 DEF Look, Rendered, ProbeTakes, ProbeReturns, ProcStep, webVars
  <1>12. ASSUME NEW c \in Consoles, OpenTail(c) \/ Drain(c) \/ Poll(c) PROVE ProcTypes'
    BY <1>12 DEF OpenTail, Drain, Poll, ReadRecord, procVars
  <1>13. CASE StartCheck
    BY <1>13 DEF StartCheck, procVars
  <1>14. CASE StartProbe
    BY <1>14 DEF StartProbe, ProbeTakes, procVars
  <1>15. CASE StartProbed
    BY <1>15 DEF StartProbed, ProbeReturns, procVars
  <1>16. CASE StartSpawn
    BY <1>16 DEF StartSpawn
  <1>17. CASE StartRecord
    BY <1>17 DEF StartRecord, procVars
  <1>18. CASE ListRuns
    BY <1>18 DEF ListRuns, procVars
  <1>19. CASE Restart
    BY <1>19 DEF Restart
  <1>20. CASE AllEnded \/ UNCHANGED controlVars
    BY <1>20 DEF AllEnded, controlVars, procVars
  <1>21. ASSUME NEW r \in Runs, PidLingers(r) \/ PidFreed(r) PROVE ProcTypes'
    BY <1>21 DEF PidLingers, PidFreed, procVars
  <1> QED
    BY <1>1, <1>2, <1>3, <1>4, <1>5, <1>6, <1>7, <1>8, <1>9, <1>10, <1>11, <1>12, <1>13,
       <1>14, <1>15, <1>16, <1>17, <1>18, <1>19, <1>20, <1>21 DEF ControlNext, Running, Starting

\* What processes do changes neither the dashboard nor its tails.
LEMMA ProcessSteps ==
    ASSUME NEW p \in Procs, Launch(p) \/ Running(p) \/ Interrupt(p) \/ Kill(p)
    PROVE  UNCHANGED <<webVars, console>>
  BY DEF Launch, Running, Starting, TakeLock, Announce, WorkerEnds, Release, Interrupt, Kill, ProcStep

\* Who has the pid of a dead run matters to nothing else.
LEMMA PidSteps ==
    ASSUME NEW r \in Runs, PidLingers(r) \/ PidFreed(r)
    PROVE  UNCHANGED <<procVars, mutex, starter, meta, watched, watcher, unsure, console>>
  BY DEF PidLingers, PidFreed

LEMMA StarterTypesKept == Types /\ [ControlNext]_controlVars => StarterTypes'
  <1> SUFFICES ASSUME Types, [ControlNext]_controlVars PROVE StarterTypes'
    OBVIOUS
  <1> USE ControlAssumption DEF Types, StarterTypes
  <1>1. ASSUME NEW p \in Procs, Launch(p) \/ Running(p) \/ Interrupt(p) \/ Kill(p)
        PROVE  StarterTypes'
    BY <1>1, ProcessSteps DEF webVars
  <1>2. ASSUME NEW r \in Runs, Write(r) \/ Publish(r) \/ Unclaim(r) PROVE StarterTypes'
    BY <1>2 DEF Write, Publish, Unclaim, ProcStep, webVars
  <1>3. ASSUME NEW g \in Pages, Look(g) \/ Rendered(g) PROVE StarterTypes'
    BY <1>3 DEF Look, Rendered, ProcStep, webVars
  <1>4. ASSUME NEW c \in Consoles, OpenTail(c) \/ Drain(c) \/ Poll(c) PROVE StarterTypes'
    BY <1>4 DEF OpenTail, Drain, Poll, ReadRecord, webVars
  <1>5. CASE StartCheck
    BY <1>5 DEF StartCheck
  <1>6. CASE StartProbe
    BY <1>6 DEF StartProbe, Refuse, Proceed
  <1>7. CASE StartProbed \/ StartSpawn
    BY <1>7 DEF StartProbed, StartSpawn, Proceed
  <1>8. CASE StartRecord \/ Restart
    BY <1>8 DEF StartRecord, Restart, Refuse
  <1>9. CASE ListRuns \/ AllEnded \/ UNCHANGED controlVars
    BY <1>9 DEF ListRuns, AllEnded, controlVars, webVars
  <1>10. ASSUME NEW r \in Runs, PidLingers(r) \/ PidFreed(r) PROVE StarterTypes'
    BY <1>10, PidSteps
  <1> QED
    BY <1>1, <1>2, <1>3, <1>4, <1>5, <1>6, <1>7, <1>8, <1>9, <1>10 DEF ControlNext

LEMMA RecordTypesKept == Types /\ [ControlNext]_controlVars => RecordTypes'
  <1> SUFFICES ASSUME Types, [ControlNext]_controlVars PROVE RecordTypes'
    OBVIOUS
  <1> USE ControlAssumption DEF Types, RecordTypes
  <1>1. ASSUME NEW p \in Procs, Launch(p) \/ Running(p) \/ Interrupt(p) \/ Kill(p)
        PROVE  RecordTypes'
    BY <1>1, ProcessSteps DEF webVars
  <1>2. ASSUME NEW r \in Runs, Write(r) \/ Unclaim(r) PROVE RecordTypes'
    BY <1>2 DEF Write, Unclaim, ProcStep, TailsKept, webVars
  <1>3. ASSUME NEW r \in Runs, Publish(r) PROVE RecordTypes'
    <2> DEFINE ended == [meta[r] EXCEPT !.finished = TRUE, !.rc = rc[r]]
    <2>1. r \in Runs /\ rc[r] \in Statuses
      BY <1>3 DEF Publish, ProcTypes, Procs
    <2>2. ended \in [finished : BOOLEAN, rc : Statuses, there : BOOLEAN]
      BY <2>1
    <2>3. meta' = [meta EXCEPT ![r] = ended] \/ meta' = meta
      BY <1>3 DEF Publish
    <2>4. /\ watched' = watched /\ watcher' = watcher \ {r} /\ unsure' \subseteq unsure \cup {r}
          /\ undead' = undead
      BY <1>3 DEF Publish, TailsKept
    <2> HIDE DEF ended
    <2> QED
      BY <2>1, <2>2, <2>3, <2>4
  <1>4. ASSUME NEW g \in Pages, Look(g) \/ Rendered(g) PROVE RecordTypes'
    BY <1>4 DEF Look, Rendered, ProcStep, webVars
  <1>5. ASSUME NEW c \in Consoles, NEW r \in Runs, ReadRecord(c, r) PROVE RecordTypes'
    BY <1>5, SeenType DEF ReadRecord
  <1>6. ASSUME NEW c \in Consoles, OpenTail(c) \/ Drain(c) PROVE RecordTypes'
    BY <1>6, <1>5 DEF OpenTail, Drain, webVars
  <1>7. ASSUME NEW c \in Consoles, Poll(c) PROVE RecordTypes'
    <2>1. console[c].run \in Runs
      BY <1>7 DEF Poll, ConsoleTypes
    <2> QED
      BY <1>7, <1>5, <2>1 DEF Poll, webVars
  <1>8. CASE StartCheck \/ ListRuns
    BY <1>8, SeenType DEF StartCheck, ListRuns, ReadAll, TailsKept
  <1>9. CASE StartProbe \/ StartProbed \/ StartSpawn
    BY <1>9 DEF StartProbe, StartProbed, StartSpawn, TailsKept
  <1>10. CASE StartRecord
    <2>1. starter.run \in Runs
      BY <1>10 DEF StartRecord, StarterTypes
    <2>2. New \in [Runs -> [finished : BOOLEAN, rc : Statuses, there : BOOLEAN]]
      BY <2>1, ZenonT(60) DEF New
    <2> QED
      BY <1>10, <2>1, <2>2 DEF StartRecord, TailsKept
  <1>11. CASE Restart
    BY <1>11 DEF Restart
  <1>12. CASE AllEnded \/ UNCHANGED controlVars
    BY <1>12 DEF AllEnded, controlVars, webVars
  <1>13. ASSUME NEW r \in Runs, PidLingers(r) \/ PidFreed(r) PROVE RecordTypes'
    BY <1>13 DEF PidLingers, PidFreed
  <1> QED
    BY <1>1, <1>2, <1>3, <1>4, <1>6, <1>7, <1>8, <1>9, <1>10, <1>11, <1>12, <1>13 DEF ControlNext

\* What a tail may do: open or read on, drain, or come to its end.
LEMMA TailSteps ==
    ASSUME Types, NEW c \in Consoles, OpenTail(c) \/ Drain(c) \/ Poll(c)
    PROVE  \/ \E r \in Runs : ReadRecord(c, r)
           \/ Drain(c) /\ console[c].run \in Runs
           \/ /\ console[c].at = "check" /\ console[c].ended
              /\ console' = [console EXCEPT ![c].at = "done"]
              /\ UNCHANGED <<procVars, webVars>>
  BY DEF OpenTail, Drain, Poll, Types, ConsoleTypes

LEMMA TailMoves ==
    ASSUME ConsoleTypes, NEW c \in Consoles, NEW t \in Tails, t.run \in Runs,
           console' = [console EXCEPT ![c] = t]
    PROVE  ConsoleTypes'
  BY DEF ConsoleTypes

LEMMA ConsoleTypesKept == Types /\ [ControlNext]_controlVars => ConsoleTypes'
  <1> SUFFICES ASSUME Types, [ControlNext]_controlVars PROVE ConsoleTypes'
    OBVIOUS
  <1> USE ControlAssumption DEF ConsoleTypes
  <1>1. ASSUME UNCHANGED console PROVE ConsoleTypes'
    BY <1>1 DEF Types
  <1>2. ASSUME NEW c \in Consoles, NEW r \in Runs, ReadRecord(c, r) PROVE ConsoleTypes'
    <2> DEFINE t == [console[c] EXCEPT !.run = r, !.at = "drain", !.ended = Seen(r).finished]
    <2>1. Seen(r).finished \in BOOLEAN /\ console[c] \in Tails
      BY SeenType DEF Types
    <2>2. t \in Tails /\ t.run \in Runs
      BY <2>1 DEF Tails
    <2>3. console' = [console EXCEPT ![c] = t]
      BY <1>2 DEF ReadRecord
    <2> QED
      BY <2>2, <2>3, TailMoves DEF Types
  <1>3. ASSUME NEW c \in Consoles, Drain(c), console[c].run \in Runs PROVE ConsoleTypes'
    <2> DEFINE t == [console[c] EXCEPT !.pos = log[console[c].run], !.at = "check"]
    <2>1. log[console[c].run] \in 0..MaxLines /\ console[c] \in Tails
      BY <1>3 DEF Types, ProcTypes
    <2>2. t \in Tails /\ t.run \in Runs
      BY <1>3, <2>1 DEF Tails
    <2>3. console' = [console EXCEPT ![c] = t]
      BY <1>3 DEF Drain
    <2> QED
      BY <2>2, <2>3, TailMoves DEF Types
  <1>4. ASSUME NEW c \in Consoles, OpenTail(c) \/ Drain(c) \/ Poll(c) PROVE ConsoleTypes'
    BY <1>2, <1>3, <1>4, TailSteps DEF Types, Tails
  <1>5. CASE Restart
    BY <1>5 DEF Restart, Tails, NoTail, Types
  <1>6. ASSUME NEW p \in Procs, Launch(p) \/ Running(p) \/ Interrupt(p) \/ Kill(p)
        PROVE  UNCHANGED console
    BY <1>6, ProcessSteps
  <1>7. ASSUME NEW r \in Runs, Write(r) \/ Publish(r) \/ Unclaim(r) PROVE UNCHANGED console
    BY <1>7 DEF Write, Publish, Unclaim, ProcStep, TailsKept
  <1>8. ASSUME NEW g \in Pages, Look(g) \/ Rendered(g) PROVE UNCHANGED console
    BY <1>8 DEF Look, Rendered, ProcStep
  <1>9. ASSUME StartCheck \/ StartProbe \/ StartProbed \/ StartSpawn \/ StartRecord
        PROVE  UNCHANGED console
    BY <1>9 DEF StartCheck, StartProbe, StartProbed, StartSpawn, StartRecord, TailsKept
  <1>10. ASSUME ListRuns \/ AllEnded \/ UNCHANGED controlVars PROVE UNCHANGED console
    BY <1>10 DEF ListRuns, AllEnded, controlVars
  <1>11. ASSUME NEW r \in Runs, PidLingers(r) \/ PidFreed(r) PROVE UNCHANGED console
    BY <1>11, PidSteps
  <1> QED
    BY <1>1, <1>4, <1>5, <1>6, <1>7, <1>8, <1>9, <1>10, <1>11 DEF ControlNext

LEMMA TypesInit == ControlInit => Types
  BY ControlAssumption
  DEF ControlInit, Types, ProcTypes, StarterTypes, RecordTypes, ConsoleTypes, Tails, Procs, Holders, Statuses,
      NoRecord, NoTail

LEMMA TypesKept == Types /\ [ControlNext]_controlVars => Types'
  BY ProcTypesKept, StarterTypesKept, RecordTypesKept, ConsoleTypesKept DEF Types

\* Processes, lock, records, starter and tails keep their types in every behaviour.
THEOREM TypeCorrect == ControlSpec => []ControlTypeOK
  <1>1. Types => ControlTypeOK
    BY DEF Types, ProcTypes, StarterTypes, RecordTypes, ConsoleTypes, Tails, ControlTypeOK
  <1> QED
    BY <1>1, TypesInit, TypesKept, PTL DEF ControlSpec

(***************************************************************************)
(* The lock excludes.                                                      *)
(***************************************************************************)
LEMMA OneRunKept == Types /\ OneRunAtATime /\ [ControlNext]_controlVars => OneRunAtATime'
  <1> SUFFICES ASSUME Types, OneRunAtATime, [ControlNext]_controlVars PROVE OneRunAtATime'
    OBVIOUS
  <1> USE ControlAssumption DEF OneRunAtATime, Procs, Types, ProcTypes
  <1>1. ASSUME NEW p \in Procs, Launch(p) PROVE OneRunAtATime'
    BY <1>1 DEF Launch
  \* The lock was free, so nobody else is in the body.
  <1>2. ASSUME NEW p \in Procs, TakeLock(p) PROVE OneRunAtATime'
    BY <1>2 DEF TakeLock
  <1>3. ASSUME NEW p \in Procs, Announce(p) PROVE OneRunAtATime'
    BY <1>3 DEF Announce
  <1>4. ASSUME NEW p \in Procs, WorkerEnds(p) PROVE OneRunAtATime'
    BY <1>4 DEF WorkerEnds
  \* Only the holder gives the lock back, and only its own death frees it.
  <1>5. ASSUME NEW p \in Procs, Release(p) PROVE OneRunAtATime'
    BY <1>5 DEF Release
  <1>6. ASSUME NEW p \in Procs, Kill(p) PROVE OneRunAtATime'
    BY <1>6 DEF Kill
  <1>7. ASSUME NEW p \in Procs, Interrupt(p) PROVE OneRunAtATime'
    BY <1>7 DEF Interrupt
  <1>8. ASSUME NEW r \in Runs, Write(r) \/ Publish(r) \/ Unclaim(r) PROVE OneRunAtATime'
    BY <1>8 DEF Write, Publish, Unclaim, procVars
  \* A probe takes a free lock only, and is no process of a run.
  <1>9. ASSUME NEW g \in Pages, Look(g) \/ Rendered(g) PROVE OneRunAtATime'
    BY <1>9 DEF Look, Rendered, ProbeTakes, ProbeReturns
  <1>10. ASSUME NEW c \in Consoles, OpenTail(c) \/ Drain(c) \/ Poll(c) PROVE OneRunAtATime'
    BY <1>10 DEF OpenTail, Drain, Poll, ReadRecord, procVars
  <1>11. CASE StartProbe \/ StartProbed
    BY <1>11 DEF StartProbe, StartProbed, ProbeTakes, ProbeReturns, procVars
  <1>12. CASE StartSpawn
    BY <1>12 DEF StartSpawn
  <1>13. CASE Restart
    BY <1>13 DEF Restart
  <1>14. CASE StartCheck \/ StartRecord \/ ListRuns \/ AllEnded \/ UNCHANGED controlVars
    BY <1>14 DEF StartCheck, StartRecord, ListRuns, AllEnded, controlVars, procVars
  <1>15. ASSUME NEW r \in Runs, PidLingers(r) \/ PidFreed(r) PROVE OneRunAtATime'
    BY <1>15, PidSteps DEF procVars
  <1> QED
    BY <1>1, <1>2, <1>3, <1>4, <1>5, <1>6, <1>7, <1>8, <1>9, <1>10, <1>11, <1>12, <1>13,
       <1>14, <1>15 DEF ControlNext, Running, Starting

\* Whatever processes, probes, kills and restarts do, one process at most is in the body
\* of a run, and it holds the lock (lock.run_lock, cli.run_locked).
THEOREM AlwaysOneRunAtATime == ControlSpec => []OneRunAtATime
  <1>1. ControlInit => OneRunAtATime
    BY DEF ControlInit, OneRunAtATime
  <1> QED
    BY <1>1, TypesInit, TypesKept, OneRunKept, PTL DEF ControlSpec

(***************************************************************************)
(* What records and tails say of a run.                                    *)
(***************************************************************************)
\* A run that start() is about to spawn has no process yet, and no record.
NotYetSpawned ==
    starter.step \in {"probe", "unlock", "spawn"} => proc[starter.run] = "none"

\* Only what has ended is called finished.
FinishedMeansGone == \A r \in Runs : meta[r].finished => proc[r] = "gone"

\* What a tail knows at each of its steps.
TailKnows(c) ==
    LET t == console[c] IN
    /\ t.ended /\ t.at # "closed" => proc[t.run] = "gone"
    /\ (t.ended /\ t.at = "check") \/ t.at = "done" => t.ended /\ t.pos = log[t.run]

RecordsTrue == NotYetSpawned /\ FinishedMeansGone /\ \A c \in Consoles : TailKnows(c)

\* The dead stay dead and write nothing: a spawned run was not there before.
LEMMA GoneForGood ==
    ASSUME Types, NotYetSpawned, ControlNext, NEW r \in Runs, proc[r] = "gone"
    PROVE  proc'[r] = "gone" /\ log'[r] = log[r]
  <1> USE ControlAssumption DEF Types, ProcTypes, Procs, Alive
  <1>1. ASSUME NEW p \in Procs, Launch(p) PROVE proc'[r] = "gone" /\ log'[r] = log[r]
    BY <1>1 DEF Launch
  <1>2. ASSUME NEW p \in Procs, TakeLock(p) \/ Announce(p) \/ WorkerEnds(p)
        PROVE  proc'[r] = "gone" /\ log'[r] = log[r]
    BY <1>2 DEF TakeLock, Announce, WorkerEnds
  <1>3. ASSUME NEW p \in Procs, Release(p) \/ Kill(p) \/ Interrupt(p)
        PROVE  proc'[r] = "gone" /\ log'[r] = log[r]
    BY <1>3 DEF Release, Kill, Interrupt
  <1>4. ASSUME NEW s \in Runs, Write(s) PROVE proc'[r] = "gone" /\ log'[r] = log[r]
    BY <1>4 DEF Write
  <1>5. CASE StartSpawn
    BY <1>5 DEF StartSpawn, NotYetSpawned, StarterTypes
  <1>6. CASE Restart \/ ListRuns \/ AllEnded
    BY <1>6 DEF Restart, ListRuns, AllEnded, controlVars, procVars
  <1>7. CASE StartCheck \/ StartProbe \/ StartProbed \/ StartRecord
    BY <1>7 DEF StartCheck, StartProbe, StartProbed, StartRecord, ProbeTakes, ProbeReturns, procVars
  <1>8. ASSUME NEW s \in Runs, Publish(s) \/ Unclaim(s) PROVE proc'[r] = "gone" /\ log'[r] = log[r]
    BY <1>8 DEF Publish, Unclaim, procVars
  <1>9. ASSUME NEW g \in Pages, Look(g) \/ Rendered(g) PROVE proc'[r] = "gone" /\ log'[r] = log[r]
    BY <1>9 DEF Look, Rendered, ProbeTakes, ProbeReturns
  <1>10. ASSUME NEW c \in Consoles, OpenTail(c) \/ Drain(c) \/ Poll(c)
         PROVE  proc'[r] = "gone" /\ log'[r] = log[r]
    BY <1>10 DEF OpenTail, Drain, Poll, ReadRecord, procVars
  <1>11. ASSUME NEW s \in Runs, PidLingers(s) \/ PidFreed(s) PROVE proc'[r] = "gone" /\ log'[r] = log[r]
    BY <1>11, PidSteps DEF procVars
  <1> QED
    BY <1>1, <1>2, <1>3, <1>4, <1>5, <1>6, <1>7, <1>8, <1>9, <1>10, <1>11
    DEF ControlNext, Running, Starting

LEMMA NotYetSpawnedKept == Types /\ NotYetSpawned /\ [ControlNext]_controlVars => NotYetSpawned'
  <1> SUFFICES ASSUME Types, NotYetSpawned, [ControlNext]_controlVars PROVE NotYetSpawned'
    OBVIOUS
  <1> USE ControlAssumption DEF NotYetSpawned, Types, ProcTypes, StarterTypes, Procs, Alive
  <1>1. ASSUME NEW p \in Procs, Launch(p) PROVE NotYetSpawned'
    BY <1>1 DEF Launch, ProcStep, webVars
  <1>2. ASSUME NEW p \in Procs, Running(p) \/ Interrupt(p) \/ Kill(p) PROVE NotYetSpawned'
    <2>1. UNCHANGED starter
      BY <1>2, ProcessSteps DEF webVars
    <2>2. ASSUME starter.step \in {"probe", "unlock", "spawn"}, proc[starter.run] = "none"
          PROVE  proc'[starter.run] = "none"
      BY <1>2, <2>2 DEF Running, Starting, TakeLock, Announce, WorkerEnds, Release, Interrupt, Kill
    <2> QED
      BY <2>1, <2>2
  <1>3. ASSUME NEW r \in Runs, Write(r) \/ Publish(r) \/ Unclaim(r) PROVE NotYetSpawned'
    BY <1>3 DEF Write, Publish, Unclaim, ProcStep, webVars, procVars
  <1>4. ASSUME NEW g \in Pages, Look(g) \/ Rendered(g) PROVE NotYetSpawned'
    BY <1>4 DEF Look, Rendered, ProbeTakes, ProbeReturns, ProcStep, webVars
  <1>5. ASSUME NEW c \in Consoles, OpenTail(c) \/ Drain(c) \/ Poll(c) PROVE NotYetSpawned'
    BY <1>5 DEF OpenTail, Drain, Poll, ReadRecord, webVars, procVars
  <1>6. CASE StartCheck
    BY <1>6 DEF StartCheck, procVars
  <1>7. CASE StartProbe \/ StartProbed
    BY <1>7 DEF StartProbe, StartProbed, ProbeTakes, ProbeReturns, Refuse, Proceed, procVars
  <1>8. CASE StartSpawn \/ StartRecord \/ Restart
    BY <1>8 DEF StartSpawn, StartRecord, Restart, Refuse, Proceed
  <1>9. CASE ListRuns \/ AllEnded \/ UNCHANGED controlVars
    BY <1>9 DEF ListRuns, AllEnded, controlVars, webVars, procVars
  <1>10. ASSUME NEW r \in Runs, PidLingers(r) \/ PidFreed(r) PROVE NotYetSpawned'
    BY <1>10, PidSteps DEF procVars
  <1> QED
    BY <1>1, <1>2, <1>3, <1>4, <1>5, <1>6, <1>7, <1>8, <1>9, <1>10 DEF ControlNext

\* What a step may do to a record: close it when the process is gone; the record of the
\* run that start() has spawned appears open.
LEMMA RecordSteps ==
    ASSUME Types, ControlNext, NEW r \in Runs
    PROVE  /\ meta'[r].finished => meta[r].finished \/ proc[r] = "gone"
           /\ meta[r].finished => meta'[r].finished
           /\ meta'[r].there => meta[r].there \/ (StartRecord /\ r = starter.run)
  <1> DEFINE Goal == /\ meta'[r].finished => meta[r].finished \/ proc[r] = "gone"
                     /\ meta[r].finished => meta'[r].finished
                     /\ meta'[r].there => meta[r].there \/ (StartRecord /\ r = starter.run)
  <1> SUFFICES Goal
    OBVIOUS
  <1> USE DEF Types, RecordTypes
  <1>1. ASSUME UNCHANGED meta PROVE Goal
    BY <1>1
  <1>2. ASSUME meta' = [x \in Runs |-> Seen(x)] PROVE Goal
    BY <1>2, SeenType
  <1>3. ASSUME NEW c \in Consoles, OpenTail(c) \/ Drain(c) \/ Poll(c) PROVE Goal
    <2>1. meta' = meta \/ \E s \in Runs : meta' = [meta EXCEPT ![s] = Seen(s)]
      BY <1>3, TailSteps DEF ReadRecord, Drain, webVars
    <2> QED
      BY <2>1, SeenType
  <1>4. ASSUME NEW s \in Runs, Publish(s) PROVE Goal
    BY <1>4 DEF Publish
  <1>5. CASE StartRecord
    BY <1>5 DEF StartRecord, New, StarterTypes
  <1>6. CASE StartCheck \/ ListRuns
    BY <1>2, <1>6 DEF StartCheck, ListRuns, ReadAll
  <1>7. ASSUME NEW s \in Runs, Write(s) \/ Unclaim(s) PROVE Goal
    BY <1>1, <1>7 DEF Write, Unclaim, ProcStep, webVars
  <1>8. ASSUME NEW g \in Pages, Look(g) \/ Rendered(g) PROVE Goal
    BY <1>1, <1>8 DEF Look, Rendered, ProcStep, webVars
  <1>9. ASSUME NEW p \in Procs, Launch(p) \/ Running(p) \/ Interrupt(p) \/ Kill(p) PROVE Goal
    BY <1>1, <1>9, ProcessSteps DEF webVars
  <1>10. CASE StartProbe \/ StartProbed \/ StartSpawn \/ Restart \/ AllEnded
    BY <1>1, <1>10 DEF StartProbe, StartProbed, StartSpawn, Restart, AllEnded, controlVars, webVars
  <1>11. ASSUME NEW s \in Runs, PidLingers(s) \/ PidFreed(s) PROVE Goal
    BY <1>1, <1>11, PidSteps
  <1> QED
    BY <1>3, <1>4, <1>5, <1>6, <1>7, <1>8, <1>9, <1>10, <1>11 DEF ControlNext

LEMMA FinishedMeansGoneKept ==
    Types /\ NotYetSpawned /\ FinishedMeansGone /\ [ControlNext]_controlVars => FinishedMeansGone'
  <1> SUFFICES ASSUME Types, NotYetSpawned, FinishedMeansGone, [ControlNext]_controlVars,
                      NEW r \in Runs, meta'[r].finished
               PROVE  proc'[r] = "gone"
    BY DEF FinishedMeansGone
  <1>1. CASE ControlNext
    BY <1>1, RecordSteps, GoneForGood DEF FinishedMeansGone
  <1>2. CASE UNCHANGED controlVars
    BY <1>2 DEF controlVars, webVars, procVars, FinishedMeansGone
  <1> QED
    BY <1>1, <1>2

\* A tail believes an end only from a record that has one; what it drains after that
\* is all there will ever be.
LEMMA TailKnowsKept ==
    ASSUME Types, NotYetSpawned, FinishedMeansGone, [ControlNext]_controlVars, NEW c \in Consoles, TailKnows(c)
    PROVE  TailKnows(c)'
  <1> USE DEF Types, ConsoleTypes
  <1>1. ASSUME ControlNext, console'[c] = console[c] PROVE TailKnows(c)'
    <2>1. CASE console[c].at = "closed"
      BY <1>1, <2>1 DEF TailKnows
    <2>2. CASE console[c].at # "closed"
      <3>1. console[c].run \in Runs
        BY <2>2
      <3>2. proc[console[c].run] = "gone" =>
              proc'[console[c].run] = "gone" /\ log'[console[c].run] = log[console[c].run]
        BY <1>1, <3>1, GoneForGood
      <3> QED
        BY <1>1, <2>2, <3>2 DEF TailKnows
    <2> QED
      BY <2>1, <2>2
  <1>2. ASSUME NEW d \in Consoles, OpenTail(d) \/ Drain(d) \/ Poll(d) PROVE TailKnows(c)'
    <2>1. ASSUME NEW r \in Runs, ReadRecord(d, r), c = d PROVE TailKnows(c)'
      <3>1. /\ console'[c].run = r /\ console'[c].at = "drain"
            /\ console'[c].ended = Seen(r).finished /\ proc' = proc
        BY <2>1 DEF ReadRecord, procVars
      <3>2. Seen(r).finished => proc[r] = "gone"
        BY SeenType DEF FinishedMeansGone
      <3> QED
        BY <3>1, <3>2 DEF TailKnows
    <2>2. ASSUME Drain(d), console[d].run \in Runs, c = d PROVE TailKnows(c)'
      BY <2>2 DEF Drain, procVars, TailKnows
    <2>3. ASSUME console[d].at = "check", console[d].ended, c = d,
                 console' = [console EXCEPT ![d].at = "done"], UNCHANGED <<procVars, webVars>>
          PROVE  TailKnows(c)'
      BY <2>3 DEF procVars, TailKnows
    <2>4. CASE c # d
      <3>1. console'[c] = console[c]
        BY <1>2, <2>4, TailSteps DEF ReadRecord, Drain
      <3>2. ControlNext
        BY <1>2 DEF ControlNext
      <3> QED
        BY <1>1, <3>1, <3>2
    <2> QED
      BY <1>2, <2>1, <2>2, <2>3, <2>4, TailSteps
  <1>3. CASE Restart
    BY <1>3 DEF Restart, NoTail, TailKnows
  <1>4. CASE UNCHANGED controlVars
    BY <1>4 DEF controlVars, procVars, TailKnows
  <1>5. ASSUME ControlNext, ~ Restart, \A d \in Consoles : ~ (OpenTail(d) \/ Drain(d) \/ Poll(d))
        PROVE  UNCHANGED console
    BY <1>5, ProcessSteps, PidSteps
    DEF ControlNext, Write, Publish, Unclaim, Look, Rendered, StartCheck, StartProbe, StartProbed, StartSpawn,
        StartRecord, ListRuns, AllEnded, ProcStep, TailsKept, controlVars
  <1> QED
    BY <1>1, <1>2, <1>3, <1>4, <1>5

\* The records without an end: one at most, and none while start() is on its way to
\* making one.
OneInFlight ==
    /\ \A r, s \in Runs : r # s => ~ (r \in InFlight(meta) /\ s \in InFlight(meta))
    /\ starter.step # "idle" => InFlight(meta) = {}

LEMMA OneInFlightKept == Types /\ OneInFlight /\ [ControlNext]_controlVars => OneInFlight'
  <1> SUFFICES ASSUME Types, OneInFlight, [ControlNext]_controlVars PROVE OneInFlight'
    OBVIOUS
  <1> USE DEF OneInFlight, InFlight
  <1>1. CASE StartRecord
    <2>1. InFlight(meta) = {} /\ starter'.step = "idle"
      BY <1>1 DEF StartRecord, Refuse, Types, StarterTypes
    <2>2. \A r \in Runs : r \in InFlight(meta)' => r = starter.run
      BY <1>1, <2>1, RecordSteps DEF ControlNext
    <2> QED
      BY <2>1, <2>2
  <1>2. CASE StartCheck
    BY <1>2 DEF StartCheck
  <1>3. ASSUME ControlNext, ~ StartRecord, ~ StartCheck PROVE OneInFlight'
    <2>1. \A r \in Runs : r \in InFlight(meta)' => r \in InFlight(meta)
      BY <1>3, RecordSteps
    <2>2. starter'.step # "idle" => starter.step # "idle"
      <3>1. ASSUME NEW p \in Procs, Launch(p) \/ Running(p) \/ Interrupt(p) \/ Kill(p)
            PROVE  starter' = starter
        BY <3>1, ProcessSteps DEF webVars
      <3>2. ASSUME NEW r \in Runs, Write(r) \/ Publish(r) \/ Unclaim(r) PROVE starter' = starter
        BY <3>2 DEF Write, Publish, Unclaim, ProcStep, webVars
      <3>3. ASSUME NEW g \in Pages, Look(g) \/ Rendered(g) PROVE starter' = starter
        BY <3>3 DEF Look, Rendered, ProcStep, webVars
      <3>4. ASSUME NEW c \in Consoles, OpenTail(c) \/ Drain(c) \/ Poll(c) PROVE starter' = starter
        BY <3>4 DEF OpenTail, Drain, Poll, ReadRecord, webVars
      <3>5. CASE StartProbe \/ StartProbed \/ StartSpawn
        BY <3>5 DEF StartProbe, StartProbed, StartSpawn
      <3>6. CASE Restart
        BY <3>6 DEF Restart, Refuse
      <3>7. CASE ListRuns \/ AllEnded
        BY <3>7 DEF ListRuns, AllEnded, controlVars, webVars
      <3>8. ASSUME NEW r \in Runs, PidLingers(r) \/ PidFreed(r) PROVE starter' = starter
        BY <3>8, PidSteps
      <3> QED
        BY <1>3, <3>1, <3>2, <3>3, <3>4, <3>5, <3>6, <3>7, <3>8 DEF ControlNext
    <2> QED
      BY <2>1, <2>2
  <1>4. CASE UNCHANGED controlVars
    BY <1>4 DEF controlVars, webVars
  <1> QED
    BY <1>1, <1>2, <1>3, <1>4

\* The invariant behind the two theorems below.
WebInv == Types /\ RecordsTrue /\ OneInFlight

LEMMA WebInvInit == ControlInit => WebInv
  <1> SUFFICES ASSUME ControlInit PROVE RecordsTrue /\ OneInFlight
    BY TypesInit DEF WebInv
  <1>1. RecordsTrue
    BY DEF ControlInit, RecordsTrue, NotYetSpawned, FinishedMeansGone, TailKnows, NoRecord, NoTail
  <1>2. OneInFlight
    BY DEF ControlInit, OneInFlight, InFlight, NoRecord
  <1> QED
    BY <1>1, <1>2

LEMMA WebInvKept == WebInv /\ [ControlNext]_controlVars => WebInv'
  BY TypesKept, NotYetSpawnedKept, FinishedMeansGoneKept, TailKnowsKept, OneInFlightKept
  DEF WebInv, RecordsTrue

\* However the dashboard is killed and restarted and its files cannot be written: a tail
\* that says "done" has delivered the whole log of a dead process (web/runs.py stream).
THEOREM AlwaysDoneMeansAll == ControlSpec => []DoneMeansAll
  <1>1. WebInv => DoneMeansAll
    BY DEF WebInv, RecordsTrue, TailKnows, DoneMeansAll
  <1> QED
    BY <1>1, WebInvInit, WebInvKept, PTL DEF ControlSpec

\* Of the runs the dashboard has on record one is alive at most (RunManager.start).
THEOREM AlwaysOneDashboardRun == ControlSpec => []OneDashboardRun
  <1>1. WebInv => OneDashboardRun
    BY DEF WebInv, RecordsTrue, FinishedMeansGone, OneInFlight, InFlight, OneDashboardRun, Alive
  <1> QED
    BY <1>1, WebInvInit, WebInvKept, PTL DEF ControlSpec

\* A record is closed only over a dead process, whoever closes it: its watcher or a page
\* that takes it for an orphan (read_meta).
THEOREM AlwaysFinishedMeansGone == ControlSpec => []FinishedMeansGone
  <1>1. WebInv => FinishedMeansGone
    BY DEF WebInv, RecordsTrue
  <1> QED
    BY <1>1, WebInvInit, WebInvKept, PTL DEF ControlSpec

-----------------------------------------------------------------------------
(***************************************************************************)
(* RunRecords.                                                             *)
(***************************************************************************)
(***************************************************************************)
(* What is on disk and what is being written.                              *)
(***************************************************************************)
RunFile    == {Torn} \cup [n : Nat, detail : BOOLEAN]
Event      == [from : Nat, to : Nat]
LedgerText == [changed : Nat, os : Nat, events : Seq(Event)]
Folder     == [runs : Seq(RunFile), totals : [n : Nat], ledger : {Torn} \cup LedgerText]
Briefed    == {"none", "alert", "dispatch", "remember", "prune", "record"}

\* The run files of a directory that can be read (a torn one has no timestamp).
Readable(r) == {i \in DOMAIN r : r[i].n # 0}

LEMMA CountIsNat ==
    ASSUME NEW r \in Seq(RunFile)
    PROVE  IsFiniteSet(Readable(r)) /\ Cardinality(Readable(r)) \in Nat
  <1>1. Readable(r) \in SUBSET (1 .. Len(r)) /\ Len(r) \in Nat
    BY DEF Readable
  <1>2. IsFiniteSet(1 .. Len(r))
    BY <1>1, FS_Interval
  <1> QED
    BY <1>1, <1>2, FS_Subset, FS_CardinalityType

\* A file just opened is not readable.
LEMMA CountOpened ==
    ASSUME NEW r \in Seq(RunFile)
    PROVE  Readable(Append(r, Torn)) = Readable(r)
  <1>1. DOMAIN Append(r, Torn) = 1 .. Len(r) + 1 /\ DOMAIN r = 1 .. Len(r) /\ Len(r) \in Nat
    OBVIOUS
  <1>2. \A i \in 1 .. Len(r) : Append(r, Torn)[i] = r[i]
    OBVIOUS
  <1>3. Append(r, Torn)[Len(r) + 1] = Torn /\ Torn.n = 0
    BY DEF Torn
  <1> QED
    BY <1>1, <1>2, <1>3 DEF Readable

\* A file rewritten makes a difference of one at most; one that is torn is missing.
LEMMA CountRewritten ==
    ASSUME NEW r \in Seq(RunFile), NEW k \in DOMAIN r, NEW x
    PROVE  /\ Cardinality(Readable([r EXCEPT ![k] = x])) <= Cardinality(Readable(r)) + 1
           /\ x.n = 0 /\ k \in Readable(r)
                => Cardinality(Readable([r EXCEPT ![k] = x])) + 1 = Cardinality(Readable(r))
  <1> DEFINE q == [r EXCEPT ![k] = x]
  <1>1. DOMAIN q = DOMAIN r /\ q[k] = x /\ \A i \in DOMAIN r : i # k => q[i] = r[i]
    OBVIOUS
  <1>2. IsFiniteSet(Readable(r)) /\ Cardinality(Readable(r)) \in Nat
    BY CountIsNat
  <1> HIDE DEF q
  <1>3. Readable(q) \in SUBSET (Readable(r) \cup {k})
    BY <1>1 DEF Readable
  <1>4. Cardinality(Readable(q)) <= Cardinality(Readable(r)) + 1
    <2>1. /\ IsFiniteSet(Readable(r) \cup {k})
          /\ Cardinality(Readable(r) \cup {k}) \in {Cardinality(Readable(r)), Cardinality(Readable(r)) + 1}
      BY <1>2, FS_AddElement
    <2>2. Cardinality(Readable(q)) <= Cardinality(Readable(r) \cup {k}) /\ IsFiniteSet(Readable(q))
      BY <2>1, <1>3, FS_Subset
    <2>3. Cardinality(Readable(q)) \in Nat
      BY <2>2, FS_CardinalityType
    <2> QED
      BY <1>2, <2>1, <2>2, <2>3
  <1>5. ASSUME x.n = 0, k \in Readable(r) PROVE Cardinality(Readable(q)) + 1 = Cardinality(Readable(r))
    <2>1. Readable(q) = Readable(r) \ {k}
      BY <1>1, <1>5 DEF Readable
    <2>2. Cardinality(Readable(q)) = Cardinality(Readable(r)) - 1
      BY <1>2, <1>5, <2>1, FS_RemoveElement
    <2> QED
      BY <1>2, <2>2
  <1> QED
    BY <1>4, <1>5 DEF q

\* The newest files are no more than all of them.
LEMMA CountPruned ==
    ASSUME NEW r \in Seq(RunFile), NEW m \in 1 .. Len(r) + 1
    PROVE  Cardinality(Readable(SubSeq(r, m, Len(r)))) <= Cardinality(Readable(r))
  <1> DEFINE q == SubSeq(r, m, Len(r))
             f == [i \in Readable(q) |-> i + m - 1]
  <1>1. Len(r) \in Nat /\ m \in Nat /\ DOMAIN r = 1 .. Len(r)
    OBVIOUS
  <1>2. Len(q) = Len(r) - m + 1 /\ DOMAIN q = 1 .. Len(r) - m + 1
    BY <1>1
  <1>3. \A i \in DOMAIN q : q[i] = r[i + m - 1]
    BY <1>1, <1>2
  <1> HIDE DEF q
  <1>4. \A i \in Readable(q) : i \in Nat /\ i + m - 1 \in Readable(r)
    BY <1>1, <1>2, <1>3 DEF Readable
  <1>5. f \in [Readable(q) -> Readable(r)] /\ \A i, j \in Readable(q) : f[i] = f[j] => i = j
    BY <1>1, <1>4
  <1>6. f \in Injection(Readable(q), Readable(r))
    BY <1>5 DEF Injection, IsInjective
  <1>7. IsFiniteSet(Readable(r))
    BY CountIsNat
  <1> HIDE DEF f
  <1> QED
    BY <1>6, <1>7, FS_Injection DEF q
\* A set of numbers has a least one.
LEMMA HasLeast == ASSUME NEW T \in SUBSET Nat, T # {} PROVE \E x \in T : \A y \in T : x <= y
  <1> DEFINE R == {p \in Nat \X Nat : p[1] < p[2]}
  <1>1. IsWellFoundedOn(R, Nat)
    BY NatLessThanWellFounded DEF OpToRel
  <1>2. PICK x \in T : \A y \in T : ~ (<<y, x>> \in R)
    <2> HIDE DEF R
    <2> QED
      BY <1>1, WFMin
  <1>3. ASSUME NEW y \in T PROVE x <= y
    <2>1. <<y, x>> \in Nat \X Nat /\ <<y, x>>[1] = y /\ <<y, x>>[2] = x
      OBVIOUS
    <2>2. ~ (y < x)
      BY <1>2, <2>1
    <2> QED
      BY <2>2
  <1> QED
    BY <1>3

IsJob(j) == j = [kind |-> j.kind, at |-> j.at, failed |-> j.failed, applied |-> j.applied,
                 tried |-> j.tried, allow |-> j.allow, saved |-> j.saved, open |-> j.open, new |-> j.new]

JobShape ==
    /\ IsJob(job)
    /\ job.kind \in Kinds \cup {"none"} /\ job.at \in Steps \cup {"none"}
    /\ job.applied \in BOOLEAN /\ job.open \in BOOLEAN
    /\ job.applied => job.kind = "fleet"
    /\ job.kind = "scan" <=> job.at \in {"observe", "record"}
    /\ jobs \in Nat /\ faults \in Nat /\ os \in Nat \ {0}
    /\ job.at # "none" => jobs > 0
    /\ job.open => job.at \notin Briefed

StoreShape ==
    /\ files \in [Spaces -> Folder]
    /\ written \in [Spaces -> Nat]
    /\ scanned \in [os : Nat, upgrades : Seq(Event), changed : Nat]

\* What a file is being given, by the step that has it open.
NewShape ==
    job.open =>
      /\ job.at = "run" => Len(Here.runs) > 0 /\ job.new \in [n : Nat \ {0}, detail : BOOLEAN]
      /\ job.at = "totals" => job.new \in [n : Nat] /\ Here.totals = Torn
      /\ job.at \in {"ledger", "observe"} => job.new \in LedgerText /\ Here.ledger = Torn
      /\ job.at = "strip" => /\ job.new.i \in DOMAIN Here.runs /\ Here.runs[job.new.i] = Torn
                             /\ job.new.n \in Nat

(***************************************************************************)
(* Totals.                                                                 *)
(***************************************************************************)
Count(s) == Cardinality(Readable(files[s].runs))

Writing(s, step) == job.at = step /\ Directory = s

\* The runs that the totals of s can know of: not yet the one just written.
Told(s) == IF Writing(s, "totals") THEN written[s] - 1 ELSE written[s]

CountFor(s) ==
    /\ Count(s) + (IF Writing(s, "strip") /\ job.open THEN 1 ELSE 0) <= written[s]
    /\ Writing(s, "totals") => Len(files[s].runs) \in Readable(files[s].runs)
    /\ files[s].totals # Torn => files[s].totals.n <= Told(s)
    /\ Writing(s, "totals") /\ job.open => job.new.n <= written[s]
    /\ faults = 0 =>
         /\ files[s].totals # Torn => files[s].totals.n = Told(s)
         /\ files[s].totals = Torn /\ ~ (Writing(s, "totals") /\ job.open) => Told(s) = 0
         /\ Writing(s, "totals") /\ job.open => job.new.n = written[s]

CountInv == \A s \in Spaces : CountFor(s)

(***************************************************************************)
(* The ledger.                                                             *)
(***************************************************************************)
Elements(q) == {q[i] : i \in DOMAIN q}

\* A ledger that says nothing else than what it was told, and all of it if nothing failed.
Faithful(text, version, upgrades, changed) ==
    /\ text.os \in {0, version}
    /\ text.changed \in {0, changed}
    /\ Elements(text.events) \subseteq Elements(upgrades)
    /\ faults = 0 => text.os = version /\ text.events = Newest(upgrades) /\ text.changed = changed

UpgradesTo(version) ==
    IF scanned.os \notin {0, version} THEN <<[from |-> scanned.os, to |-> version]>> \o scanned.upgrades
    ELSE scanned.upgrades

LedgerInv ==
    LET told == files["fleet"].ledger
    IN  /\ told # Torn => Faithful(told, scanned.os, scanned.upgrades, scanned.changed)
        /\ told = Torn /\ faults = 0 /\ ~ (job.open /\ (Writing("fleet", "ledger") \/ Writing("fleet", "observe")))
             => scanned = [os |-> 0, upgrades |-> <<>>, changed |-> 0]
        /\ job.open /\ Writing("fleet", "ledger") =>
             Faithful(job.new, scanned.os, scanned.upgrades, IF job.applied THEN jobs ELSE scanned.changed)
        /\ job.open /\ Writing("fleet", "observe") =>
             Faithful(job.new, job.new.os, UpgradesTo(job.new.os), scanned.changed)

DiskInv == JobShape /\ StoreShape /\ NewShape /\ CountInv /\ LedgerInv
(***************************************************************************)
(* Jobs.                                                                   *)
(***************************************************************************)
LEMMA JobFields ==
    ASSUME NEW j, NEW k, NEW a, NEW f, NEW p, NEW y, NEW w, NEW d, NEW o, NEW n,
           j = [kind |-> k, at |-> a, failed |-> f, applied |-> p, tried |-> y, allow |-> w, saved |-> d,
                open |-> o, new |-> n]
    PROVE  /\ IsJob(j)
           /\ j.kind = k /\ j.at = a /\ j.failed = f /\ j.applied = p /\ j.tried = y
           /\ j.allow = w /\ j.saved = d /\ j.open = o /\ j.new = n
  BY DEF IsJob

LEMMA GoMeans ==
    ASSUME JobShape, NEW step, Go(step)
    PROVE  /\ IsJob(job')
           /\ job'.kind = job.kind /\ job'.at = step /\ job'.applied = job.applied
           /\ job'.open = FALSE /\ job'.new = Torn
           /\ Directory' = Directory
  <1>1. job' = [kind |-> job.kind, at |-> step, failed |-> job.failed, applied |-> job.applied,
                tried |-> job.tried, allow |-> FALSE, saved |-> FALSE, open |-> FALSE, new |-> Torn]
    BY DEF JobShape, IsJob, Go
  <1>2. IsJob(job') /\ job'.kind = job.kind /\ job'.at = step /\ job'.applied = job.applied
        /\ job'.open = FALSE /\ job'.new = Torn
    BY <1>1, JobFields
  <1> QED
    BY <1>2 DEF Directory

LEMMA OpenMeans ==
    ASSUME JobShape, NEW x, job' = [job EXCEPT !.open = TRUE, !.new = x]
    PROVE  /\ IsJob(job')
           /\ job'.kind = job.kind /\ job'.at = job.at /\ job'.applied = job.applied
           /\ job'.open = TRUE /\ job'.new = x
           /\ Directory' = Directory
  <1>1. job' = [kind |-> job.kind, at |-> job.at, failed |-> job.failed, applied |-> job.applied,
                tried |-> job.tried, allow |-> job.allow, saved |-> job.saved, open |-> TRUE, new |-> x]
    BY DEF JobShape, IsJob
  <1>2. IsJob(job') /\ job'.kind = job.kind /\ job'.at = job.at /\ job'.applied = job.applied
        /\ job'.open = TRUE /\ job'.new = x
    BY <1>1, JobFields
  <1> QED
    BY <1>2 DEF Directory

LEMMA DecideMeans ==
    ASSUME JobShape, NEW allow, NEW saved, Decide(allow, saved)
    PROVE  /\ IsJob(job')
           /\ job'.kind = job.kind /\ job'.at = "dispatch" /\ job'.failed = job.failed
           /\ job'.applied = job.applied /\ job'.open = job.open
           /\ job'.allow = allow /\ job'.saved = saved
  <1>1. job' = [kind |-> job.kind, at |-> "dispatch", failed |-> job.failed, applied |-> job.applied,
                tried |-> job.tried, allow |-> allow, saved |-> saved, open |-> job.open, new |-> job.new]
    BY DEF JobShape, IsJob, Decide
  <1> QED
    BY <1>1, JobFields

LEMMA EndMeans ==
    ASSUME End
    PROVE  /\ IsJob(job') /\ job'.kind = "none" /\ job'.at = "none" /\ job'.applied = FALSE
           /\ job'.open = FALSE
  <1>1. job' = [kind |-> "none", at |-> "none", failed |-> FALSE, applied |-> FALSE,
                tried |-> FALSE, allow |-> FALSE, saved |-> FALSE, open |-> FALSE, new |-> Torn]
    BY DEF End, Idle
  <1> QED
    BY <1>1, JobFields

LEMMA JobKept == JobShape /\ [Next]_vars => JobShape'
  <1> SUFFICES ASSUME JobShape, [Next]_vars PROVE JobShape'
    OBVIOUS
  <1> USE DEF Kinds, Steps, Briefed
  <1>1. ASSUME NEW step \in Steps, Go(step), UNCHANGED <<jobs, os>>, faults' \in Nat, job.at # "none",
               step \in {"observe", "record"} <=> job.at \in {"observe", "record"}
        PROVE  JobShape'
    BY <1>1, GoMeans DEF JobShape
  <1>2. ASSUME End, UNCHANGED <<jobs, os>>, faults' \in Nat PROVE JobShape'
    BY <1>2, EndMeans DEF JobShape
  <1>3. ASSUME NEW x, job' = [job EXCEPT !.open = TRUE, !.new = x], job.at \in Steps \ Briefed,
               UNCHANGED <<jobs, os, faults>>
        PROVE  JobShape'
    BY <1>3, OpenMeans DEF JobShape
  <1>4. faults \in Nat /\ faults + 1 \in Nat
    BY DEF JobShape
  <1>5. CASE StartJob
    <2>1. PICK kind \in Kinds, failed, applied, tried \in BOOLEAN :
            /\ applied => kind = "fleet"
            /\ job' = [Idle EXCEPT !.kind = kind, !.failed = failed, !.applied = applied, !.tried = tried,
                        !.at = CASE kind = "fleet" -> "dispatch" [] kind = "maintenance" -> "alert"
                                 [] OTHER -> "observe"]
      BY <1>5 DEF StartJob
    <2> DEFINE step == CASE kind = "fleet" -> "dispatch" [] kind = "maintenance" -> "alert"
                         [] OTHER -> "observe"
    <2>2. job' = [kind |-> kind, at |-> step, failed |-> failed, applied |-> applied,
                  tried |-> tried, allow |-> FALSE, saved |-> FALSE, open |-> FALSE, new |-> Torn]
      BY <2>1 DEF Idle
    <2>5. /\ IsJob(job') /\ job'.kind = kind /\ job'.at = step /\ job'.applied = applied
          /\ job'.open = FALSE
      BY <2>2, JobFields
    <2>3. step \in Steps /\ (kind = "scan" <=> step \in {"observe", "record"})
      OBVIOUS
    <2>4. jobs' > 0 /\ jobs' \in Nat /\ UNCHANGED <<faults, os>>
      BY <1>5 DEF StartJob, JobShape
    <2> HIDE DEF step
    <2> QED
      BY <2>1, <2>3, <2>4, <2>5 DEF JobShape
  <1>6. CASE Upgrade
    <2>1. UNCHANGED <<job, jobs, faults>> /\ os' \in Nat \ {0}
      BY <1>6, RecordsAssumption DEF Upgrade
    <2> QED
      BY <2>1 DEF JobShape
  <1>7. CASE Die
    BY <1>2, <1>4, <1>7 DEF Die
  <1>8. CASE RecordRun
    <2>1. /\ job.at = "alert" /\ UNCHANGED <<jobs, os>> /\ faults' \in {faults, faults + 1}
          /\ \E allow, saved : Decide(allow, saved)
      BY <1>8 DEF RecordRun, CountUnread, CountKept
    <2> QED
      BY <1>4, <2>1, DecideMeans DEF JobShape
  <1>9. CASE Dispatch
    <2>1. /\ job.at = "dispatch" /\ UNCHANGED <<jobs, os, faults>>
          /\ Go("remember") \/ Go("run")
      BY <1>9 DEF Dispatch
    <2> QED
      BY <1>1, <1>4, <2>1
  <1>10. CASE Remember
    <2>1. job.at = "remember" /\ Go("run") /\ UNCHANGED <<jobs, os>> /\ faults' \in {faults, faults + 1}
      BY <1>10 DEF Remember
    <2> QED
      BY <1>1, <1>4, <2>1
  <1>11. CASE RecordManual
    BY <1>2, <1>4, <1>11 DEF RecordManual
  <1>12. CASE Open
    <2>1. UNCHANGED <<jobs, os, faults>> /\ job.at \in {"run", "totals", "ledger", "observe"}
      BY <1>12 DEF Open
    <2>2. PICK x : job' = [job EXCEPT !.open = TRUE, !.new = x]
      BY <1>12 DEF Open
    <2> QED
      BY <1>3, <2>1, <2>2
  <1>13. CASE Close
    <2>1. /\ UNCHANGED <<jobs, os, faults>>
          /\ \/ job.at = "run" /\ Go("totals")
             \/ job.at = "totals" /\ Go("ledger")
             \/ job.at = "ledger" /\ Go("prune")
             \/ job.at = "observe" /\ Go("record")
      BY <1>13 DEF Close
    <2> QED
      BY <1>1, <1>4, <2>1
  <1>14. CASE WriteFails
    <2>1. /\ UNCHANGED <<jobs, os>> /\ faults' = faults + 1
          /\ \/ job.at = "ledger" /\ Go("prune")
             \/ job.at = "observe" /\ Go("record")
             \/ End
      BY <1>14 DEF WriteFails
    <2> QED
      BY <1>1, <1>2, <1>4, <2>1
  <1>15. CASE Prune
    BY <1>1, <1>4, <1>15 DEF Prune
  <1>16. CASE Strip
    <2>1. /\ UNCHANGED <<jobs, os, faults>> /\ job.at = "strip"
          /\ (\E x : job' = [job EXCEPT !.open = TRUE, !.new = x]) \/ Go("strip") \/ End
      BY <1>16 DEF Strip
    <2> QED
      BY <1>1, <1>2, <1>3, <1>4, <2>1
  <1>17. CASE Rest \/ UNCHANGED vars
    BY <1>17 DEF Rest, vars, JobShape
  <1>18. CASE Spoil
    <2>1. UNCHANGED <<job, jobs, os>> /\ faults' = faults + 1
      BY <1>18 DEF Spoil
    <2> QED
      BY <1>4, <2>1 DEF JobShape
  <1> QED
    BY <1>5, <1>6, <1>7, <1>8, <1>9, <1>10, <1>11, <1>12, <1>13, <1>14, <1>15, <1>16, <1>17, <1>18
    DEF Next

LEMMA JobInit == Init => JobShape
  <1> SUFFICES ASSUME Init PROVE JobShape
    OBVIOUS
  <1>1. job = [kind |-> "none", at |-> "none", failed |-> FALSE, applied |-> FALSE, tried |-> FALSE,
               allow |-> FALSE, saved |-> FALSE, open |-> FALSE, new |-> Torn]
    BY DEF Init, Idle
  <1>2. IsJob(job) /\ job.kind = "none" /\ job.at = "none" /\ job.applied = FALSE /\ job.open = FALSE
    BY <1>1, JobFields
  <1>3. jobs = 0 /\ faults = 0 /\ os = 1
    BY DEF Init
  <1>4. jobs \in Nat /\ faults \in Nat /\ os \in Nat \ {0}
    BY <1>3
  <1>5. job.kind # "scan" /\ job.at \notin {"observe", "record"}
    BY <1>2
  <1> QED
    BY <1>2, <1>4, <1>5 DEF JobShape

(***************************************************************************)
(* Alerts.                                                                 *)
(***************************************************************************)
\* The streak on disk counts at least the failures nobody was told of, but for those that
\* died before they were counted; a failure that may not be told has its count on disk,
\* and there are not yet Threshold.
SilenceInv ==
    /\ streak \in Nat \cup {Broken} /\ silent \in [runs : Nat, unsaved : Nat, killed : Nat]
    /\ SilenceBounded
    /\ streak # Broken => silent.runs <= streak + silent.unsaved
    /\ job.at = "dispatch" /\ job.failed =>
         /\ job.saved /\ streak # Broken => silent.runs < streak + silent.unsaved
         /\ ~ job.allow => job.saved /\ silent.runs + 1 < Threshold + silent.unsaved
    /\ job.at = "alert" => ~ job.saved

LEMMA SilenceKept == JobShape /\ SilenceInv /\ [Next]_vars => SilenceInv'
  <1> SUFFICES ASSUME JobShape, SilenceInv, [Next]_vars PROVE SilenceInv'
    OBVIOUS
  <1>1. /\ silent.runs \in Nat /\ silent.unsaved \in Nat /\ silent.killed \in Nat
        /\ Threshold \in Nat \ {0} /\ Broken \notin Nat /\ streak \in Nat \cup {Broken}
        /\ silent \in [runs : Nat, unsaved : Nat, killed : Nat]
    BY RecordsAssumption DEF SilenceInv, Broken
  <1>2. /\ NoSilence \in [runs : Nat, unsaved : Nat, killed : Nat]
        /\ NoSilence.runs = 0 /\ NoSilence.unsaved = 0 /\ NoSilence.killed = 0
    BY DEF NoSilence
  <1>3. ASSUME UNCHANGED <<streak, silent>>, job'.at \notin {"alert", "dispatch"} PROVE SilenceInv'
    BY <1>3 DEF SilenceInv, SilenceBounded
  <1>4. ASSUME streak' \in Nat \cup {Broken}, silent' = NoSilence, job'.at \notin {"alert", "dispatch"}
        PROVE  SilenceInv'
    BY <1>1, <1>2, <1>4 DEF SilenceInv, SilenceBounded
  <1>5. CASE StartJob
    <2>1. /\ UNCHANGED <<streak, silent>> /\ ~ job'.saved
          /\ job'.failed => job'.at # "dispatch"
      BY <1>5 DEF StartJob, Idle
    <2> QED
      BY <2>1 DEF SilenceInv, SilenceBounded
  <1>6. CASE RecordRun
    <2>1. job.at = "alert"
      BY <1>6 DEF RecordRun
    <2>2. ASSUME NEW allow, NEW saved, Decide(allow, saved)
          PROVE  /\ job'.at = "dispatch" /\ job'.failed = job.failed
                 /\ job'.allow = allow /\ job'.saved = saved
      BY <2>1, <2>2, DecideMeans
    \* A failure that could not be counted may be told.
    <2>3. ASSUME Decide(TRUE, FALSE) \/ ~ job.failed, UNCHANGED <<streak, silent>>,
                 \E allow, saved : Decide(allow, saved)
          PROVE  SilenceInv'
      <3>1. job'.at = "dispatch" /\ (job'.failed => job'.allow /\ ~ job'.saved)
        BY <2>2, <2>3
      <3> QED
        BY <2>3, <3>1 DEF SilenceInv, SilenceBounded
    <2>4. CASE CountUnread
      BY <2>3, <2>4 DEF CountUnread
    <2>5. CASE CountKept
      <3>1. CASE job.failed
        <4>1. streak \in Nat
          BY <1>1, <2>5, <3>1 DEF CountKept
        <4>2. ASSUME streak' = streak + 1, Decide(streak + 1 >= Threshold, TRUE), UNCHANGED silent
              PROVE  SilenceInv'
          <5>1. /\ job'.at = "dispatch" /\ job'.saved /\ job'.allow = (streak + 1 >= Threshold)
            BY <2>2, <4>2
          <5>2. silent.runs <= streak + silent.unsaved
            BY <1>1, <4>1 DEF SilenceInv
          <5>3. streak' \in Nat
            BY <4>1, <4>2
          <5>4. silent.runs < streak' + silent.unsaved /\ silent.runs <= streak' + silent.unsaved
            BY <1>1, <4>1, <4>2, <5>2
          <5>5. ~ job'.allow => silent.runs + 1 < Threshold + silent.unsaved
            <6>1. ~ job'.allow => ~ (streak + 1 >= Threshold)
              BY <5>1
            <6>2. ~ (streak + 1 >= Threshold) => silent.runs + 1 < Threshold + silent.unsaved
              BY <1>1, <4>1, <5>2
            <6> QED
              BY <6>1, <6>2
          <5> QED
            BY <4>2, <5>1, <5>3, <5>4, <5>5 DEF SilenceInv, SilenceBounded
        <4>3. CASE Decide(TRUE, FALSE) /\ UNCHANGED <<streak, silent>>
          BY <2>3, <4>3
        <4>4. \/ streak' = streak + 1 /\ Decide(streak + 1 >= Threshold, TRUE) /\ UNCHANGED silent
              \/ Decide(TRUE, FALSE) /\ UNCHANGED <<streak, silent>>
          BY <2>5, <3>1 DEF CountKept, Decide
        <4> QED
          BY <4>2, <4>3, <4>4
      \* A success on record starts anew.
      <3>2. CASE ~ job.failed
        <4>1. CASE streak' = 0 /\ silent' = NoSilence /\ \E allow, saved : Decide(allow, saved)
          <5>1. job'.at = "dispatch" /\ ~ job'.failed
            BY <2>2, <3>2, <4>1
          <5> QED
            BY <1>1, <1>2, <4>1, <5>1 DEF SilenceInv, SilenceBounded
        <4>2. CASE UNCHANGED <<streak, silent>> /\ \E allow, saved : Decide(allow, saved)
          BY <2>3, <3>2, <4>2
        <4> QED
          BY <2>5, <3>2, <4>1, <4>2 DEF CountKept
      <3> QED
        BY <3>1, <3>2
    <2>6. CASE ~ job.failed /\ Decide(FALSE, FALSE) /\ UNCHANGED <<streak, silent>>
      BY <2>3, <2>6
    <2> QED
      BY <1>6, <2>4, <2>5, <2>6 DEF RecordRun
  \* Sent, the silence is over; not sent, the run is one more, and makes up for the killed.
  <1>7. CASE Dispatch
    <2>1. job.at = "dispatch" /\ UNCHANGED streak /\ \E step \in {"remember", "run"} : Go(step)
      BY <1>7 DEF Dispatch
    <2>2. job'.at \notin {"alert", "dispatch"}
      BY <2>1, GoMeans
    <2>3. \/ silent' = silent \/ silent' = NoSilence
          \/ job.failed /\ ~ job.allow /\ silent' = [silent EXCEPT !.runs = @ + 1, !.killed = 0]
      BY <1>7 DEF Dispatch
    <2>4. CASE job.failed /\ ~ job.allow /\ silent' = [silent EXCEPT !.runs = @ + 1, !.killed = 0]
      <3>1. /\ silent' \in [runs : Nat, unsaved : Nat, killed : Nat]
            /\ silent'.runs = silent.runs + 1 /\ silent'.unsaved = silent.unsaved /\ silent'.killed = 0
        <4>1. silent' = [runs |-> silent.runs + 1, unsaved |-> silent.unsaved, killed |-> 0]
          BY <1>1, <2>4
        <4> QED
          BY <1>1, <4>1
      <3>2. /\ silent.runs + 1 < Threshold + silent.unsaved
            /\ streak # Broken => silent.runs < streak + silent.unsaved
        BY <2>1, <2>4 DEF SilenceInv
      <3>3. SilenceBounded'
        BY <1>1, <3>1, <3>2 DEF SilenceBounded
      <3>4. streak' # Broken => silent'.runs <= streak' + silent'.unsaved
        BY <1>1, <2>1, <3>1, <3>2
      <3> QED
        BY <1>1, <2>1, <2>2, <3>1, <3>3, <3>4 DEF SilenceInv
    <2> QED
      BY <1>1, <1>3, <1>4, <2>1, <2>2, <2>3, <2>4
  <1>8. CASE Die
    <2>1. UNCHANGED streak /\ job'.at = "none"
      BY <1>8, EndMeans DEF Die
    <2>2. CASE ~ (job.failed /\ job.at \in {"alert", "dispatch"})
      BY <1>3, <1>8, <2>1, <2>2 DEF Die
    <2>3. CASE job.failed /\ job.at \in {"alert", "dispatch"} /\ job.saved
      <3>1. silent' = [silent EXCEPT !.runs = @ + 1, !.killed = @ + 1]
        BY <1>8, <2>3 DEF Die
      <3>2. /\ silent' \in [runs : Nat, unsaved : Nat, killed : Nat]
            /\ silent'.runs = silent.runs + 1 /\ silent'.unsaved = silent.unsaved
            /\ silent'.killed = silent.killed + 1
        <4>1. silent' = [runs |-> silent.runs + 1, unsaved |-> silent.unsaved, killed |-> silent.killed + 1]
          BY <1>1, <3>1
        <4> QED
          BY <1>1, <4>1
      <3>3. SilenceBounded'
        BY <1>1, <3>2 DEF SilenceInv, SilenceBounded
      <3>4. streak # Broken => silent.runs < streak + silent.unsaved
        BY <2>3 DEF SilenceInv
      <3>5. streak' # Broken => silent'.runs <= streak' + silent'.unsaved
        BY <1>1, <2>1, <3>2, <3>4
      <3> QED
        BY <1>1, <2>1, <3>2, <3>3, <3>5 DEF SilenceInv
    <2>4. CASE job.failed /\ job.at \in {"alert", "dispatch"} /\ ~ job.saved
      <3>1. silent' = [silent EXCEPT !.runs = @ + 1, !.unsaved = @ + 1]
        BY <1>8, <2>4 DEF Die
      <3>2. /\ silent' \in [runs : Nat, unsaved : Nat, killed : Nat]
            /\ silent'.runs = silent.runs + 1 /\ silent'.unsaved = silent.unsaved + 1
            /\ silent'.killed = silent.killed
        <4>1. silent' = [runs |-> silent.runs + 1, unsaved |-> silent.unsaved + 1, killed |-> silent.killed]
          BY <1>1, <3>1
        <4> QED
          BY <1>1, <4>1
      <3>3. SilenceBounded'
        BY <1>1, <3>2 DEF SilenceInv, SilenceBounded
      <3>4. streak' # Broken => silent'.runs <= streak' + silent'.unsaved
        BY <1>1, <2>1, <3>2 DEF SilenceInv
      <3> QED
        BY <1>1, <2>1, <3>2, <3>3, <3>4 DEF SilenceInv
    <2> QED
      BY <2>2, <2>3, <2>4
  <1>9. CASE Spoil
    <2>1. streak' = Broken /\ silent' = silent /\ job'.at = "none"
      BY <1>9 DEF Spoil, Idle
    <2> QED
      BY <2>1 DEF SilenceInv, SilenceBounded
  <1>10. CASE Remember \/ RecordManual \/ Close \/ WriteFails \/ Prune
    <2>1. UNCHANGED <<streak, silent>>
      BY <1>10 DEF Remember, RecordManual, Close, WriteFails, Prune
    <2>2. End \/ \E step \in {"run", "totals", "ledger", "prune", "record", "strip"} : Go(step)
      BY <1>10 DEF Remember, RecordManual, Close, WriteFails, Prune
    <2>3. job'.at \notin {"alert", "dispatch"}
      BY <2>2, GoMeans, EndMeans
    <2> QED
      BY <1>3, <2>1, <2>3
  <1>11. CASE Open \/ Strip
    <2>1. UNCHANGED <<streak, silent>> /\ job.at \notin {"alert", "dispatch"}
      BY <1>11 DEF Open, Strip
    <2>2. (\E x : job' = [job EXCEPT !.open = TRUE, !.new = x]) \/ Go("strip") \/ End
      BY <1>11 DEF Open, Strip
    <2>3. job'.at \notin {"alert", "dispatch"}
      BY <2>1, <2>2, OpenMeans, GoMeans, EndMeans
    <2> QED
      BY <1>3, <2>1, <2>3
  <1>12. CASE Upgrade \/ Rest \/ UNCHANGED vars
    BY <1>12 DEF Upgrade, Rest, vars, SilenceInv, SilenceBounded
  <1> QED
    BY <1>5, <1>6, <1>7, <1>8, <1>9, <1>10, <1>11, <1>12 DEF Next

LEMMA SilenceInit == Init => SilenceInv
  BY RecordsAssumption DEF Init, Idle, NoSilence, SilenceInv, SilenceBounded

\* Of the maintenance runs that failed in a row untold fewer than Threshold lived to their
\* dispatch, whatever dies and whatever cannot be read or saved (record_run, run_notify_phase).
THEOREM AlwaysSilenceBounded == Spec => []SilenceBounded
  <1>1. SilenceInv => SilenceBounded
    BY DEF SilenceInv
  <1> QED
    BY <1>1, JobInit, JobKept, SilenceInit, SilenceKept, PTL DEF Spec

(***************************************************************************)
(* Files.                                                                  *)
(***************************************************************************)
LEMMA DirectoryKnown == Directory \in Spaces
  BY DEF Directory, Spaces

LEMMA PutRuns ==
    ASSUME StoreShape, NEW c \in Seq(RunFile), Put("runs", c)
    PROVE  /\ files'[Directory] = [runs |-> c, totals |-> Here.totals, ledger |-> Here.ledger]
           /\ \A s \in Spaces : s # Directory => files'[s] = files[s]
           /\ files' \in [Spaces -> Folder]
  <1>1. Here \in Folder /\ Here = files[Directory] /\ Directory \in Spaces
    BY DirectoryKnown DEF StoreShape, Here
  <1>2. files' = [files EXCEPT ![Directory] = [Here EXCEPT !.runs = c]]
    BY DEF Put, Here
  <1>3. [Here EXCEPT !.runs = c] = [runs |-> c, totals |-> Here.totals, ledger |-> Here.ledger]
    BY <1>1 DEF Folder
  <1>4. [runs |-> c, totals |-> Here.totals, ledger |-> Here.ledger] \in Folder
    BY <1>1 DEF Folder
  <1> QED
    BY <1>1, <1>2, <1>3, <1>4 DEF StoreShape

LEMMA PutTotals ==
    ASSUME StoreShape, NEW c \in [n : Nat], Put("totals", c)
    PROVE  /\ files'[Directory] = [runs |-> Here.runs, totals |-> c, ledger |-> Here.ledger]
           /\ \A s \in Spaces : s # Directory => files'[s] = files[s]
           /\ files' \in [Spaces -> Folder]
  <1>1. Here \in Folder /\ Here = files[Directory] /\ Directory \in Spaces
    BY DirectoryKnown DEF StoreShape, Here
  <1>2. files' = [files EXCEPT ![Directory] = [Here EXCEPT !.totals = c]]
    BY DEF Put, Here
  <1>3. [Here EXCEPT !.totals = c] = [runs |-> Here.runs, totals |-> c, ledger |-> Here.ledger]
    BY <1>1 DEF Folder
  <1>4. [runs |-> Here.runs, totals |-> c, ledger |-> Here.ledger] \in Folder
    BY <1>1 DEF Folder
  <1> QED
    BY <1>1, <1>2, <1>3, <1>4 DEF StoreShape

LEMMA PutLedger ==
    ASSUME StoreShape, NEW c \in {Torn} \cup LedgerText, Put("ledger", c)
    PROVE  /\ files'[Directory] = [runs |-> Here.runs, totals |-> Here.totals, ledger |-> c]
           /\ \A s \in Spaces : s # Directory => files'[s] = files[s]
           /\ files' \in [Spaces -> Folder]
  <1>1. Here \in Folder /\ Here = files[Directory] /\ Directory \in Spaces
    BY DirectoryKnown DEF StoreShape, Here
  <1>2. files' = [files EXCEPT ![Directory] = [Here EXCEPT !.ledger = c]]
    BY DEF Put, Here
  <1>3. [Here EXCEPT !.ledger = c] = [runs |-> Here.runs, totals |-> Here.totals, ledger |-> c]
    BY <1>1 DEF Folder
  <1>4. [runs |-> Here.runs, totals |-> Here.totals, ledger |-> c] \in Folder
    BY <1>1 DEF Folder
  <1> QED
    BY <1>1, <1>2, <1>3, <1>4 DEF StoreShape

\* Nothing changes for the other directory.
LEMMA OtherCount ==
    ASSUME CountInv, NEW s \in Spaces, s # Directory, s # Directory', files'[s] = files[s],
           written'[s] = written[s], UNCHANGED faults
    PROVE  CountFor(s)'
  <1>1. Count(s)' = Count(s)
    BY DEF Count
  <1>2. Told(s)' = Told(s) /\ \A step : ~ Writing(s, step) /\ ~ Writing(s, step)'
    BY DEF Told, Writing
  <1> QED
    BY <1>1, <1>2 DEF CountInv, CountFor

\* Nothing changes for the ledger of the fleet.
LEMMA SameLedger ==
    ASSUME LedgerInv, files'["fleet"].ledger = files["fleet"].ledger, UNCHANGED <<scanned, faults>>,
           ~ (job.open /\ (Writing("fleet", "ledger") \/ Writing("fleet", "observe"))),
           ~ (job'.open /\ (Writing("fleet", "ledger") \/ Writing("fleet", "observe"))')
    PROVE  LedgerInv'
  <1>1. \A v, u, c, l : Faithful(l, v, u, c)' <=> Faithful(l, v, u, c)
    BY DEF Faithful
  <1> QED
    BY <1>1 DEF LedgerInv

\* A step that leaves the files alone, and comes from an open file only if something failed.
LEMMA Quiet ==
    ASSUME DiskInv, JobShape', UNCHANGED <<files, written, scanned>>, ~ job'.open, job'.at # "totals",
           faults' = faults + 1 \/ (faults' = faults /\ ~ job.open /\ job.at # "totals")
    PROVE  StoreShape' /\ NewShape' /\ CountInv' /\ LedgerInv'
  <1>1. StoreShape' /\ NewShape'
    BY DEF DiskInv, StoreShape, NewShape
  <1>2. faults \in Nat /\ (faults' = 0 => faults = 0 /\ ~ job.open /\ job.at # "totals")
    BY DEF DiskInv, JobShape
  <1>3. ASSUME NEW s \in Spaces PROVE CountFor(s)'
    <2>1. Count(s)' = Count(s) /\ CountFor(s)
      BY DEF Count, DiskInv, CountInv
    <2>2. Count(s) \in Nat /\ written[s] \in Nat /\ files[s].totals \in [n : Nat]
      <3>1. files[s] \in Folder
        BY DEF DiskInv, StoreShape
      <3>2. files[s].runs \in Seq(RunFile)
        BY <3>1 DEF Folder
      <3> QED
        BY <3>1, <3>2, CountIsNat DEF Count, Folder, DiskInv, StoreShape
    <2>3. ~ Writing(s, "totals")' /\ ~ (Writing(s, "strip")' /\ job'.open)
      BY DEF Writing
    <2>4. Told(s)' = written[s] /\ Told(s) \in Int /\ Told(s) <= written[s] /\ (job.at # "totals" => Told(s) = written[s])
      BY <2>2, <2>3 DEF Told, Writing
    <2>5. Count(s) <= written[s]
      BY <2>1, <2>2 DEF CountFor
    <2>6. files[s].totals # Torn => files[s].totals.n <= written[s]
      <3>1. files[s].totals.n \in Nat
        BY <2>2
      <3>2. files[s].totals # Torn => files[s].totals.n <= Told(s)
        BY <2>1 DEF CountFor
      <3> QED
        BY <2>2, <2>4, <3>1, <3>2
    <2>7. faults' = 0 => /\ files[s].totals # Torn => files[s].totals.n = written[s]
                         /\ files[s].totals = Torn => written[s] = 0
      BY <1>2, <2>1, <2>4 DEF CountFor
    <2>8. Count(s)' + (IF Writing(s, "strip")' /\ job'.open THEN 1 ELSE 0) <= written[s]
      BY <2>1, <2>2, <2>3, <2>5
    <2> QED
      BY <2>3, <2>4, <2>6, <2>7, <2>8 DEF CountFor
  <1>4. LedgerInv'
    <2>1. \A v, u, c, l : Faithful(l, v, u, c) => Faithful(l, v, u, c)'
      BY <1>2 DEF Faithful
    <2> QED
      BY <1>2, <2>1 DEF LedgerInv, DiskInv
  <1> QED
    BY <1>1, <1>3, <1>4 DEF CountInv

LEMMA Still ==
    ASSUME DiskInv, UNCHANGED <<job, jobs, files, written, scanned, faults>>
    PROVE  StoreShape' /\ NewShape' /\ CountInv' /\ LedgerInv'
  <1> USE DEF Directory, Here
  <1>1. StoreShape' /\ NewShape'
    BY DEF DiskInv, StoreShape, NewShape
  <1>2. CountInv'
    BY DEF DiskInv, CountInv, CountFor, Count, Told, Writing
  <1>3. LedgerInv'
    BY DEF DiskInv, LedgerInv, Faithful, Writing, UpgradesTo
  <1> QED
    BY <1>1, <1>2, <1>3

(***************************************************************************)
(* Run files.                                                              *)
(***************************************************************************)
\* What the invariant says of the directory a job works in.
LEMMA HereKnown ==
    ASSUME DiskInv
    PROVE  /\ Directory \in Spaces /\ Here = files[Directory]
           /\ Here.runs \in Seq(RunFile) /\ Here.totals \in [n : Nat] /\ Here.totals.n \in Nat
           /\ Here.ledger \in {Torn} \cup LedgerText
           /\ Count(Directory) = Cardinality(Readable(Here.runs)) /\ Count(Directory) \in Nat
           /\ written[Directory] \in Nat /\ CountFor(Directory)
           /\ jobs \in Nat /\ faults \in Nat
  <1>1. Directory \in Spaces /\ Here = files[Directory]
    BY DirectoryKnown DEF Here
  <1>2. Here \in Folder
    BY <1>1 DEF DiskInv, StoreShape
  <1>3. Here.runs \in Seq(RunFile) /\ Here.totals \in [n : Nat] /\ Here.ledger \in {Torn} \cup LedgerText
    BY <1>2 DEF Folder
  <1>4. Here.totals.n \in Nat
    BY <1>3
  <1>5. Count(Directory) = Cardinality(Readable(Here.runs)) /\ Count(Directory) \in Nat
    BY <1>1, <1>3, CountIsNat DEF Count
  <1> QED
    BY <1>1, <1>3, <1>4, <1>5 DEF DiskInv, StoreShape, CountInv, JobShape

\* What a step on the runs of its directory leaves to show.
LEMMA RunsStep ==
    ASSUME DiskInv, NEW c \in Seq(RunFile), Put("runs", c), Directory' = Directory, UNCHANGED <<scanned, faults>>,
           job.at \in {"run", "prune", "strip"}, job'.at \in {"run", "totals", "prune", "strip"},
           written' \in [Spaces -> Nat], \A s \in Spaces : s # Directory => written'[s] = written[s],
           NewShape', CountFor(Directory)'
    PROVE  StoreShape' /\ NewShape' /\ CountInv' /\ LedgerInv'
  <1>1. /\ files'[Directory] = [runs |-> c, totals |-> Here.totals, ledger |-> Here.ledger]
        /\ \A s \in Spaces : s # Directory => files'[s] = files[s]
        /\ files' \in [Spaces -> Folder]
    BY PutRuns DEF DiskInv
  <1>2. StoreShape'
    BY <1>1 DEF StoreShape, DiskInv
  <1>3. CountInv'
    <2>1. ASSUME NEW s \in Spaces PROVE CountFor(s)'
      <3>1. CASE s = Directory
        BY <3>1
      <3>2. CASE s # Directory
        BY <1>1, <3>2, OtherCount DEF DiskInv
      <3> QED
        BY <3>1, <3>2
    <2> QED
      BY <2>1 DEF CountInv
  <1>4. files'["fleet"].ledger = files["fleet"].ledger
    BY <1>1, HereKnown DEF Spaces
  <1>5. LedgerInv'
    BY <1>4, SameLedger DEF DiskInv, Writing
  <1> QED
    BY <1>2, <1>3, <1>5

LEMMA OpenRun ==
    ASSUME DiskInv, Open, job.at = "run"
    PROVE  StoreShape' /\ NewShape' /\ CountInv' /\ LedgerInv'
  <1>1. /\ Put("runs", Append(Here.runs, Torn)) /\ UNCHANGED <<written, scanned, faults>>
        /\ job' = [job EXCEPT !.open = TRUE, !.new = [n |-> jobs, detail |-> TRUE]]
    BY DEF Open
  <1>2. /\ job'.at = "run" /\ job'.open /\ job'.new = [n |-> jobs, detail |-> TRUE]
        /\ Directory' = Directory /\ jobs > 0
    BY <1>1, OpenMeans DEF DiskInv, JobShape
  <1>3. Append(Here.runs, Torn) \in Seq(RunFile)
    BY HereKnown DEF RunFile
  <1>4. /\ files'[Directory] = [runs |-> Append(Here.runs, Torn), totals |-> Here.totals, ledger |-> Here.ledger]
        /\ Here' = files'[Directory]
    BY <1>1, <1>2, <1>3, PutRuns DEF DiskInv, Here
  <1>5. NewShape'
    <2>1. Len(Append(Here.runs, Torn)) > 0
      BY HereKnown
    <2> QED
      BY <1>2, <1>4, <2>1, HereKnown DEF NewShape
  <1>6. CountFor(Directory)'
    <2>1. Count(Directory)' = Count(Directory)
      BY <1>2, <1>4, HereKnown, CountOpened DEF Count
    <2>2. Told(Directory) = written[Directory] /\ Told(Directory)' = written[Directory]
      BY <1>1, <1>2 DEF Told, Writing
    <2>3. \A step \in {"strip", "totals"} : ~ Writing(Directory, step) /\ ~ Writing(Directory, step)'
      BY <1>2 DEF Writing
    <2>4. files'[Directory].totals = files[Directory].totals
      BY <1>4, HereKnown
    <2> QED
      BY <1>1, <1>2, <2>1, <2>2, <2>3, <2>4, HereKnown DEF CountFor
  <1> QED
    BY <1>1, <1>2, <1>3, <1>5, <1>6, RunsStep DEF DiskInv, StoreShape

\* The file that was opened last gets its content.
LEMMA RunFilesMeans ==
    ASSUME NEW r \in Seq(RunFile), Len(r) > 0, NEW x \in RunFile
    PROVE  Append(SubSeq(r, 1, Len(r) - 1), x) = [r EXCEPT ![Len(r)] = x]
  <1> DEFINE p == SubSeq(r, 1, Len(r) - 1)
             e == [r EXCEPT ![Len(r)] = x]
  <1>1. Len(r) \in Nat /\ p \in Seq(RunFile) /\ Len(p) = Len(r) - 1
        /\ \A i \in 1 .. Len(r) - 1 : p[i] = r[i]
    OBVIOUS
  <1>2. e \in Seq(RunFile) /\ Len(e) = Len(r) /\ e[Len(r)] = x /\ \A i \in 1 .. Len(r) - 1 : e[i] = r[i]
    OBVIOUS
  <1> HIDE DEF p, e
  <1>3. Append(p, x) \in Seq(RunFile) /\ Len(Append(p, x)) = Len(r) /\ Append(p, x)[Len(r)] = x
        /\ \A i \in 1 .. Len(r) - 1 : Append(p, x)[i] = r[i]
    BY <1>1
  <1>4. \A i \in 1 .. Len(r) : Append(p, x)[i] = e[i]
    BY <1>1, <1>2, <1>3
  <1>5. Append(p, x) = e
    BY <1>2, <1>3, <1>4, SeqEqual
  <1> QED
    BY <1>5 DEF p, e

LEMMA CloseRun ==
    ASSUME DiskInv, Close, job.at = "run"
    PROVE  StoreShape' /\ NewShape' /\ CountInv' /\ LedgerInv'
  <1> DEFINE r == Here.runs
             q == [r EXCEPT ![Len(r)] = job.new]
  <1>1. /\ job.open /\ Put("runs", RunFiles(job.new)) /\ Go("totals")
        /\ written' = [written EXCEPT ![Directory] = @ + 1] /\ UNCHANGED <<scanned, faults>>
    BY DEF Close
  <1>2. job'.at = "totals" /\ ~ job'.open /\ Directory' = Directory
    BY <1>1, GoMeans DEF DiskInv
  <1>3. Len(r) > 0 /\ job.new \in [n : Nat \ {0}, detail : BOOLEAN]
    BY <1>1 DEF DiskInv, NewShape
  <1>4. RunFiles(job.new) = q /\ Len(r) \in DOMAIN r
    BY <1>3, HereKnown, RunFilesMeans DEF RunFiles, RunFile
  <1>5. q \in Seq(RunFile) /\ Len(q) = Len(r) /\ q[Len(r)] = job.new
    BY <1>3, <1>4, HereKnown DEF RunFile
  <1> HIDE DEF q
  <1>6. /\ files'[Directory] = [runs |-> q, totals |-> Here.totals, ledger |-> Here.ledger]
        /\ Put("runs", q)
    BY <1>1, <1>4, <1>5, PutRuns DEF DiskInv
  <1>7. NewShape'
    BY <1>2 DEF NewShape
  <1>8. written'[Directory] = written[Directory] + 1 /\ written' \in [Spaces -> Nat]
        /\ \A s \in Spaces : s # Directory => written'[s] = written[s]
    BY <1>1, HereKnown DEF DiskInv, StoreShape
  <1>9. CountFor(Directory)'
    <2>1. Count(Directory)' <= Count(Directory) + 1 /\ Count(Directory)' \in Nat
      <3>1. Cardinality(Readable(q)) <= Cardinality(Readable(r)) + 1
        BY <1>4, HereKnown, CountRewritten DEF q
      <3> QED
        BY <1>2, <1>5, <1>6, <3>1, HereKnown, CountIsNat DEF Count
    <2>2. Told(Directory) = written[Directory] /\ Told(Directory)' = written[Directory]
      BY <1>2, <1>8, HereKnown DEF Told, Writing
    <2>3. ~ Writing(Directory, "strip") /\ ~ Writing(Directory, "strip")'
          /\ ~ Writing(Directory, "totals") /\ Writing(Directory, "totals")'
      BY <1>2 DEF Writing
    <2>4. files'[Directory].totals = files[Directory].totals /\ files'[Directory].runs = q
      BY <1>6, HereKnown
    <2>5. Len(q) \in Readable(q)
      BY <1>3, <1>4, <1>5, HereKnown DEF Readable
    <2>6. Count(Directory) <= written[Directory]
      BY <2>3, HereKnown DEF CountFor
    <2>7. Count(Directory)' <= written'[Directory]
      BY <1>8, <2>1, <2>6, HereKnown
    <2>8. Directory' = Directory
      BY <1>2
    <2>9. /\ files[Directory].totals # Torn => files[Directory].totals.n <= written[Directory]
          /\ faults = 0 => /\ files[Directory].totals # Torn => files[Directory].totals.n = written[Directory]
                           /\ files[Directory].totals = Torn => written[Directory] = 0
      BY <2>2, <2>3, HereKnown DEF CountFor
    <2>10. Count(Directory)' + (IF Writing(Directory, "strip")' /\ job'.open THEN 1 ELSE 0) <= written'[Directory]
      BY <2>1, <2>3, <2>7
    <2> QED
      BY <1>1, <1>2, <2>2, <2>3, <2>4, <2>5, <2>8, <2>9, <2>10 DEF CountFor
  <1> QED
    BY <1>1, <1>2, <1>5, <1>6, <1>7, <1>8, <1>9, RunsStep

LEMMA PruneStep ==
    ASSUME DiskInv, Prune
    PROVE  StoreShape' /\ NewShape' /\ CountInv' /\ LedgerInv'
  <1> DEFINE r == Here.runs
             m == IF Len(r) > Keep THEN Len(r) - Keep + 1 ELSE 1
             q == SubSeq(r, m, Len(r))
  <1>1. job.at = "prune" /\ Go("strip") /\ Put("runs", q) /\ UNCHANGED <<written, scanned, faults>>
    BY DEF Prune, PruneTo
  <1>2. job'.at = "strip" /\ ~ job'.open /\ Directory' = Directory
    BY <1>1, GoMeans DEF DiskInv
  <1>3. m \in 1 .. Len(r) + 1 /\ q \in Seq(RunFile)
    BY HereKnown, RecordsAssumption
  <1>4. Cardinality(Readable(q)) <= Cardinality(Readable(r))
    <2> HIDE DEF m
    <2> QED
      BY <1>3, HereKnown, CountPruned
  <1> HIDE DEF q, r
  <1>5. /\ files'[Directory] = [runs |-> q, totals |-> Here.totals, ledger |-> Here.ledger]
    BY <1>1, <1>3, PutRuns DEF DiskInv
  <1>6. NewShape'
    BY <1>2 DEF NewShape
  <1>7. CountFor(Directory)'
    <2>1. Count(Directory)' = Cardinality(Readable(q)) /\ Cardinality(Readable(q)) \in Nat
      BY <1>2, <1>3, <1>5, CountIsNat DEF Count
    <2>2. Count(Directory) <= written[Directory]
      BY <1>1, HereKnown DEF CountFor, Writing
    <2>3. Count(Directory)' + (IF Writing(Directory, "strip")' /\ job'.open THEN 1 ELSE 0) <= written[Directory]
      BY <1>2, <1>4, <2>1, <2>2, HereKnown DEF r
    <2>4. ~ Writing(Directory, "totals") /\ ~ Writing(Directory, "totals")'
      BY <1>1, <1>2 DEF Writing
    <2>5. Told(Directory) = written[Directory] /\ Told(Directory)' = written[Directory]
      BY <1>1, <1>2, <2>4 DEF Told
    <2>6. files'[Directory].totals = files[Directory].totals
      BY <1>5, HereKnown
    <2> QED
      BY <1>1, <1>2, <2>3, <2>4, <2>5, <2>6, HereKnown DEF CountFor
  <1> QED
    BY <1>1, <1>2, <1>3, <1>6, <1>7, RunsStep DEF DiskInv, StoreShape

\* A file that loses its package detail can be read: it is the oldest of those that have it.
LEMMA StaleIsReadable ==
    ASSUME DiskInv, Stale # 0
    PROVE  Stale \in DOMAIN Here.runs /\ Here.runs[Stale].n # 0
  <1> DEFINE old == {i \in DOMAIN Here.runs : /\ i <= Len(Here.runs) - KeepDetail
                                              /\ Here.runs[i].n # 0 /\ Here.runs[i].detail}
  <1>1. old # {} /\ Stale = CHOOSE i \in old : \A k \in old : i <= k
    BY DEF Stale
  <1>2. old \in SUBSET Nat /\ \A i \in old : i \in DOMAIN Here.runs /\ Here.runs[i].n # 0
    BY HereKnown
  <1> HIDE DEF old
  <1>3. \E i \in old : \A k \in old : i <= k
    BY <1>1, <1>2, HasLeast
  <1>4. Stale \in old
    BY <1>1, <1>3
  <1> QED
    BY <1>2, <1>4

LEMMA StripStep ==
    ASSUME DiskInv, JobShape', Strip
    PROVE  StoreShape' /\ NewShape' /\ CountInv' /\ LedgerInv'
  <1> DEFINE r == Here.runs
  <1>1. job.at = "strip" /\ UNCHANGED <<written, scanned, faults>>
    BY DEF Strip
  <1>2. ASSUME NEW k \in DOMAIN r, NEW x \in RunFile,
               files' = [files EXCEPT ![Directory].runs[k] = x]
        PROVE  /\ [r EXCEPT ![k] = x] \in Seq(RunFile)
               /\ Put("runs", [r EXCEPT ![k] = x])
               /\ files'[Directory] = [runs |-> [r EXCEPT ![k] = x], totals |-> Here.totals, ledger |-> Here.ledger]
    <2>1. [r EXCEPT ![k] = x] \in Seq(RunFile)
      BY HereKnown, ExceptSeq
    <2>2. Put("runs", [r EXCEPT ![k] = x])
      BY <1>2 DEF Put, Here
    <2> QED
      BY <2>1, <2>2, PutRuns DEF DiskInv
  <1>3. ~ Writing(Directory, "totals") /\ Told(Directory) = written[Directory] /\ Writing(Directory, "strip")
    BY <1>1 DEF Writing, Told
  \* Both halves of a rewrite: the file is missing while it is open.
  <1>4. ASSUME NEW q \in Seq(RunFile), Put("runs", q), Directory' = Directory, job'.at = "strip", NewShape',
               files'[Directory] = [runs |-> q, totals |-> Here.totals, ledger |-> Here.ledger],
               Cardinality(Readable(q)) + (IF job'.open THEN 1 ELSE 0) <= written[Directory]
        PROVE  StoreShape' /\ NewShape' /\ CountInv' /\ LedgerInv'
    <2>1. Count(Directory)' = Cardinality(Readable(q))
      BY <1>4 DEF Count
    <2>2. ~ Writing(Directory, "totals")' /\ Told(Directory)' = written[Directory] /\ Writing(Directory, "strip")'
      BY <1>1, <1>4 DEF Writing, Told
    <2>3. files'[Directory].totals = files[Directory].totals
      BY <1>4, HereKnown
    <2>4. CountFor(Directory)'
      BY <1>1, <1>3, <1>4, <2>1, <2>2, <2>3, HereKnown DEF CountFor
    <2> QED
      BY <1>1, <1>4, <2>4, RunsStep DEF DiskInv, StoreShape
  <1>5. CASE /\ Stale # 0 /\ ~ job.open
             /\ files' = [files EXCEPT ![Directory].runs[Stale] = Torn]
             /\ job' = [job EXCEPT !.open = TRUE, !.new = [n |-> Here.runs[Stale].n, detail |-> FALSE, i |-> Stale]]
    <2> DEFINE q == [r EXCEPT ![Stale] = Torn]
               x == [n |-> Here.runs[Stale].n, detail |-> FALSE, i |-> Stale]
    <2>1. Stale \in DOMAIN r /\ r[Stale].n # 0
      BY <1>5, StaleIsReadable
    <2>2. Torn \in RunFile /\ Torn.n = 0
      BY DEF RunFile, Torn
    <2>3. /\ q \in Seq(RunFile) /\ Put("runs", q)
          /\ files'[Directory] = [runs |-> q, totals |-> Here.totals, ledger |-> Here.ledger]
      BY <1>2, <1>5, <2>1, <2>2
    <2>4. job'.at = "strip" /\ job'.open /\ job'.new = x /\ Directory' = Directory
      BY <1>1, <1>5, OpenMeans DEF DiskInv
    <2>5. Cardinality(Readable(q)) + 1 = Count(Directory)
      BY <2>1, <2>2, HereKnown, CountRewritten DEF Readable
    <2>6. Count(Directory) <= written[Directory]
      BY <1>5, HereKnown DEF CountFor
    <2>7. DOMAIN q = DOMAIN r /\ q[Stale] = Torn /\ r[Stale].n \in Nat
      <3>1. r[Stale] \in RunFile
        BY <2>1, HereKnown
      <3> QED
        BY <2>1, <3>1 DEF RunFile, Torn
    <2>8. x.n = r[Stale].n /\ x.i = Stale
      OBVIOUS
    <2> HIDE DEF q, r, x
    <2>9. Here' = files'[Directory] /\ Here'.runs = q
      BY <2>3, <2>4 DEF Here
    <2>10. NewShape'
      BY <2>1, <2>4, <2>7, <2>8, <2>9 DEF NewShape
    <2> QED
      BY <1>4, <2>3, <2>4, <2>5, <2>6, <2>10, HereKnown
  <1>6. CASE /\ job.open /\ Go("strip")
             /\ files' = [files EXCEPT ![Directory].runs[job.new.i] = [n |-> job.new.n, detail |-> FALSE]]
    <2> DEFINE k == job.new.i
               x == [n |-> job.new.n, detail |-> FALSE]
               q == [r EXCEPT ![k] = x]
    <2>1. k \in DOMAIN r /\ x \in RunFile
      BY <1>1, <1>6 DEF DiskInv, NewShape, RunFile
    <2>2. /\ q \in Seq(RunFile) /\ Put("runs", q)
          /\ files'[Directory] = [runs |-> q, totals |-> Here.totals, ledger |-> Here.ledger]
      BY <1>2, <1>6, <2>1
    <2>3. job'.at = "strip" /\ ~ job'.open /\ Directory' = Directory
      BY <1>6, GoMeans DEF DiskInv
    <2>4. NewShape'
      BY <2>3 DEF NewShape
    <2>5. Cardinality(Readable(q)) <= Count(Directory) + 1
      <3> HIDE DEF x, k
      <3> QED
        BY <2>1, HereKnown, CountRewritten
    <2>6. Count(Directory) + 1 <= written[Directory]
      BY <1>3, <1>6, HereKnown DEF CountFor
    <2>7. Cardinality(Readable(q)) \in Nat
      BY <2>2, CountIsNat
    <2> HIDE DEF q
    <2>8. Cardinality(Readable(q)) + (IF job'.open THEN 1 ELSE 0) <= written[Directory]
      BY <2>3, <2>5, <2>6, <2>7, HereKnown
    <2> QED
      BY <1>4, <2>2, <2>3, <2>4, <2>8
  <1>7. CASE Stale = 0 /\ ~ job.open /\ End /\ UNCHANGED files
    <2>1. ~ job'.open /\ job'.at = "none"
      BY <1>7, EndMeans
    <2> QED
      BY <1>1, <1>7, <2>1, Quiet
  <1> QED
    BY <1>5, <1>6, <1>7 DEF Strip

(***************************************************************************)
(* Totals.                                                                 *)
(***************************************************************************)
\* What a step on the totals of its directory leaves to show.
LEMMA TotalsStep ==
    ASSUME DiskInv, NEW c \in [n : Nat], Put("totals", c), Directory' = Directory,
           UNCHANGED <<written, scanned, faults>>,
           job.at = "totals", job'.at \in {"totals", "ledger"}, job'.at = "ledger" => ~ job'.open,
           NewShape', CountFor(Directory)'
    PROVE  StoreShape' /\ NewShape' /\ CountInv' /\ LedgerInv'
  <1>1. /\ files'[Directory] = [runs |-> Here.runs, totals |-> c, ledger |-> Here.ledger]
        /\ \A s \in Spaces : s # Directory => files'[s] = files[s]
        /\ files' \in [Spaces -> Folder]
    BY PutTotals DEF DiskInv
  <1>2. StoreShape'
    BY <1>1 DEF StoreShape, DiskInv
  <1>3. CountInv'
    <2>1. ASSUME NEW s \in Spaces PROVE CountFor(s)'
      <3>1. CASE s = Directory
        BY <3>1
      <3>2. CASE s # Directory
        BY <1>1, <3>2, OtherCount DEF DiskInv
      <3> QED
        BY <3>1, <3>2
    <2> QED
      BY <2>1 DEF CountInv
  <1>4. files'["fleet"].ledger = files["fleet"].ledger
    BY <1>1, HereKnown DEF Spaces
  <1>5. ~ (job'.open /\ (Writing("fleet", "ledger") \/ Writing("fleet", "observe"))')
    BY DEF Writing
  <1>6. LedgerInv'
    BY <1>4, <1>5, SameLedger DEF DiskInv, Writing
  <1> QED
    BY <1>2, <1>3, <1>6

LEMMA OpenTotals ==
    ASSUME DiskInv, Open, job.at = "totals"
    PROVE  StoreShape' /\ NewShape' /\ CountInv' /\ LedgerInv'
  <1> DEFINE w == written[Directory]
  <1>1. /\ Put("totals", Torn) /\ UNCHANGED <<written, scanned, faults>> /\ ~ job.open
        /\ job' = [job EXCEPT !.open = TRUE, !.new = NewTotals]
    BY DEF Open
  <1>2. job'.at = "totals" /\ job'.open /\ job'.new = NewTotals /\ Directory' = Directory
    BY <1>1, OpenMeans DEF DiskInv
  <1>3. Torn \in [n : Nat]
    BY DEF Torn
  <1>4. /\ files'[Directory] = [runs |-> Here.runs, totals |-> Torn, ledger |-> Here.ledger]
        /\ Here' = files'[Directory]
    BY <1>1, <1>2, <1>3, PutTotals DEF DiskInv, Here
  <1>5. Writing(Directory, "totals") /\ Writing(Directory, "totals")' /\ Told(Directory) = w - 1
        /\ Told(Directory)' = w - 1 /\ ~ Writing(Directory, "strip") /\ ~ Writing(Directory, "strip")'
    BY <1>1, <1>2 DEF Writing, Told
  <1>6. /\ Len(Here.runs) \in Readable(Here.runs)
        /\ Count(Directory) <= w /\ Count(Directory) > 0
        /\ Here.totals # Torn => Here.totals.n <= w - 1
        /\ faults = 0 => /\ Here.totals # Torn => Here.totals.n = w - 1
                         /\ Here.totals = Torn => w = 1
    <2>1. Len(Here.runs) \in Readable(Here.runs) /\ Count(Directory) <= w
      BY <1>5, HereKnown DEF CountFor
    <2>2. Count(Directory) # 0
      BY <2>1, HereKnown, CountIsNat, FS_EmptySet
    <2>3. /\ Here.totals # Torn => Here.totals.n <= w - 1
          /\ faults = 0 => /\ Here.totals # Torn => Here.totals.n = w - 1
                           /\ Here.totals = Torn => w - 1 = 0
      BY <1>1, <1>5, HereKnown DEF CountFor
    <2> QED
      BY <2>1, <2>2, <2>3, HereKnown
  <1>7. NewTotals \in [n : Nat] /\ NewTotals.n <= w /\ (faults = 0 => NewTotals.n = w)
    <2>1. CASE Here.totals = Torn
      <3>1. NewTotals = [n |-> Count(Directory)]
        BY <2>1, HereKnown DEF NewTotals, Seed, RunsOf, Readable
      <3> QED
        BY <1>6, <2>1, <3>1, HereKnown
    <2>2. CASE Here.totals # Torn
      <3>1. NewTotals = [n |-> Here.totals.n + 1]
        BY <2>2 DEF NewTotals
      <3> QED
        BY <1>6, <2>2, <3>1, HereKnown
    <2> QED
      BY <2>1, <2>2
  <1>8. NewShape'
    BY <1>2, <1>4, <1>7 DEF NewShape
  <1>9. CountFor(Directory)'
    <2>1. Count(Directory)' = Count(Directory)
      BY <1>2, <1>4, HereKnown DEF Count
    <2>2. Count(Directory)' + (IF Writing(Directory, "strip")' /\ job'.open THEN 1 ELSE 0) <= w
      BY <1>5, <1>6, <2>1, HereKnown
    <2>3. files'[Directory].totals = Torn /\ files'[Directory].runs = Here.runs
      BY <1>4
    <2> QED
      BY <1>1, <1>2, <1>5, <1>6, <1>7, <2>2, <2>3 DEF CountFor
  <1> QED
    BY <1>1, <1>2, <1>3, <1>8, <1>9, TotalsStep

LEMMA CloseTotals ==
    ASSUME DiskInv, Close, job.at = "totals"
    PROVE  StoreShape' /\ NewShape' /\ CountInv' /\ LedgerInv'
  <1> DEFINE w == written[Directory]
             c == job.new
  <1>1. job.open /\ Put("totals", c) /\ Go("ledger") /\ UNCHANGED <<written, scanned, faults>>
    BY DEF Close
  <1>2. job'.at = "ledger" /\ ~ job'.open /\ Directory' = Directory
    BY <1>1, GoMeans DEF DiskInv
  <1>3. c \in [n : Nat] /\ c.n <= w /\ (faults = 0 => c.n = w)
    BY <1>1, HereKnown DEF DiskInv, NewShape, CountFor, Writing
  <1> HIDE DEF c
  <1>4. files'[Directory] = [runs |-> Here.runs, totals |-> c, ledger |-> Here.ledger]
    BY <1>1, <1>3, PutTotals DEF DiskInv
  <1>5. NewShape'
    BY <1>2 DEF NewShape
  <1>6. CountFor(Directory)'
    <2>1. Count(Directory)' = Count(Directory)
      BY <1>2, <1>4, HereKnown DEF Count
    <2>2. ~ Writing(Directory, "totals")' /\ ~ Writing(Directory, "strip")' /\ ~ Writing(Directory, "strip")
          /\ Told(Directory)' = w
      BY <1>1, <1>2 DEF Writing, Told
    <2>3. Count(Directory)' + (IF Writing(Directory, "strip")' /\ job'.open THEN 1 ELSE 0) <= w
      BY <2>1, <2>2, HereKnown DEF CountFor
    <2>4. files'[Directory].totals = c
      BY <1>4
    <2>5. c = Torn => c.n = 0
      BY DEF Torn
    <2> QED
      BY <1>1, <1>2, <1>3, <2>2, <2>3, <2>4, <2>5 DEF CountFor
  <1> QED
    BY <1>1, <1>2, <1>3, <1>5, <1>6, TotalsStep

(***************************************************************************)
(* The ledger.                                                             *)
(***************************************************************************)
LEMMA TornIsNoLedger == Torn \notin LedgerText
  <1>1. DOMAIN Torn = {"n"}
    BY DEF Torn
  <1>2. \A l \in LedgerText : DOMAIN l = {"changed", "os", "events"}
    BY DEF LedgerText
  <1> QED
    BY <1>1, <1>2

\* A job reads what it was told, or nothing.
LEMMA LedgerRead ==
    ASSUME DiskInv, ~ job.open
    PROVE  /\ Ledger \in LedgerText
           /\ Directory = "fleet" => Faithful(Ledger, scanned.os, scanned.upgrades, scanned.changed)
  <1>1. Blank \in LedgerText /\ Blank.os = 0 /\ Blank.events = <<>> /\ Blank.changed = 0
    BY DEF Blank, LedgerText
  <1>2. Ledger \in LedgerText
    BY <1>1, HereKnown DEF Ledger
  <1>3. ASSUME Directory = "fleet", Here.ledger = Torn PROVE Faithful(Ledger, scanned.os, scanned.upgrades, scanned.changed)
    <2>1. faults = 0 => scanned = [os |-> 0, upgrades |-> <<>>, changed |-> 0]
      BY <1>3, HereKnown DEF DiskInv, LedgerInv
    <2>2. Ledger = Blank
      BY <1>3 DEF Ledger
    <2>3. Elements(<<>>) = {} /\ Newest(<<>>) = <<>>
      BY RecordsAssumption DEF Elements, Newest
    <2> QED
      BY <1>1, <2>1, <2>2, <2>3 DEF Faithful
  <1>4. ASSUME Directory = "fleet", Here.ledger # Torn PROVE Faithful(Ledger, scanned.os, scanned.upgrades, scanned.changed)
    <2>1. Ledger = files["fleet"].ledger
      BY <1>4, HereKnown DEF Ledger
    <2> QED
      BY <1>4, <2>1, HereKnown DEF DiskInv, LedgerInv
  <1> QED
    BY <1>2, <1>3, <1>4

\* What a step on the ledger of its directory leaves to show.
LEMMA LedgerStep ==
    ASSUME DiskInv, NEW c \in {Torn} \cup LedgerText, Put("ledger", c), Directory' = Directory,
           UNCHANGED <<written, faults>>, scanned' \in [os : Nat, upgrades : Seq(Event), changed : Nat],
           job.at \in {"ledger", "observe"}, job'.at \in {"ledger", "observe", "prune", "record"},
           NewShape', LedgerInv'
    PROVE  StoreShape' /\ NewShape' /\ CountInv' /\ LedgerInv'
  <1>1. /\ files'[Directory] = [runs |-> Here.runs, totals |-> Here.totals, ledger |-> c]
        /\ \A s \in Spaces : s # Directory => files'[s] = files[s]
        /\ files' \in [Spaces -> Folder]
    BY PutLedger DEF DiskInv
  <1>2. StoreShape'
    BY <1>1 DEF StoreShape, DiskInv
  <1>3. ASSUME NEW s \in Spaces PROVE CountFor(s)'
    <2>1. files'[s].runs = files[s].runs /\ files'[s].totals = files[s].totals
      BY <1>1, HereKnown
    <2>2. Count(s)' = Count(s)
      BY <2>1 DEF Count
    <2>3. \A step \in {"strip", "totals"} : ~ Writing(s, step) /\ ~ Writing(s, step)'
      BY DEF Writing
    <2>4. Told(s)' = Told(s)
      BY <2>3 DEF Told
    <2>5. CountFor(s)
      BY DEF DiskInv, CountInv
    <2>6. Count(s)' + (IF Writing(s, "strip")' /\ job'.open THEN 1 ELSE 0) <= written'[s]
      BY <2>2, <2>3, <2>5 DEF CountFor
    <2> QED
      BY <2>1, <2>3, <2>4, <2>5, <2>6 DEF CountFor
  <1> QED
    BY <1>2, <1>3 DEF CountInv

LEMMA OpenLedger ==
    ASSUME DiskInv, Open, job.at = "ledger"
    PROVE  StoreShape' /\ NewShape' /\ CountInv' /\ LedgerInv'
  <1>1. /\ Put("ledger", Torn) /\ UNCHANGED <<jobs, written, scanned, faults>> /\ ~ job.open
        /\ job' = [job EXCEPT !.open = TRUE, !.new = FoldRun]
    BY DEF Open
  <1>2. /\ job'.at = "ledger" /\ job'.open /\ job'.new = FoldRun /\ job'.applied = job.applied
        /\ Directory' = Directory
    BY <1>1, OpenMeans DEF DiskInv
  <1>3. /\ files'[Directory] = [runs |-> Here.runs, totals |-> Here.totals, ledger |-> Torn]
        /\ \A s \in Spaces : s # Directory => files'[s] = files[s]
        /\ Here' = files'[Directory]
    BY <1>1, <1>2, PutLedger DEF DiskInv, Here
  <1>4. /\ FoldRun \in LedgerText
        /\ FoldRun.os = Ledger.os /\ FoldRun.events = Ledger.events
        /\ FoldRun.changed = IF job.applied THEN jobs ELSE Ledger.changed
    BY <1>1, LedgerRead, HereKnown DEF FoldRun, LedgerText
  <1>5. NewShape'
    BY <1>2, <1>3, <1>4 DEF NewShape
  <1>6. LedgerInv'
    <2>1. CASE Directory = "fleet"
      <3>1. Faithful(FoldRun, scanned.os, scanned.upgrades, IF job.applied THEN jobs ELSE scanned.changed)
        BY <1>1, <1>4, <2>1, LedgerRead DEF Faithful
      <3>2. Faithful(job.new, scanned.os, scanned.upgrades, IF job.applied THEN jobs ELSE scanned.changed)'
        BY <1>1, <1>2, <3>1 DEF Faithful
      <3>3. files'["fleet"].ledger = Torn
        BY <1>3, <2>1
      <3>4. Writing("fleet", "ledger")' /\ ~ Writing("fleet", "observe")'
        BY <1>2, <2>1 DEF Writing
      <3> QED
        BY <1>2, <3>2, <3>3, <3>4 DEF LedgerInv
    <2>2. CASE Directory # "fleet"
      <3>1. files'["fleet"].ledger = files["fleet"].ledger
        BY <1>3, <2>2 DEF Spaces
      <3>2. ~ Writing("fleet", "ledger")' /\ ~ Writing("fleet", "observe")'
        BY <1>2, <2>2 DEF Writing
      <3> QED
        BY <1>1, <3>1, <3>2, SameLedger DEF DiskInv
    <2> QED
      BY <2>1, <2>2
  <1> QED
    BY <1>1, <1>2, <1>5, <1>6, LedgerStep DEF DiskInv, StoreShape

LEMMA CloseLedger ==
    ASSUME DiskInv, Close, job.at = "ledger"
    PROVE  StoreShape' /\ NewShape' /\ CountInv' /\ LedgerInv'
  <1>1. /\ job.open /\ Put("ledger", job.new) /\ Go("prune") /\ UNCHANGED <<jobs, written, faults>>
        /\ scanned' = IF job.applied THEN [scanned EXCEPT !.changed = jobs] ELSE scanned
    BY DEF Close
  <1>2. job'.at = "prune" /\ ~ job'.open /\ Directory' = Directory
    BY <1>1, GoMeans DEF DiskInv
  <1>3. job.new \in LedgerText /\ job.new # Torn
    BY <1>1, TornIsNoLedger DEF DiskInv, NewShape
  <1>4. /\ files'[Directory] = [runs |-> Here.runs, totals |-> Here.totals, ledger |-> job.new]
        /\ \A s \in Spaces : s # Directory => files'[s] = files[s]
    BY <1>1, <1>3, PutLedger DEF DiskInv
  <1>5. NewShape'
    BY <1>2 DEF NewShape
  <1>6. /\ scanned' \in [os : Nat, upgrades : Seq(Event), changed : Nat]
        /\ scanned'.os = scanned.os /\ scanned'.upgrades = scanned.upgrades
        /\ scanned'.changed = IF job.applied THEN jobs ELSE scanned.changed
    BY <1>1, HereKnown DEF DiskInv, StoreShape
  <1>7. LedgerInv'
    <2>1. CASE Directory = "fleet"
      <3>1. Faithful(job.new, scanned.os, scanned.upgrades, IF job.applied THEN jobs ELSE scanned.changed)
        BY <1>1, <2>1 DEF DiskInv, LedgerInv, Writing
      <3>2. Faithful(job.new, scanned'.os, scanned'.upgrades, scanned'.changed)
        BY <1>6, <3>1
      <3>3. files'["fleet"].ledger = job.new
        BY <1>4, <2>1
      <3>4. Faithful(files["fleet"].ledger, scanned.os, scanned.upgrades, scanned.changed)'
        BY <1>1, <3>2, <3>3 DEF Faithful
      <3> QED
        BY <1>2, <1>3, <3>3, <3>4 DEF LedgerInv
    <2>2. CASE Directory # "fleet"
      <3>1. files'["fleet"].ledger = files["fleet"].ledger
        BY <1>4, <2>2 DEF Spaces
      <3>2. ~ Writing("fleet", "ledger") /\ ~ Writing("fleet", "observe")
        BY <2>2 DEF Writing
      <3>3. UNCHANGED scanned
        BY <1>1, <2>2 DEF DiskInv, JobShape, Directory
      <3> QED
        BY <1>1, <1>2, <3>1, <3>2, <3>3, SameLedger DEF DiskInv
    <2> QED
      BY <2>1, <2>2
  <1> QED
    BY <1>1, <1>2, <1>3, <1>5, <1>6, <1>7, LedgerStep

\* A scan is a job of the fleet.
LEMMA ScansAreOfTheFleet == ASSUME DiskInv, job.at = "observe" PROVE Directory = "fleet"
  BY DEF DiskInv, JobShape, Directory

LEMMA ElementsOfLonger ==
    ASSUME NEW e \in Event, NEW q \in Seq(Event)
    PROVE  <<e>> \o q \in Seq(Event) /\ Elements(<<e>> \o q) = {e} \cup Elements(q)
  <1>1. <<e>> \o q \in Seq(Event) /\ Len(<<e>> \o q) = Len(q) + 1 /\ Len(q) \in Nat
    OBVIOUS
  <1>2. (<<e>> \o q)[1] = e /\ \A i \in 1 .. Len(q) : (<<e>> \o q)[i + 1] = q[i]
    OBVIOUS
  <1>3. \A i \in 2 .. Len(q) + 1 : i - 1 \in 1 .. Len(q) /\ (i - 1) + 1 = i
    BY <1>1
  <1>4. Elements(<<e>> \o q) \subseteq {e} \cup Elements(q)
    BY <1>1, <1>2, <1>3 DEF Elements
  <1>5. {e} \cup Elements(q) \subseteq Elements(<<e>> \o q)
    <2>1. 1 \in 1 .. Len(q) + 1 /\ \A i \in 1 .. Len(q) : i + 1 \in 1 .. Len(q) + 1
      BY <1>1
    <2>2. DOMAIN (<<e>> \o q) = 1 .. Len(q) + 1 /\ DOMAIN q = 1 .. Len(q)
      BY <1>1
    <2>3. e \in Elements(<<e>> \o q)
      BY <1>2, <2>1, <2>2 DEF Elements
    <2>4. ASSUME NEW i \in 1 .. Len(q) PROVE q[i] \in Elements(<<e>> \o q)
      BY <1>2, <2>1, <2>2 DEF Elements
    <2> QED
      BY <2>2, <2>3, <2>4 DEF Elements
  <1> QED
    BY <1>1, <1>4, <1>5

\* What is kept of a list are its first entries.
LEMMA NewestOnes ==
    ASSUME NEW q \in Seq(Event)
    PROVE  /\ Newest(q) \in Seq(Event) /\ Elements(Newest(q)) \subseteq Elements(q)
           /\ Len(q) <= EventsCap => Newest(q) = q
           /\ Len(q) > EventsCap => Len(Newest(q)) = EventsCap
           /\ \A i \in 1 .. Len(Newest(q)) : i \in 1 .. Len(q) /\ Newest(q)[i] = q[i]
  <1>1. EventsCap \in Nat \ {0} /\ Len(q) \in Nat /\ DOMAIN q = 1 .. Len(q)
    BY RecordsAssumption
  <1>2. CASE Len(q) <= EventsCap
    <2>1. ~ (Len(q) > EventsCap)
      BY <1>1, <1>2
    <2>2. Newest(q) = q
      BY <2>1 DEF Newest
    <2> QED
      BY <1>1, <2>1, <2>2
  <1>3. CASE Len(q) > EventsCap
    <2>1. Newest(q) = SubSeq(q, 1, EventsCap)
      BY <1>3 DEF Newest
    <2>2. \A i \in 1 .. EventsCap : i \in 1 .. Len(q) /\ q[i] \in Event
      BY <1>1, <1>3
    <2>3. /\ Newest(q) \in Seq(Event) /\ Len(Newest(q)) = EventsCap
          /\ \A i \in 1 .. EventsCap : Newest(q)[i] = q[i]
      BY <1>1, <2>1, <2>2, SubSeqProperties
    <2>4. DOMAIN Newest(q) = 1 .. EventsCap
      BY <2>3
    <2>5. Elements(Newest(q)) \subseteq Elements(q)
      BY <1>1, <2>2, <2>3, <2>4 DEF Elements
    <2> QED
      BY <1>1, <1>3, <2>2, <2>3, <2>5
  <1> QED
    BY <1>1, <1>2, <1>3

\* A list that was cut before, and is cut again when something new comes in front.
LEMMA NewestAgain ==
    ASSUME NEW e \in Event, NEW q \in Seq(Event)
    PROVE  Newest(<<e>> \o Newest(q)) = Newest(<<e>> \o q)
  <1>1. EventsCap \in Nat \ {0} /\ Len(q) \in Nat /\ Newest(q) \in Seq(Event)
    BY RecordsAssumption, NewestOnes
  <1>2. CASE Len(q) <= EventsCap
    BY <1>2, NewestOnes
  <1>3. CASE Len(q) > EventsCap
    <2> DEFINE short == <<e>> \o Newest(q)
               long  == <<e>> \o q
    <2>1. short \in Seq(Event) /\ long \in Seq(Event)
      BY <1>1, ElementsOfLonger
    <2>2. /\ Len(short) = EventsCap + 1 /\ Len(long) = Len(q) + 1
          /\ short[1] = e /\ long[1] = e
          /\ \A i \in 1 .. EventsCap : short[i + 1] = Newest(q)[i]
          /\ \A i \in 1 .. Len(q) : long[i + 1] = q[i]
      BY <1>1, <1>3, NewestOnes
    <2>3. \A i \in 1 .. EventsCap : Newest(q)[i] = q[i] /\ i \in 1 .. Len(q)
      BY <1>3, NewestOnes
    <2>4. ASSUME NEW i \in 1 .. EventsCap PROVE short[i] = long[i]
      <3>1. CASE i = 1
        BY <2>2, <3>1
      <3>2. CASE i # 1
        <4>1. i - 1 \in 1 .. EventsCap /\ (i - 1) + 1 = i
          BY <1>1, <3>2
        <4> QED
          BY <2>2, <2>3, <4>1
      <3> QED
        BY <3>1, <3>2
    <2> HIDE DEF short, long
    <2>5. /\ Newest(short) \in Seq(Event) /\ Len(Newest(short)) = EventsCap
          /\ Newest(long) \in Seq(Event) /\ Len(Newest(long)) = EventsCap
          /\ \A i \in 1 .. EventsCap : Newest(short)[i] = short[i] /\ Newest(long)[i] = long[i]
      <3>1. Len(short) > EventsCap /\ Len(long) > EventsCap
        BY <1>1, <1>3, <2>2
      <3> QED
        BY <2>1, <3>1, NewestOnes
    <2>6. Newest(short) = Newest(long)
      BY <2>4, <2>5, SeqEqual
    <2> QED
      BY <2>6 DEF short, long
  <1> QED
    BY <1>1, <1>2, <1>3

LEMMA OpenObserve ==
    ASSUME DiskInv, Open, job.at = "observe"
    PROVE  StoreShape' /\ NewShape' /\ CountInv' /\ LedgerInv'
  <1>1. /\ Put("ledger", Torn) /\ UNCHANGED <<jobs, written, scanned, faults>> /\ ~ job.open
        /\ job' = [job EXCEPT !.open = TRUE, !.new = Observe]
    BY DEF Open
  <1>2. job'.at = "observe" /\ job'.open /\ job'.new = Observe /\ Directory' = Directory
    BY <1>1, OpenMeans DEF DiskInv
  <1>3. /\ files'[Directory] = [runs |-> Here.runs, totals |-> Here.totals, ledger |-> Torn]
        /\ Here' = files'[Directory] /\ Directory = "fleet"
    BY <1>1, <1>2, PutLedger, ScansAreOfTheFleet DEF DiskInv, Here
  <1> DEFINE E == [from |-> Ledger.os, to |-> os]
  <1>4. /\ Ledger \in LedgerText /\ os \in Nat \ {0} /\ E \in Event
        /\ Faithful(Ledger, scanned.os, scanned.upgrades, scanned.changed)
        /\ scanned.upgrades \in Seq(Event)
    <2>1. Ledger \in LedgerText /\ os \in Nat \ {0}
      BY <1>1, LedgerRead DEF DiskInv, JobShape
    <2> QED
      BY <1>1, <1>3, <2>1, LedgerRead DEF DiskInv, StoreShape, LedgerText, Event
  <1>5. Ledger.os \in Nat /\ Ledger.events \in Seq(Event)
    BY <1>4 DEF LedgerText
  <1>6. /\ Observe.os = os /\ Observe.changed = Ledger.changed
        /\ Observe.events = IF Ledger.os \notin {0, os} THEN Newest(<<E>> \o Ledger.events) ELSE Ledger.events
        /\ Observe \in LedgerText
    <2>1. Newest(<<E>> \o Ledger.events) \in Seq(Event)
      BY <1>4, <1>5, ElementsOfLonger, NewestOnes
    <2> QED
      BY <1>4, <2>1 DEF Observe, LedgerText
  <1> HIDE DEF E
  <1>7. NewShape'
    BY <1>2, <1>3, <1>6 DEF NewShape
  <1>8. Faithful(Observe, os, UpgradesTo(os), scanned.changed)
    <2>1. CASE Ledger.os \notin {0, os}
      <3>1. Ledger.os = scanned.os /\ UpgradesTo(os) = <<E>> \o scanned.upgrades
        BY <1>4, <2>1 DEF Faithful, UpgradesTo, E
      <3>2. Elements(Newest(<<E>> \o Ledger.events)) \subseteq Elements(<<E>> \o scanned.upgrades)
        <4>1. <<E>> \o Ledger.events \in Seq(Event)
          BY <1>4, <1>5, ElementsOfLonger
        <4>2. Elements(<<E>> \o Ledger.events) \subseteq Elements(<<E>> \o scanned.upgrades)
          BY <1>4, <1>5, ElementsOfLonger DEF Faithful
        <4> QED
          BY <4>1, <4>2, NewestOnes
      <3>3. faults = 0 => Newest(<<E>> \o Ledger.events) = Newest(<<E>> \o scanned.upgrades)
        BY <1>4, NewestAgain DEF Faithful
      <3> QED
        BY <1>4, <1>6, <2>1, <3>1, <3>2, <3>3 DEF Faithful
    <2>2. CASE Ledger.os \in {0, os}
      <3>1. Elements(scanned.upgrades) \subseteq Elements(UpgradesTo(os))
        <4>1. CASE scanned.os \notin {0, os}
          <5>1. [from |-> scanned.os, to |-> os] \in Event
            BY <1>4 DEF DiskInv, StoreShape, Event
          <5> QED
            BY <1>4, <4>1, <5>1, ElementsOfLonger DEF UpgradesTo
        <4>2. CASE scanned.os \in {0, os}
          BY <4>2 DEF UpgradesTo
        <4> QED
          BY <4>1, <4>2
      <3>2. faults = 0 => UpgradesTo(os) = scanned.upgrades
        BY <1>4, <2>2 DEF Faithful, UpgradesTo
      <3> QED
        BY <1>4, <1>6, <2>2, <3>1, <3>2 DEF Faithful
    <2> QED
      BY <2>1, <2>2
  <1>9. LedgerInv'
    <2>1. Faithful(job.new, job.new.os, UpgradesTo(job.new.os), scanned.changed)'
      BY <1>1, <1>2, <1>6, <1>8 DEF Faithful, UpgradesTo
    <2>2. files'["fleet"].ledger = Torn
      BY <1>3
    <2>3. Writing("fleet", "observe")' /\ ~ Writing("fleet", "ledger")'
      BY <1>2, <1>3 DEF Writing
    <2> QED
      BY <1>2, <2>1, <2>2, <2>3 DEF LedgerInv
  <1> QED
    BY <1>1, <1>2, <1>7, <1>9, LedgerStep DEF DiskInv, StoreShape

LEMMA CloseObserve ==
    ASSUME DiskInv, Close, job.at = "observe"
    PROVE  StoreShape' /\ NewShape' /\ CountInv' /\ LedgerInv'
  <1> DEFINE new == job.new
  <1>1. /\ job.open /\ Put("ledger", new) /\ Go("record") /\ UNCHANGED <<jobs, written, faults>>
        /\ scanned' = [scanned EXCEPT !.os = new.os,
                         !.upgrades = IF scanned.os \notin {0, new.os}
                                      THEN <<[from |-> scanned.os, to |-> new.os]>> \o scanned.upgrades
                                      ELSE scanned.upgrades]
    BY DEF Close
  <1>2. job'.at = "record" /\ ~ job'.open /\ Directory' = Directory /\ Directory = "fleet"
    BY <1>1, GoMeans, ScansAreOfTheFleet DEF DiskInv
  <1>3. new \in LedgerText /\ new # Torn
    BY <1>1, TornIsNoLedger DEF DiskInv, NewShape
  <1>4. Faithful(new, new.os, UpgradesTo(new.os), scanned.changed)
    BY <1>1, <1>2 DEF DiskInv, LedgerInv, Writing
  <1> HIDE DEF new
  <1>5. files'[Directory] = [runs |-> Here.runs, totals |-> Here.totals, ledger |-> new]
    BY <1>1, <1>3, PutLedger DEF DiskInv
  <1>6. NewShape'
    BY <1>2 DEF NewShape
  <1>7. scanned \in [os : Nat, upgrades : Seq(Event), changed : Nat] /\ new.os \in Nat
    BY <1>3 DEF DiskInv, StoreShape, LedgerText
  <1>8. UpgradesTo(new.os) \in Seq(Event)
    <2>1. [from |-> scanned.os, to |-> new.os] \in Event /\ scanned.upgrades \in Seq(Event)
      BY <1>7 DEF Event
    <2> QED
      BY <2>1, ElementsOfLonger DEF UpgradesTo
  <1>9. scanned' = [os |-> new.os, upgrades |-> UpgradesTo(new.os), changed |-> scanned.changed]
    BY <1>1, <1>7 DEF UpgradesTo
  <1>10. /\ scanned' \in [os : Nat, upgrades : Seq(Event), changed : Nat]
         /\ scanned'.os = new.os /\ scanned'.upgrades = UpgradesTo(new.os) /\ scanned'.changed = scanned.changed
    BY <1>7, <1>8, <1>9
  <1>11. LedgerInv'
    <2>1. files'["fleet"].ledger = new
      BY <1>2, <1>5
    <2>2. Faithful(files["fleet"].ledger, scanned.os, scanned.upgrades, scanned.changed)'
      BY <1>1, <1>4, <1>10, <2>1 DEF Faithful
    <2> QED
      BY <1>2, <1>3, <2>1, <2>2 DEF LedgerInv
  <1> QED
    BY <1>1, <1>2, <1>3, <1>6, <1>10, <1>11, LedgerStep

(***************************************************************************)
(* Both together.                                                          *)
(***************************************************************************)
LEMMA DiskKept == DiskInv /\ [Next]_vars => DiskInv'
  <1> SUFFICES ASSUME DiskInv, [Next]_vars PROVE DiskInv'
    OBVIOUS
  <1>1. JobShape'
    BY JobKept DEF DiskInv
  <1> DEFINE Goal == StoreShape' /\ NewShape' /\ CountInv' /\ LedgerInv'
  <1>2. job.open => job.at \notin Briefed
    BY DEF DiskInv, JobShape
  <1>3. CASE StartJob
    <2>1. job = Idle /\ UNCHANGED <<files, written, scanned, faults>>
      BY <1>3 DEF StartJob
    <2>2. ~ job'.open /\ job'.at # "totals"
      BY <1>3 DEF StartJob, Idle
    <2>3. ~ job.open /\ job.at # "totals"
      BY <2>1 DEF Idle
    <2> QED
      BY <1>1, <2>1, <2>2, <2>3, Quiet DEF DiskInv
  <1>4. CASE Upgrade \/ Rest \/ UNCHANGED vars
    <2>1. UNCHANGED <<job, jobs, files, written, scanned, faults>>
      BY <1>4 DEF Upgrade, Rest, vars
    <2> QED
      BY <1>1, <2>1, Still DEF DiskInv
  <1>5. CASE Die
    <2>1. UNCHANGED <<files, written, scanned>> /\ faults' = faults + 1 /\ End
      BY <1>5 DEF Die
    <2> QED
      BY <1>1, <2>1, EndMeans, Quiet DEF DiskInv
  <1>6. CASE RecordRun \/ Dispatch \/ Remember
    <2>1. /\ job.at \in {"alert", "dispatch", "remember"} /\ UNCHANGED <<files, written, scanned>>
          /\ faults' \in {faults, faults + 1}
          /\ (\E step \in {"remember", "run"} : Go(step)) \/ \E allow, saved : Decide(allow, saved)
      BY <1>6 DEF RecordRun, CountUnread, CountKept, Dispatch, Remember
    <2>2. ~ job'.open /\ job'.at # "totals"
      BY <1>2, <2>1, GoMeans, DecideMeans DEF DiskInv, Briefed
    <2> QED
      BY <1>1, <1>2, <2>1, <2>2, Quiet DEF DiskInv, Briefed
  <1>7. CASE RecordManual
    <2>1. job.at = "record" /\ End /\ UNCHANGED <<files, written, scanned, faults>>
      BY <1>7 DEF RecordManual
    <2> QED
      BY <1>1, <1>2, <2>1, EndMeans, Quiet DEF DiskInv, Briefed
  <1>8. CASE WriteFails
    <2>1. /\ UNCHANGED <<files, written, scanned>> /\ faults' = faults + 1
          /\ Go("prune") \/ Go("record") \/ End
      BY <1>8 DEF WriteFails
    <2>2. CASE Go("prune")
      <3>1. ~ job'.open /\ job'.at = "prune"
        BY <2>2, GoMeans DEF DiskInv
      <3> QED
        BY <1>1, <2>1, <3>1, Quiet DEF DiskInv
    <2>3. CASE Go("record")
      <3>1. ~ job'.open /\ job'.at = "record"
        BY <2>3, GoMeans DEF DiskInv
      <3> QED
        BY <1>1, <2>1, <3>1, Quiet DEF DiskInv
    <2>4. CASE End
      <3>1. ~ job'.open /\ job'.at = "none"
        BY <2>4, EndMeans
      <3> QED
        BY <1>1, <2>1, <3>1, Quiet DEF DiskInv
    <2> QED
      BY <2>1, <2>2, <2>3, <2>4
  <1>9. CASE Open
    <2>1. job.at \in {"run", "totals", "ledger", "observe"}
      BY <1>9 DEF Open
    <2> QED
      BY <1>1, <1>9, <2>1, OpenRun, OpenTotals, OpenLedger, OpenObserve DEF DiskInv
  <1>10. CASE Close
    <2>1. job.at \in {"run", "totals", "ledger", "observe"}
      BY <1>10 DEF Close
    <2> QED
      BY <1>1, <1>10, <2>1, CloseRun, CloseTotals, CloseLedger, CloseObserve DEF DiskInv
  <1>11. CASE Prune \/ Strip
    BY <1>1, <1>11, PruneStep, StripStep DEF DiskInv
  <1>12. CASE Spoil
    <2>1. UNCHANGED <<job, files, written, scanned>> /\ faults' = faults + 1 /\ job = Idle
      BY <1>12 DEF Spoil
    <2> QED
      BY <1>1, <2>1, Quiet DEF DiskInv, Idle
  <1> QED
    BY <1>3, <1>4, <1>5, <1>6, <1>7, <1>8, <1>9, <1>10, <1>11, <1>12 DEF Next

LEMMA DiskInit == Init => DiskInv
  <1> SUFFICES ASSUME Init PROVE DiskInv
    OBVIOUS
  <1>1. job.at = "none" /\ job.open = FALSE
    BY DEF Init, Idle
  <1>2. job.open = FALSE /\ ~ Writing("fleet", "ledger") /\ ~ Writing("fleet", "observe")
    BY <1>1 DEF Writing
  <1>3. JobShape
    BY JobInit
  <1>4. files \in [Spaces -> Folder]
    BY DEF Init, Folder, Torn
  <1>5. StoreShape
    BY <1>4 DEF Init, StoreShape
  <1>6. ASSUME NEW s \in Spaces PROVE CountFor(s)
    <2>1. files[s].runs = <<>> /\ files[s].totals = Torn /\ written[s] = 0 /\ faults = 0
      BY DEF Init
    <2>2. Readable(<<>>) = {}
      BY DEF Readable
    <2>3. Count(s) = 0
      BY <2>1, <2>2, FS_EmptySet DEF Count
    <2>4. ~ Writing(s, "totals") /\ ~ Writing(s, "strip") /\ Told(s) = 0
      BY <1>1, <2>1 DEF Writing, Told
    <2> QED
      BY <2>1, <2>3, <2>4 DEF CountFor
  <1>7. LedgerInv
    <2>1. files["fleet"].ledger = Torn /\ scanned = [os |-> 0, upgrades |-> <<>>, changed |-> 0]
      BY DEF Init, Spaces
    <2> QED
      BY <1>2, <2>1 DEF LedgerInv
  <1>8. NewShape
    BY <1>2 DEF NewShape
  <1> QED
    BY <1>3, <1>5, <1>6, <1>7, <1>8 DEF DiskInv, CountInv

\* The all-time totals (_accumulate_totals, _seed_totals) never count a run twice, and miss none
\* as long as nothing failed, for any number of runs, deaths, full disks and any retention.
THEOREM AlwaysTotalsHonest == Spec => []TotalsHonest
  <1>1. DiskInv => TotalsHonest
    <2> SUFFICES ASSUME DiskInv, NEW s \in Spaces
                 PROVE  /\ Shown(s).n <= written[s]
                        /\ job = Idle /\ faults = 0 => Shown(s).n = written[s]
      BY DEF TotalsHonest
    <2>1. /\ CountFor(s) /\ written[s] \in Nat /\ files[s] \in Folder
      BY DEF DiskInv, CountInv, StoreShape
    <2>2. files[s].totals \in [n : Nat] /\ files[s].totals.n \in Nat /\ Count(s) \in Nat
      BY <2>1, CountIsNat DEF Folder, Count
    <2>3. Told(s) \in Int /\ Told(s) <= written[s] /\ (job = Idle => Told(s) = written[s])
      BY <2>1 DEF Told, Writing, Idle
    <2>4. Count(s) <= written[s]
      BY <2>1, <2>2 DEF CountFor
    <2>5. CASE files[s].totals = Torn
      <3>1. Shown(s).n = Count(s)
        BY <2>5 DEF Shown, Seed, RunsOf, Count, Readable
      <3>2. job = Idle /\ faults = 0 => written[s] = 0
        BY <2>1, <2>3, <2>5 DEF CountFor, Idle
      <3> QED
        BY <2>2, <2>4, <3>1, <3>2
    <2>6. CASE files[s].totals # Torn
      <3>1. Shown(s).n = files[s].totals.n
        BY <2>6 DEF Shown
      <3>2. files[s].totals.n <= Told(s) /\ (faults = 0 => files[s].totals.n = Told(s))
        BY <2>1, <2>6 DEF CountFor
      <3> QED
        BY <2>1, <2>2, <2>3, <3>1, <3>2
    <2> QED
      BY <2>5, <2>6
  <1> QED
    BY <1>1, DiskInit, DiskKept, PTL DEF Spec

\* The ledger (_fold_run, _observe_release) invents no upgrade and no update, and has the last
\* update and the newest EventsCap upgrades of all it was told if nothing failed, for any
\* interleaving of runs, scans and upgrades.
THEOREM AlwaysLedgerTellsTruth == Spec => []LedgerTellsTruth
  <1>1. DiskInv => LedgerTellsTruth
    BY DEF DiskInv, LedgerInv, Faithful, LedgerTellsTruth, Elements
  <1> QED
    BY <1>1, DiskInit, DiskKept, PTL DEF Spec

=============================================================================
