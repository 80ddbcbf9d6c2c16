--------------------------- MODULE Pipeline_proofs ---------------------------
(***************************************************************************)
(* Theorems about Pipeline, for any number of runs, faults and changes and *)
(* any distance of the guest from a converged one.                         *)
(***************************************************************************)
EXTENDS Pipeline, TLAPS

(***************************************************************************)
(* Types, part by part.                                                    *)
(***************************************************************************)
FactsSet == [v : Verdicts, tools : BOOLEAN, env : BOOLEAN]
AlloySet == [bin : BOOLEAN, file : Configs \cup {"foreign", "none"}, member : BOOLEAN,
             enabled : BOOLEAN, active : BOOLEAN]
GhostSet == [faults : 0..MaxFaults, changes : 0..MaxChanges, still : BOOLEAN, seen : BOOLEAN,
             erred : BOOLEAN, fresh : BOOLEAN, retained : {"no", "yes", "stale", "unimported"},
             cleans : Nat, lost : Nat, installed : BOOLEAN]

WorldTypes   == conf \in Confs /\ guest \in Guests /\ recent \in BOOLEAN
RunTypes     == run \in Runs /\ ghost \in GhostSet
ManagerTypes == /\ facts \in FactsSet /\ house \in [cache : BOOLEAN] /\ alloy \in AlloySet
                /\ cand \in Configs /\ result \in Configs \cup {"none"}
Types        == WorldTypes /\ RunTypes /\ ManagerTypes

\* The steps, by what they may do.
Probing ==
    \/ ProbeHouse \/ CacheLook \/ CacheFresh \/ NeedLoki \/ Prepare \/ Audit \/ ReadState
    \/ Reprobe \/ Measure \/ Validate \/ Access \/ VerifyAcl \/ Env \/ EnvVerify
    \/ Before \/ Final \/ Verify \/ Refresh \/ Import \/ Retain \/ Mark \/ End

Configuring == Install \/ Acl \/ EnvWrite \/ EnvReload \/ EnvRestart
Tasks       == TaskInstall \/ TaskFile \/ TaskGroup \/ TaskEnable \/ TaskRestart
Caching     == CacheClean \/ CacheRecord
Between     == GuestChange \/ Begin \/ Dies \/ WindowPasses \/ Done

LEMMA Steps == Next <=> Probing \/ Configuring \/ Tasks \/ Caching \/ Between
  BY DEF Next, Probing, Configuring, Tasks, Caching, Between

\* A probe looks, whatever comes of it.
LEMMA ProbingStays == ASSUME Probing PROVE UNCHANGED <<conf, guest, recent>>
  <1> USE DEF Look, BlockedQuietly
  <1>1. CASE ProbeHouse \/ CacheLook \/ CacheFresh \/ NeedLoki \/ Prepare \/ Audit
    BY <1>1 DEF ProbeHouse, CacheLook, CacheFresh, NeedLoki, Prepare, Audit
  <1>2. CASE ReadState \/ Reprobe \/ Measure \/ Validate \/ Access \/ VerifyAcl \/ Env \/ EnvVerify
    BY <1>2 DEF ReadState, Reprobe, Measure, Validate, Access, VerifyAcl, Env, EnvVerify
  <1>3. CASE Before \/ Final \/ Verify
    BY <1>3 DEF Before, Final, Verify
  <1>4. CASE Refresh \/ Retain
    BY <1>4 DEF Refresh, Retain
  <1>5. CASE Import \/ Mark \/ End
    BY <1>5 DEF Import, Mark, End
  <1> QED
    BY <1>1, <1>2, <1>3, <1>4, <1>5 DEF Probing

\* How a command that fails shows in the history.
Failed ==
    \/ ghost' = [ghost EXCEPT !.erred = TRUE]
    \/ ghost.faults < MaxFaults /\ ghost' = [ghost EXCEPT !.faults = @ + 1, !.erred = TRUE]

LEMMA CommandFails ==
    ASSUME NEW effect, Command(effect, FALSE) PROVE guest' \in {guest, effect} /\ Failed
  BY DEF Command, Failed

\* A command of preparation works, and is counted as a change, or blocks.
LEMMA ConfigureDoes ==
    ASSUME NEW at, NEW next, NEW effect, NEW works, Configure(at, next, effect, works)
    PROVE  /\ pc = at /\ guest' \in {guest, effect} /\ UNCHANGED <<conf, recent>>
           /\ \/ /\ pc' = next /\ run' = [run EXCEPT !.changed = TRUE] /\ UNCHANGED result
                 /\ ghost' = [ghost EXCEPT !.fresh = FALSE]
              \/ /\ pc' = "end" /\ run' = [run EXCEPT !.failed = TRUE] /\ result' = "none"
                 /\ Failed
  BY CommandFails DEF Configure, Blocked, Goto, Failed

AclEffect == [guest EXCEPT !.src = IF @ = "closed" THEN "open" ELSE @]

LEMMA AclDoes ==
    ASSUME Acl
    PROVE  /\ pc = "acl" /\ guest' \in {guest, AclEffect}
           /\ UNCHANGED <<conf, recent, facts, house, alloy, cand>>
           /\ \/ /\ pc' = "verifyAcl" /\ UNCHANGED result
                 /\ run' = [run EXCEPT !.changed = @ \/ AclEffect # guest]
                 /\ ghost' = [ghost EXCEPT !.fresh = @ /\ AclEffect = guest]
              \/ /\ pc' = "end" /\ run' = [run EXCEPT !.failed = TRUE] /\ result' = "none"
                 /\ Failed
  BY CommandFails DEF Acl, AclEffect, Blocked, Goto, Failed

\* A task is skipped, works, or ends the playbook.
LEMMA TaskDoes ==
    ASSUME NEW at, NEW next, NEW wanted, NEW effect, NEW works, NEW g,
           Task(at, next, wanted, effect, works, g)
    PROVE  /\ pc = at /\ guest' \in {guest, effect}
           /\ UNCHANGED <<conf, recent, facts, house, alloy, cand, result>>
           /\ \/ pc' = next /\ UNCHANGED <<run, ghost>>
              \/ /\ pc' = next /\ run' = [run EXCEPT !.changed = TRUE]
                 /\ ghost' = [g EXCEPT !.fresh = FALSE]
              \/ pc' = "final" /\ run' = [run EXCEPT !.err = TRUE] /\ Failed
  BY CommandFails DEF Task, Goto, Failed

LEMMA FailedType == ASSUME ghost \in GhostSet, Failed PROVE ghost' \in GhostSet
  <1>1. CASE ghost' = [ghost EXCEPT !.erred = TRUE]
    BY <1>1 DEF GhostSet
  <1>2. CASE ghost.faults < MaxFaults /\ ghost' = [ghost EXCEPT !.faults = @ + 1, !.erred = TRUE]
    <2>1. ghost.faults + 1 \in 0..MaxFaults
      BY <1>2, PipelineAssumption DEF GhostSet
    <2> QED
      BY <1>2, <2>1 DEF GhostSet
  <1> QED
    BY <1>1, <1>2 DEF Failed

\* What services and packages make of a guest is a guest.
LEMMA EffectTypes ==
    ASSUME guest \in Guests
    PROVE  /\ Restarted(guest) \in Guests /\ Booted(guest) \in Guests
           /\ Installed(guest) \in Guests /\ AclEffect \in Guests
  <1>1. ASSUME NEW g \in Guests PROVE Restarted(g) \in Guests
    <2>1. CASE g.alloy /\ g.file \in conf.accepts \cup {"foreign"}
      <3>1. Restarted(g) = [g EXCEPT !.active = TRUE, !.loaded = g.file,
                                     !.env = IF @ = "unit" THEN "live" ELSE @]
        BY <2>1 DEF Restarted
      <3> QED
        BY <3>1 DEF Guests
    <2>2. CASE ~ (g.alloy /\ g.file \in conf.accepts \cup {"foreign"})
      <3>1. Restarted(g) = [g EXCEPT !.active = FALSE, !.loaded = "none"]
        BY <2>2 DEF Restarted
      <3> QED
        BY <3>1 DEF Guests
    <2> QED
      BY <2>1, <2>2
  <1>2. Booted(guest) \in Guests
    <2> DEFINE h == [guest EXCEPT !.up = TRUE, !.env = IF @ = "off" THEN @ ELSE "live",
                                  !.active = FALSE, !.loaded = "none"]
    <2>1. h \in Guests
      BY ZenonT(60) DEF Guests
    <2> QED
      BY <1>1, <2>1 DEF Booted
  <1>3. Installed(guest) \in Guests /\ AclEffect \in Guests
    BY DEF Installed, AclEffect, Guests
  <1> QED
    BY <1>1, <1>2, <1>3

LEMMA SeenTypes ==
    ASSUME WorldTypes
    PROVE  Facts \in FactsSet /\ House \in [cache : BOOLEAN] /\ Alloy \in AlloySet
  <1>1. Verdict \in Verdicts
    BY DEF WorldTypes, Guests, Verdict, Verdicts
  <1>2. Facts \in FactsSet
    BY <1>1 DEF WorldTypes, Guests, Facts, FactsSet
  <1>3. House \in [cache : BOOLEAN]
    BY DEF House
  <1>4. Alloy \in AlloySet
    BY DEF WorldTypes, Guests, Alloy, AlloySet
  <1> QED
    BY <1>2, <1>3, <1>4

LEMMA BetweenTypes ==
    ASSUME Types, Between PROVE Types'
  <1> USE DEF Types, WorldTypes, RunTypes, ManagerTypes
  <1>1. CASE GuestChange
    <2>1. guest' \in Guests
      <3>1. ASSUME NEW s \in {"open", "closed", "gone", "unsafe"}
            PROVE  [guest EXCEPT !.src = s] \in Guests
        BY DEF Guests
      <3>2. /\ [guest EXCEPT !.busy = ~@] \in Guests /\ [guest EXCEPT !.cache = "full"] \in Guests
            /\ [guest EXCEPT !.active = FALSE, !.loaded = "none"] \in Guests
            /\ [guest EXCEPT !.up = FALSE, !.active = FALSE, !.loaded = "none"] \in Guests
            /\ [guest EXCEPT !.alloy = FALSE, !.active = FALSE, !.loaded = "none",
                             !.file = "none", !.member = FALSE, !.enabled = FALSE] \in Guests
        BY ZenonT(60) DEF Guests
      <3>3. [guest EXCEPT !.file = IF guest.alloy THEN "foreign" ELSE @] \in Guests
        BY DEF Guests
      <3> QED
        BY <1>1, <3>1, <3>2, <3>3, EffectTypes DEF GuestChange
    <2>2. /\ ghost.changes < MaxChanges
          /\ ghost' = [ghost EXCEPT !.changes = @ + 1, !.still = FALSE, !.seen = FALSE]
          /\ UNCHANGED <<conf, recent, run, facts, house, alloy, cand, result>>
      BY <1>1 DEF GuestChange
    <2>3. ghost.changes + 1 \in 0..MaxChanges
      BY <2>2, PipelineAssumption DEF GhostSet
    <2>4. ghost' \in GhostSet
      BY <2>2, <2>3 DEF GhostSet
    <2> QED
      BY <2>1, <2>2, <2>4
  <1>2. CASE Begin
    <2>1. /\ run.n < MaxRuns
          /\ \E kind \in {"maintain", "install"}, dry \in BOOLEAN :
               run' = [Idle EXCEPT !.kind = kind, !.dry = dry, !.n = run.n + 1]
          /\ facts' = NoFacts /\ house' = NoHouse /\ alloy' = NoAlloy /\ cand' = "base" /\ result' = "none"
          /\ ghost' = [ghost EXCEPT !.still = FALSE, !.seen = FALSE, !.erred = FALSE, !.fresh = TRUE,
                                    !.retained = "no"]
          /\ UNCHANGED <<conf, guest, recent>>
      BY <1>2 DEF Begin
    <2>2. run.n + 1 \in 0..MaxRuns
      <3>1. run.n \in 0..MaxRuns /\ run.n < MaxRuns /\ MaxRuns \in Nat
        BY <1>2, PipelineAssumption DEF Begin, Runs
      <3> QED
        BY <3>1
    <2>3. run' \in Runs
      BY <2>1, <2>2, ZenonT(60) DEF Runs, Idle
    <2>4. ghost' \in GhostSet
      BY <2>1 DEF GhostSet
    <2> QED
      BY <2>1, <2>3, <2>4 DEF NoFacts, NoHouse, NoAlloy, FactsSet, AlloySet, Configs, Verdicts
  <1>3. CASE Dies
    <2>1. /\ ghost.faults < MaxFaults
          /\ \E k \in {0, 1} : ghost' = [ghost EXCEPT !.faults = @ + 1, !.erred = FALSE, !.lost = @ + k]
          /\ run' = [run EXCEPT !.status = "none"] /\ result' = "none"
          /\ UNCHANGED <<conf, guest, recent, facts, house, alloy, cand>>
      BY <1>3 DEF Dies
    <2>2. ghost.faults + 1 \in 0..MaxFaults
      BY <2>1, PipelineAssumption DEF GhostSet
    <2>3. PICK k \in {0, 1} :
            ghost' = [ghost EXCEPT !.faults = @ + 1, !.erred = FALSE, !.lost = @ + k]
      BY <2>1
    <2>4. ghost.lost + k \in Nat
      BY <2>3 DEF GhostSet
    <2>5. ghost' \in GhostSet
      BY <2>2, <2>3, <2>4 DEF GhostSet
    <2> QED
      BY <2>1, <2>5 DEF Runs
  <1>4. CASE WindowPasses \/ Done
    <2>1. ghost' = [ghost EXCEPT !.cleans = 0, !.lost = 0] \/ UNCHANGED ghost
      BY <1>4 DEF WindowPasses, Done, vars
    <2>2. ghost' \in GhostSet
      <3>1. CASE ghost' = [ghost EXCEPT !.cleans = 0, !.lost = 0]
        BY <3>1 DEF GhostSet
      <3>2. CASE UNCHANGED ghost
        BY <3>2
      <3> QED
        BY <2>1, <3>1, <3>2
    <2> QED
      BY <1>4, <2>2 DEF WindowPasses, Done, vars
  <1> QED
    BY <1>1, <1>2, <1>3, <1>4 DEF Between

LEMMA ProbingTypes == ASSUME Types, Probing PROVE Types'
  <1> USE DEF Types
  <1>1. WorldTypes'
    BY ProbingStays DEF WorldTypes
  <1>2. ManagerTypes'
    <2> USE SeenTypes DEF ManagerTypes
    <2>1. CASE ProbeHouse \/ CacheLook \/ CacheFresh \/ NeedLoki
      <3>1. UNCHANGED <<facts, alloy, cand>>
        BY <2>1 DEF ProbeHouse, CacheLook, CacheFresh, NeedLoki, BlockedQuietly
      <3>2. house' \in {house, House} /\ result' \in {result, "none"}
        BY <2>1 DEF ProbeHouse, CacheLook, CacheFresh, NeedLoki, BlockedQuietly, Blocked
      <3> QED
        BY <3>1, <3>2
    <2>4. CASE Refresh
      BY <2>4 DEF Refresh
    <2>5. CASE Import
      BY <2>5 DEF Import
    <2>6. CASE Retain
      BY <2>6 DEF Retain
    <2>7. CASE Mark \/ End
      BY <2>7 DEF Mark, End
    <2>2. CASE Prepare \/ Audit \/ ReadState \/ Reprobe \/ Measure \/ Validate \/ Access
      <3>1. cand' \in Configs
        BY <2>2 DEF Prepare, Audit, ReadState, Reprobe, Measure, Validate, Access, BlockedQuietly, Candidate,
                    Configs
      <3>2. result' \in {result, cand, "base", "none"}
        BY <2>2 DEF Prepare, Audit, ReadState, Reprobe, Measure, Validate, Access, BlockedQuietly, Blocked
      <3>3. facts' \in {facts, Facts} /\ alloy' \in {alloy, Alloy} /\ UNCHANGED house
        BY <2>2 DEF Prepare, Audit, ReadState, Reprobe, Measure, Validate, Access, BlockedQuietly
      <3> QED
        BY <3>1, <3>2, <3>3 DEF Configs
    <2>3. CASE VerifyAcl \/ Env \/ EnvVerify \/ Before \/ Final \/ Verify
      <3>1. cand' \in Configs
        BY <2>3 DEF VerifyAcl, Env, EnvVerify, Before, Final, Verify, BlockedQuietly, Effective, Configs
      <3>2. result' \in {result, cand, "none"}
        BY <2>3 DEF VerifyAcl, Env, EnvVerify, Before, Final, Verify, BlockedQuietly, Blocked
      <3>3. facts' \in {facts, Facts} /\ alloy' \in {alloy, Alloy} /\ UNCHANGED house
        BY <2>3 DEF VerifyAcl, Env, EnvVerify, Before, Final, Verify, BlockedQuietly
      <3> QED
        BY <3>1, <3>2, <3>3
    <2> QED
      BY <2>1, <2>2, <2>3, <2>4, <2>5, <2>6, <2>7 DEF Probing
  <1>3. run' \in Runs
    <2> USE DEF RunTypes, Runs
    <2>1. ASSUME UNCHANGED run \/ run' = [run EXCEPT !.failed = TRUE] PROVE run' \in Runs
      BY <2>1
    <2>2. CASE ProbeHouse \/ CacheLook \/ CacheFresh \/ Prepare \/ Audit \/ ReadState \/ Refresh \/ Mark
      BY <2>1, <2>2 DEF ProbeHouse, CacheLook, CacheFresh, Prepare, Audit, ReadState, Refresh, Mark,
                        BlockedQuietly, Blocked
    <2>3. CASE Reprobe \/ Measure \/ Validate \/ Access \/ VerifyAcl \/ Env \/ EnvVerify \/ Before \/ Final \/ Verify
      BY <2>1, <2>3 DEF Reprobe, Measure, Validate, Access, VerifyAcl, Env, EnvVerify, Before, Final, Verify,
                        BlockedQuietly, Blocked
    <2>4. CASE NeedLoki
      BY <2>4 DEF NeedLoki
    <2>5. CASE Import
      <3>1. \E p, f \in BOOLEAN : run' = [run EXCEPT !.pending = p, !.failed = f]
        BY <2>5 DEF Import
      <3> QED
        BY <3>1
    <2>6. CASE Retain
      <3>1. PICK f \in {run.failed, TRUE}, c \in {run.cleaned, ~run.dry} :
              run' = [run EXCEPT !.failed = f, !.cleaned = c]
        BY <2>6 DEF Retain
      <3>2. f \in BOOLEAN /\ c \in BOOLEAN
        BY <3>1
      <3> QED
        BY <3>1, <3>2
    <2>7. CASE End
      BY <2>7 DEF End, Status
    <2> QED
      BY <2>2, <2>3, <2>4, <2>5, <2>6, <2>7 DEF Probing
  <1>4. ghost' \in GhostSet
    <2> USE DEF RunTypes, GhostSet
    <2>1. ASSUME \/ UNCHANGED ghost \/ ghost' = [ghost EXCEPT !.still = TRUE]
                 \/ ghost' = [ghost EXCEPT !.seen = TRUE]
          PROVE  ghost' \in GhostSet
      BY <2>1
    <2>2. CASE ProbeHouse \/ CacheLook \/ CacheFresh \/ NeedLoki \/ Prepare \/ Audit \/ ReadState \/ Reprobe
      BY <2>1, <2>2 DEF ProbeHouse, CacheLook, CacheFresh, NeedLoki, Prepare, Audit, ReadState, Reprobe,
                        BlockedQuietly
    <2>3. CASE Measure \/ Validate \/ Access \/ VerifyAcl \/ Env \/ EnvVerify
      BY <2>1, <2>3 DEF Measure, Validate, Access, VerifyAcl, Env, EnvVerify, BlockedQuietly
    <2>4. CASE Before \/ Final \/ Verify
      BY <2>1, <2>4 DEF Before, Final, Verify, BlockedQuietly
    <2>5. CASE Refresh
      <3>1. ghost' = [ghost EXCEPT !.fresh = @ \/ run.changed] \/ UNCHANGED ghost
        BY <2>5 DEF Refresh
      <3>2. (ghost.fresh \/ run.changed) \in BOOLEAN
        OBVIOUS
      <3> QED
        BY <3>1, <3>2
    <2>6. CASE Retain
      <3>1. \E r \in {ghost.retained, "stale", "unimported", "yes"} :
              ghost' = [ghost EXCEPT !.retained = r]
        BY <2>6 DEF Retain
      <3> QED
        BY <3>1
    <2>7. CASE Import \/ Mark \/ End
      BY <2>1, <2>7 DEF Import, Mark, End
    <2> QED
      BY <2>2, <2>3, <2>4, <2>5, <2>6, <2>7 DEF Probing
  <1> QED
    BY <1>1, <1>2, <1>3, <1>4 DEF RunTypes

\* The guest each command of preparation and each task works towards.
LEMMA GuestsMade ==
    ASSUME guest \in Guests, cand \in Configs
    PROVE  /\ [guest EXCEPT !.env = IF @ = "off" THEN "file" ELSE @] \in Guests
           /\ [guest EXCEPT !.env = IF @ = "file" THEN "unit" ELSE @] \in Guests
           /\ [guest EXCEPT !.file = cand] \in Guests
           /\ [guest EXCEPT !.member = TRUE] \in Guests
           /\ [guest EXCEPT !.enabled = TRUE] \in Guests
           /\ [guest EXCEPT !.cache = "empty"] \in Guests
  BY ZenonT(60) DEF Guests

LEMMA ConfiguringTypes == ASSUME Types, Configuring PROVE Types'
  <1> USE DEF Types, WorldTypes, RunTypes, ManagerTypes
  <1>1. UNCHANGED <<conf, recent, facts, house, alloy, cand>>
    BY ConfigureDoes, AclDoes DEF Configuring, Install, EnvWrite, EnvReload, EnvRestart
  <1>2. guest' \in Guests
    BY ConfigureDoes, AclDoes, EffectTypes, GuestsMade DEF Configuring, Install, EnvWrite, EnvReload, EnvRestart
  <1>3. run' \in Runs /\ result' \in {result, "none"}
    <2>1. /\ \E b \in BOOLEAN : \/ run' = [run EXCEPT !.changed = b]
                                \/ run' = [run EXCEPT !.failed = TRUE]
          /\ result' \in {result, "none"}
      <3>1. (run.changed \/ AclEffect # guest) \in BOOLEAN
        OBVIOUS
      <3> QED
        BY <3>1, ConfigureDoes, AclDoes DEF Configuring, Install, EnvWrite, EnvReload, EnvRestart
    <2> QED
      BY <2>1 DEF Runs
  <1>4. ghost' \in GhostSet
    <2>1. \/ \E b \in BOOLEAN : ghost' = [ghost EXCEPT !.fresh = b]
          \/ Failed
      <3>1. (ghost.fresh /\ AclEffect = guest) \in BOOLEAN
        OBVIOUS
      <3> QED
        BY <3>1, ConfigureDoes, AclDoes DEF Configuring, Install, EnvWrite, EnvReload, EnvRestart
    <2>2. ASSUME NEW b \in BOOLEAN PROVE [ghost EXCEPT !.fresh = b] \in GhostSet
      BY DEF GhostSet
    <2> QED
      BY <2>1, <2>2, FailedType
  <1> QED
    BY <1>1, <1>2, <1>3, <1>4

\* The history once a task has installed packages.
Noted == [ghost EXCEPT !.installed = @ \/ run.kind = "maintain"]

LEMMA TasksDo ==
    ASSUME Tasks
    PROVE  /\ pc \in {"packages", "file", "group", "enable", "restart"}
           /\ pc' \in {"file", "group", "enable", "restart", "final"}
           /\ guest' \in {guest, Installed(guest), [guest EXCEPT !.file = cand],
                          [guest EXCEPT !.member = TRUE], [guest EXCEPT !.enabled = TRUE],
                          Restarted(guest)}
           /\ UNCHANGED <<conf, recent, facts, house, alloy, cand, result>>
           /\ \/ UNCHANGED <<run, ghost>>
              \/ /\ run' = [run EXCEPT !.changed = TRUE]
                 /\ \E g \in {ghost, Noted} : ghost' = [g EXCEPT !.fresh = FALSE]
              \/ run' = [run EXCEPT !.err = TRUE] /\ Failed
  <1>1. CASE TaskInstall
    <2>1. Task("packages", "file", ~alloy.bin, Installed(guest), TRUE, Noted)
      BY <1>1 DEF TaskInstall, Noted
    <2> QED
      BY <2>1, TaskDoes
  <1>2. CASE TaskFile
    BY <1>2, TaskDoes DEF TaskFile
  <1>3. CASE TaskGroup
    BY <1>3, TaskDoes DEF TaskGroup
  <1>4. CASE TaskEnable
    BY <1>4, TaskDoes DEF TaskEnable
  <1>5. CASE TaskRestart
    BY <1>5, TaskDoes DEF TaskRestart
  <1> QED
    BY <1>1, <1>2, <1>3, <1>4, <1>5 DEF Tasks

LEMMA TasksTypes == ASSUME Types, Tasks PROVE Types'
  <1> USE DEF Types, WorldTypes, RunTypes, ManagerTypes
  <1>1. UNCHANGED <<conf, recent, facts, house, alloy, cand, result>> /\ guest' \in Guests
    BY TasksDo, EffectTypes, GuestsMade
  <1>2. run' \in Runs
    BY TasksDo DEF Runs
  <1>3. ghost' \in GhostSet
    <2>1. Noted \in GhostSet
      <3>1. (ghost.installed \/ run.kind = "maintain") \in BOOLEAN
        OBVIOUS
      <3> QED
        BY <3>1 DEF Noted, GhostSet
    <2>2. ASSUME NEW g \in GhostSet PROVE [g EXCEPT !.fresh = FALSE] \in GhostSet
      BY DEF GhostSet
    <2> QED
      BY <2>1, <2>2, TasksDo, FailedType
  <1> QED
    BY <1>1, <1>2, <1>3

LEMMA CachingTypes == ASSUME Types, Caching PROVE Types'
  <1> USE DEF Types, WorldTypes, RunTypes, ManagerTypes
  <1>1. CASE CacheClean
    <2>1. guest' \in Guests /\ UNCHANGED <<conf, recent, facts, house, alloy, cand, result>>
      BY <1>1, CommandFails, GuestsMade DEF CacheClean
    <2>2. run' \in Runs
      BY <1>1 DEF CacheClean, Runs
    <2>3. ghost' = [ghost EXCEPT !.cleans = @ + 1] \/ Failed
      BY <1>1, CommandFails DEF CacheClean
    <2>4. CASE ghost' = [ghost EXCEPT !.cleans = @ + 1]
      <3>1. ghost.cleans + 1 \in Nat
        BY DEF GhostSet
      <3>2. ghost' \in GhostSet
        BY <2>4, <3>1 DEF GhostSet
      <3> QED
        BY <2>1, <2>2, <3>2
    <2> QED
      BY <2>1, <2>2, <2>3, <2>4, FailedType
  <1>2. CASE CacheRecord
    <2>1. UNCHANGED <<conf, guest, facts, house, alloy, cand>> /\ recent' \in {recent, TRUE}
          /\ result' \in {result, "none"}
      BY <1>2 DEF CacheRecord, Blocked
    <2>2. run' \in Runs
      BY <1>2 DEF CacheRecord, Blocked, Runs
    <2>3. \/ UNCHANGED ghost
          \/ ghost.faults < MaxFaults /\ ghost' = [ghost EXCEPT !.faults = @ + 1, !.lost = @ + 1]
      BY <1>2 DEF CacheRecord
    <2>4. CASE ghost.faults < MaxFaults /\ ghost' = [ghost EXCEPT !.faults = @ + 1, !.lost = @ + 1]
      <3>1. ghost.faults + 1 \in 0..MaxFaults /\ ghost.lost + 1 \in Nat
        BY <2>4, PipelineAssumption DEF GhostSet
      <3> QED
        BY <2>1, <2>2, <2>4, <3>1 DEF GhostSet
    <2> QED
      BY <2>1, <2>2, <2>3, <2>4
  <1> QED
    BY <1>1, <1>2 DEF Caching

LEMMA TypesKept == Types /\ [Next]_vars => Types'
  <1> SUFFICES ASSUME Types, [Next]_vars PROVE Types'
    OBVIOUS
  <1>1. CASE UNCHANGED vars
    BY <1>1 DEF vars, Types, WorldTypes, RunTypes, ManagerTypes
  <1> QED
    BY <1>1, Steps, ProbingTypes, ConfiguringTypes, TasksTypes, CachingTypes, BetweenTypes

LEMMA TypesInit == Init => Types
  <1> SUFFICES ASSUME Init PROVE Types
    OBVIOUS
  <1>1. WorldTypes
    BY DEF Init, Starts, WorldTypes
  <1>2. RunTypes
    BY PipelineAssumption DEF Init, RunTypes, Runs, Idle, GhostSet, NoGhost
  <1>3. ManagerTypes
    BY DEF Init, ManagerTypes, NoFacts, NoHouse, NoAlloy, FactsSet, AlloySet, Configs, Verdicts
  <1> QED
    BY <1>1, <1>2, <1>3 DEF Types

\* Guest, store, run and everything that is probed keep their types in every behaviour.
THEOREM TypeCorrect == Spec => []TypeOK
  <1>1. Types => TypeOK
    BY DEF Types, WorldTypes, RunTypes, ManagerTypes, FactsSet, AlloySet, GhostSet, TypeOK
  <1> QED
    BY <1>1, TypesInit, TypesKept, PTL DEF Spec

(***************************************************************************)
(* What most steps of a run leave alone.                                   *)
(***************************************************************************)
\* A change of the guest that the manager made is counted by its run.
Counted == ghost.fresh \/ run.changed

Quiet ==
    /\ UNCHANGED recent /\ run'.dry = run.dry
    /\ ghost'.retained = ghost.retained /\ ghost'.cleans = ghost.cleans /\ ghost'.lost = ghost.lost
    /\ Counted => Counted'

LEMMA FailedQuiet ==
    ASSUME Types, Failed
    PROVE  /\ ghost'.retained = ghost.retained /\ ghost'.cleans = ghost.cleans
           /\ ghost'.lost = ghost.lost /\ ghost'.fresh = ghost.fresh
           /\ ghost'.still = ghost.still /\ ghost'.seen = ghost.seen
  BY DEF Types, RunTypes, GhostSet, Failed

LEMMA ConfiguringQuiet ==
    ASSUME Types, Configuring
    PROVE  /\ Quiet /\ result' \in {result, "none"}
           /\ pc \in {"install", "acl", "envWrite", "envReload", "envRestart"}
           /\ pc' \in {"reprobe", "verifyAcl", "envReload", "envRestart", "envVerify", "end"}
  <1> USE DEF Types, RunTypes, Runs, GhostSet, Quiet, Counted
  <1>1. ASSUME NEW at \in {"install", "envWrite", "envReload", "envRestart"},
               NEW next \in {"reprobe", "envReload", "envRestart", "envVerify"},
               NEW effect, NEW works, Configure(at, next, effect, works)
        PROVE  Quiet /\ result' \in {result, "none"} /\ pc = at /\ pc' \in {next, "end"}
    BY <1>1, ConfigureDoes, FailedQuiet, ZenonT(60)
  <1>2. CASE Acl
    BY <1>2, AclDoes, FailedQuiet
  <1> QED
    BY <1>1, <1>2 DEF Configuring, Install, EnvWrite, EnvReload, EnvRestart

LEMMA TasksQuiet == ASSUME Types, Tasks PROVE Quiet
  <1> USE DEF Types, RunTypes, Runs, GhostSet, Quiet, Counted
  <1>1. CASE UNCHANGED <<run, ghost>>
    BY <1>1, TasksDo
  <1>2. ASSUME NEW g \in {ghost, Noted}, ghost' = [g EXCEPT !.fresh = FALSE],
               run' = [run EXCEPT !.changed = TRUE]
        PROVE  Quiet
    BY <1>2, TasksDo DEF Noted
  <1>3. CASE run' = [run EXCEPT !.err = TRUE] /\ Failed
    BY <1>3, TasksDo, FailedQuiet
  <1> QED
    BY <1>1, <1>2, <1>3, TasksDo

\* The steps of a run after preparation.
Late == Refresh \/ Import \/ Retain \/ Mark \/ End

LEMMA ProbingQuiet == ASSUME Types, Probing, ~ Late PROVE Quiet
  <1> USE ProbingStays DEF Types, RunTypes, Runs, GhostSet, Quiet, Counted
  <1>1. ASSUME UNCHANGED run \/ run' = [run EXCEPT !.failed = TRUE],
               \/ UNCHANGED ghost \/ ghost' = [ghost EXCEPT !.still = TRUE]
               \/ ghost' = [ghost EXCEPT !.seen = TRUE]
        PROVE  Quiet
    BY <1>1
  <1>2. CASE ProbeHouse \/ CacheLook \/ CacheFresh \/ Prepare \/ Audit \/ ReadState
    BY <1>1, <1>2 DEF ProbeHouse, CacheLook, CacheFresh, Prepare, Audit, ReadState, BlockedQuietly, Blocked
  <1>3. CASE Reprobe \/ Measure \/ Validate \/ Access \/ VerifyAcl \/ Env \/ EnvVerify
    BY <1>1, <1>3 DEF Reprobe, Measure, Validate, Access, VerifyAcl, Env, EnvVerify, BlockedQuietly, Blocked
  <1>4. CASE Before \/ Final \/ Verify
    BY <1>1, <1>4 DEF Before, Final, Verify, BlockedQuietly, Blocked
  <1>5. CASE NeedLoki
    BY <1>5 DEF NeedLoki
  <1> QED
    BY <1>2, <1>3, <1>4, <1>5 DEF Probing, Late

\* Where the steps before preparation's end lead.
LEMMA ProbingGoes ==
    ASSUME Probing, ~ Late
    PROVE  /\ pc' \notin {"import", "retain", "mark", "over", "record"}
           /\ pc' = "refresh" => Prepare \/ Audit \/ Verify
           /\ pc' = "verify" => Before \/ Final
           /\ pc' = "fresh" => CacheLook
           /\ pc' = "clean" => CacheFresh
           /\ pc \notin {"idle", "refresh", "import", "retain", "mark", "end", "over"}
  <1> USE DEF Goto, BlockedQuietly, Blocked, AfterPrepare
  <1>1. CASE ProbeHouse \/ CacheLook \/ CacheFresh \/ NeedLoki
    BY <1>1 DEF ProbeHouse, CacheLook, CacheFresh, NeedLoki
  <1>2. CASE Prepare \/ Audit \/ ReadState
    BY <1>2 DEF Prepare, Audit, ReadState
  <1>3. CASE Reprobe \/ Measure \/ Validate \/ Access
    BY <1>3 DEF Reprobe, Measure, Validate, Access
  <1>4. CASE VerifyAcl \/ Env \/ EnvVerify
    BY <1>4 DEF VerifyAcl, Env, EnvVerify
  <1>5. CASE Before \/ Final \/ Verify
    BY <1>5 DEF Before, Final, Verify
  <1> QED
    BY <1>1, <1>2, <1>3, <1>4, <1>5 DEF Probing, Late

(***************************************************************************)
(* Retention on fresh facts.                                               *)
(***************************************************************************)
\* The guest is as probed or the run knows that it changed it; import and retention come
\* after a fresh probe, and retention after an import that is not pending.
FreshInv ==
    /\ Counted
    /\ pc \in {"import", "retain"} => ghost.fresh
    /\ pc = "retain" => ~ run.pending \/ run.dry
    /\ ghost.retained \in {"no", "yes"}

LEMMA FreshKept == Types /\ FreshInv /\ [Next]_vars => FreshInv'
  <1> SUFFICES ASSUME Types, FreshInv, [Next]_vars PROVE FreshInv'
    OBVIOUS
  <1> USE DEF Types, RunTypes, Runs, GhostSet
  <1>1. ASSUME Quiet, pc' \notin {"import", "retain"} PROVE FreshInv'
    BY <1>1 DEF Quiet, FreshInv
  <1>2. CASE Probing /\ ~ Late
    BY <1>1, <1>2, ProbingQuiet, ProbingGoes
  <1>3. CASE Configuring
    BY <1>1, <1>3, ConfiguringQuiet
  <1>4. CASE Tasks
    BY <1>1, <1>4, TasksQuiet, TasksDo
  <1>5. CASE Caching
    <2>1. /\ pc' \notin {"import", "retain"} /\ run'.changed = run.changed
          /\ ghost'.fresh = ghost.fresh /\ ghost'.retained = ghost.retained
      BY <1>5, CommandFails, FailedQuiet DEF Caching, CacheClean, CacheRecord, Blocked, Goto
    <2> QED
      BY <2>1 DEF FreshInv, Counted
  <1>6. CASE Refresh
    BY <1>6 DEF Refresh, Goto, FreshInv, Counted
  <1>7. CASE Import
    <2>1. /\ pc = "import" /\ UNCHANGED ghost
          /\ \E out \in {"skipped", "done", "pending", "failed"} :
               /\ pc' = IF out \in {"skipped", "done"} \/ run.dry THEN "retain" ELSE "mark"
               /\ run' = [run EXCEPT !.pending = out = "pending", !.failed = @ \/ out = "failed"]
      BY <1>7 DEF Import
    <2> QED
      BY <2>1 DEF FreshInv, Counted
  <1>8. CASE Retain
    <2>1. /\ pc = "retain" /\ pc' = "mark" /\ run'.changed = run.changed
          /\ ghost' = [ghost EXCEPT !.retained =
                IF run.dry THEN @ ELSE IF ~ghost.fresh THEN "stale"
                ELSE IF run.pending THEN "unimported" ELSE "yes"]
      BY <1>8 DEF Retain, Goto
    <2> QED
      BY <2>1 DEF FreshInv, Counted
  <1>9. CASE Mark \/ End
    BY <1>9 DEF Mark, End, Goto, FreshInv, Counted
  <1>10. CASE GuestChange \/ WindowPasses
    BY <1>10 DEF GuestChange, WindowPasses, FreshInv, Counted
  <1>11. CASE Begin
    BY <1>11 DEF Begin, FreshInv, Counted
  <1>12. CASE Dies
    BY <1>12 DEF Dies, FreshInv, Counted
  <1>13. CASE UNCHANGED vars
    BY <1>13 DEF vars, FreshInv, Counted
  <1> QED
    BY <1>2, <1>3, <1>4, <1>5, <1>6, <1>7, <1>8, <1>9, <1>10, <1>11, <1>12, <1>13, Steps
    DEF Late, Between, Done

\* Retention plans from a probe that is no older than the last change of configuration, and
\* after an import that is not pending, whatever ended, failed or died before
\* (run_housekeeping, can_retain).
THEOREM AlwaysRetentionOnFreshFacts == Spec => []RetentionOnFreshFacts
  <1>1. Init => FreshInv
    BY DEF Init, FreshInv, Counted, NoGhost
  <1>2. FreshInv => RetentionOnFreshFacts
    BY DEF FreshInv, RetentionOnFreshFacts
  <1> QED
    BY <1>1, <1>2, TypesInit, TypesKept, FreshKept, PTL DEF Spec

(***************************************************************************)
(* The cadence of cache cleaning.                                          *)
(***************************************************************************)
\* A run cleans only outside the cadence window.  One cleaning beyond those whose note was
\* lost is noted, or is about to be.
CacheInv ==
    /\ pc \in {"fresh", "clean", "record"} => ~ recent
    /\ ghost.cleans <= ghost.lost + 1
    /\ recent \/ pc = "record" \/ ghost.cleans <= ghost.lost

LEMMA CacheKept == Types /\ CacheInv /\ [Next]_vars => CacheInv'
  <1> SUFFICES ASSUME Types, CacheInv, [Next]_vars PROVE CacheInv'
    OBVIOUS
  <1>0. /\ ghost.cleans \in Nat /\ ghost.lost \in Nat
        /\ ghost'.cleans \in Nat /\ ghost'.lost \in Nat
    BY TypesKept DEF Types, RunTypes, GhostSet
  <1>1. ASSUME UNCHANGED recent, ghost'.cleans = ghost.cleans, ghost'.lost = ghost.lost,
               pc # "record", pc' \notin {"fresh", "clean", "record"}
        PROVE  CacheInv'
    BY <1>1 DEF CacheInv
  <1>2. CASE Probing /\ ~ Late
    <2>1. UNCHANGED recent /\ ghost'.cleans = ghost.cleans /\ ghost'.lost = ghost.lost
      BY <1>2, ProbingQuiet DEF Quiet
    <2>2. pc # "record"
      <3> USE DEF Goto, BlockedQuietly, Blocked
      <3>1. CASE ProbeHouse \/ CacheLook \/ CacheFresh \/ NeedLoki \/ Prepare \/ Audit \/ ReadState
        BY <3>1 DEF ProbeHouse, CacheLook, CacheFresh, NeedLoki, Prepare, Audit, ReadState
      <3>2. CASE Reprobe \/ Measure \/ Validate \/ Access \/ VerifyAcl \/ Env \/ EnvVerify
        BY <3>2 DEF Reprobe, Measure, Validate, Access, VerifyAcl, Env, EnvVerify
      <3>3. CASE Before \/ Final \/ Verify
        BY <3>3 DEF Before, Final, Verify
      <3> QED
        BY <1>2, <3>1, <3>2, <3>3 DEF Probing, Late
    <2>3. CASE CacheLook
      <3>1. pc' = "fresh" => ~ recent
        BY <2>3 DEF CacheLook, Goto
      <3>2. pc' \in {"fresh", "loki"}
        BY <2>3 DEF CacheLook, Goto
      <3> QED
        BY <2>1, <2>2, <3>1, <3>2 DEF CacheInv
    <2>4. CASE CacheFresh
      <3>1. pc = "fresh" /\ pc' \in {"clean", "loki"}
        BY <2>4 DEF CacheFresh, Goto
      <3> QED
        BY <2>1, <3>1 DEF CacheInv
    <2>5. CASE ~ CacheLook /\ ~ CacheFresh
      BY <1>1, <1>2, <2>1, <2>2, <2>5, ProbingGoes
    <2> QED
      BY <2>3, <2>4, <2>5
  <1>3. CASE Configuring
    BY <1>1, <1>3, ConfiguringQuiet DEF Quiet
  <1>4. CASE Tasks
    BY <1>1, <1>4, TasksQuiet, TasksDo DEF Quiet
  <1>5. CASE CacheClean
    <2>1. pc = "clean" /\ UNCHANGED recent
      BY <1>5 DEF CacheClean, Goto
    <2>2. \/ pc' = "record" /\ ghost' = [ghost EXCEPT !.cleans = @ + 1]
          \/ pc' = "loki" /\ Failed
      BY <1>5, CommandFails DEF CacheClean, Goto
    <2>3. ghost.cleans <= ghost.lost /\ ~ recent
      BY <2>1 DEF CacheInv
    <2>4. CASE pc' = "record" /\ ghost' = [ghost EXCEPT !.cleans = @ + 1]
      <3>1. ghost'.cleans = ghost.cleans + 1 /\ ghost'.lost = ghost.lost
        BY <2>4 DEF Types, RunTypes, GhostSet
      <3>2. ghost'.cleans <= ghost'.lost + 1
        BY <1>0, <2>3, <3>1
      <3> QED
        BY <2>1, <2>3, <2>4, <3>2 DEF CacheInv
    <2>5. CASE pc' = "loki" /\ Failed
      BY <2>1, <2>3, <2>5, FailedQuiet DEF CacheInv
    <2> QED
      BY <2>2, <2>4, <2>5
  <1>6. CASE CacheRecord
    <2>1. CASE pc' = "loki" /\ recent' = TRUE /\ UNCHANGED ghost
      BY <2>1 DEF CacheInv
    <2>2. CASE pc' = "end" /\ UNCHANGED recent /\ ghost' = [ghost EXCEPT !.faults = @ + 1, !.lost = @ + 1]
      <3>1. ghost'.cleans = ghost.cleans /\ ghost'.lost = ghost.lost + 1
        BY <2>2 DEF Types, RunTypes, GhostSet
      <3>2. ghost'.cleans <= ghost'.lost /\ ghost'.cleans <= ghost'.lost + 1
        BY <1>0, <3>1 DEF CacheInv
      <3> QED
        BY <2>2, <3>2 DEF CacheInv
    <2> QED
      BY <1>6, <2>1, <2>2 DEF CacheRecord, Blocked, Goto
  <1>7. CASE Late
    <2>1. /\ UNCHANGED recent /\ ghost'.cleans = ghost.cleans /\ ghost'.lost = ghost.lost
      BY <1>7 DEF Late, Refresh, Import, Retain, Mark, End, Look, Types, RunTypes, GhostSet
    <2>2. pc # "record" /\ pc' \notin {"fresh", "clean", "record"}
      BY <1>7 DEF Late, Refresh, Import, Retain, Mark, End, Goto
    <2> QED
      BY <1>1, <2>1, <2>2
  <1>8. CASE GuestChange
    BY <1>8 DEF GuestChange, CacheInv, Types, RunTypes, GhostSet
  <1>9. CASE Begin
    <2>1. pc \in {"idle", "over"} /\ pc' \in {"probe", "prepare"}
      BY <1>9 DEF Begin
    <2> QED
      BY <1>1, <1>9, <2>1 DEF Begin, Types, RunTypes, GhostSet
  <1>10. CASE Dies
    <2>1. /\ pc' = "idle" /\ UNCHANGED recent /\ ghost'.cleans = ghost.cleans
          /\ ghost'.lost = ghost.lost + (IF pc = "record" THEN 1 ELSE 0)
      BY <1>10 DEF Dies, Types, RunTypes, GhostSet
    <2>2. CASE pc = "record"
      <3>1. ghost'.cleans <= ghost'.lost /\ ghost'.cleans <= ghost'.lost + 1
        BY <1>0, <2>1, <2>2 DEF CacheInv
      <3> QED
        BY <2>1, <3>1 DEF CacheInv
    <2>3. CASE pc # "record"
      <3>1. ghost'.lost = ghost.lost
        BY <1>0, <2>1, <2>3
      <3> QED
        BY <2>1, <2>3, <3>1 DEF CacheInv
    <2> QED
      BY <2>2, <2>3
  <1>11. CASE WindowPasses
    <2>1. pc' = pc /\ pc \in {"idle", "over"} /\ ghost'.cleans = 0 /\ ghost'.lost = 0
      BY <1>11 DEF WindowPasses, Types, RunTypes, GhostSet
    <2>2. ghost'.cleans <= ghost'.lost /\ ghost'.cleans <= ghost'.lost + 1
      BY <1>0, <2>1
    <2> QED
      BY <2>1, <2>2 DEF CacheInv
  <1>12. CASE UNCHANGED vars
    BY <1>12 DEF vars, CacheInv
  <1> QED
    BY <1>2, <1>3, <1>4, <1>5, <1>6, <1>7, <1>8, <1>9, <1>10, <1>11, <1>12, Steps
    DEF Caching, Between, Done, Late, Probing

\* A cache is cleaned twice within a window only when the note of the first cleaning was
\* lost with the manager or its store (clean_guest_caches).
THEOREM AlwaysCacheCadence == Spec => []CacheCadence
  <1>1. Init => CacheInv
    BY DEF Init, CacheInv, NoGhost
  <1>2. Types /\ CacheInv => CacheCadence
    BY DEF CacheInv, CacheCadence, Types, RunTypes, GhostSet
  <1> QED
    BY <1>1, <1>2, TypesInit, TypesKept, CacheKept, PTL DEF Spec

(***************************************************************************)
(* A dry run touches nothing.                                              *)
(***************************************************************************)
\* Where a dry run comes to; an audit is of dry runs only.
DryInv ==
    /\ run.dry => pc \in {"idle", "probe", "cache", "loki", "prepare", "audit", "refresh", "import",
                          "retain", "mark", "end", "over"}
    /\ pc = "audit" => run.dry

LEMMA DryKept == Types /\ DryInv /\ [Next]_vars => DryInv'
  <1> SUFFICES ASSUME Types, DryInv, [Next]_vars PROVE DryInv'
    OBVIOUS
  <1> USE DEF Types, RunTypes, Runs
  <1>1. ASSUME run'.dry = run.dry, pc' # "audit",
               pc' \in {"idle", "probe", "cache", "loki", "prepare", "refresh", "import", "retain", "mark",
                        "end", "over"} \/ ~ run.dry
        PROVE  DryInv'
    BY <1>1 DEF DryInv
  <1> USE DEF Goto, BlockedQuietly, Blocked
  <1>2. CASE ProbeHouse \/ CacheLook \/ NeedLoki
    BY <1>1, <1>2 DEF ProbeHouse, CacheLook, NeedLoki
  <1>3. CASE Prepare
    BY <1>3 DEF Prepare, AfterPrepare, DryInv
  <1>4. CASE Audit
    BY <1>1, <1>4 DEF Audit, AfterPrepare
  <1>5. CASE CacheFresh \/ ReadState \/ Reprobe \/ Measure \/ Validate \/ Access
    <2>1. ~ run.dry
      BY <1>5 DEF CacheFresh, ReadState, Reprobe, Measure, Validate, Access, DryInv
    <2>2. run'.dry = run.dry /\ pc' # "audit"
      BY <1>5 DEF CacheFresh, ReadState, Reprobe, Measure, Validate, Access
    <2> QED
      BY <1>1, <2>1, <2>2
  <1>6. CASE VerifyAcl \/ Env \/ EnvVerify \/ Before \/ Final \/ Verify
    <2>1. ~ run.dry
      BY <1>6 DEF VerifyAcl, Env, EnvVerify, Before, Final, Verify, DryInv
    <2>2. run'.dry = run.dry /\ pc' # "audit"
      BY <1>6 DEF VerifyAcl, Env, EnvVerify, Before, Final, Verify, AfterPrepare
    <2> QED
      BY <1>1, <2>1, <2>2
  <1>7. CASE Configuring
    BY <1>1, <1>7, ConfiguringQuiet DEF Quiet, DryInv
  <1>8. CASE Tasks
    BY <1>1, <1>8, TasksQuiet, TasksDo DEF Quiet, DryInv
  <1>9. CASE Caching
    BY <1>1, <1>9 DEF Caching, CacheClean, CacheRecord, DryInv
  <1>10. CASE Late
    <2>1. run'.dry = run.dry
      BY <1>10 DEF Late, Refresh, Import, Retain, Mark, End
    <2>2. pc' \in {"import", "retain", "mark", "end", "over"}
      BY <1>10 DEF Late, Refresh, Import, Retain, Mark, End
    <2> QED
      BY <1>1, <2>1, <2>2
  <1>11. CASE GuestChange \/ WindowPasses
    BY <1>11 DEF GuestChange, WindowPasses, DryInv
  <1>12. CASE Begin
    <2>1. pc' \in {"probe", "prepare"}
      BY <1>12 DEF Begin
    <2> QED
      BY <2>1 DEF DryInv
  <1>13. CASE Dies
    BY <1>13 DEF Dies, DryInv
  <1>14. CASE UNCHANGED vars
    BY <1>14 DEF vars, DryInv
  <1> QED
    BY <1>2, <1>3, <1>4, <1>5, <1>6, <1>7, <1>8, <1>9, <1>10, <1>11, <1>12, <1>13, <1>14, Steps
    DEF Between, Done, Late, Probing

\* A dry run changes neither guest nor store, whatever it finds and wherever it ends (the
\* dry_run branches of run_housekeeping, clean_guest_caches and prepare_lxc_logging).
THEOREM AlwaysDryRunTouchesNothing == Spec => DryRunTouchesNothing
  <1>1. Init => DryInv
    BY DEF Init, DryInv, Idle
  <1>2. Types /\ DryInv /\ [Next]_vars => [run.dry /\ Managed => UNCHANGED <<guest, recent>>]_vars
    <2> SUFFICES ASSUME Types, DryInv, Next, run.dry, Managed PROVE UNCHANGED <<guest, recent>>
      BY DEF vars
    <2>1. CASE Probing
      BY <2>1, ProbingStays
    <2>2. ~ Configuring
      BY ConfiguringQuiet DEF DryInv
    <2>3. ~ Tasks
      BY TasksDo DEF DryInv
    <2>4. ~ Caching
      BY DEF Caching, CacheClean, CacheRecord, Blocked, Goto, DryInv
    <2>5. CASE Between
      BY <2>5 DEF Between, GuestChange, Begin, Dies, WindowPasses, Done, vars, Managed
    <2> QED
      BY <2>1, <2>2, <2>3, <2>4, <2>5, Steps
  <1> QED
    BY <1>1, <1>2, TypesInit, TypesKept, DryKept, PTL DEF Spec, DryRunTouchesNothing

(***************************************************************************)
(* What is called effective is so.                                         *)
(***************************************************************************)
\* What the last looks at service and sources saw, unless the guest has changed since.
AsSeen ==
    result # "none" /\ ~ run.dry /\ guest.up =>
      /\ ghost.still => ~ Drift(Alloy, result)
      /\ ghost.seen  => (conf.envUses => guest.env # "off")
                        /\ (result = "logs" => Verdict = "active")

\* There is no result before the end of preparation, which comes from a look without drift.
VerifiedInv ==
    /\ pc \notin {"refresh", "import", "retain", "mark", "end", "over"} => result = "none"
    /\ pc = "verify" /\ ghost.still => ~ Drift(Alloy, cand)
    /\ AsSeen

LEMMA VerifiedKept == Types /\ DryInv /\ VerifiedInv /\ [Next]_vars => VerifiedInv'
  <1> SUFFICES ASSUME Types, DryInv, VerifiedInv, [Next]_vars PROVE VerifiedInv'
    OBVIOUS
  \* Without a result, and not on the way to verification.
  <1>1. ASSUME result' = "none", pc' # "verify" PROVE VerifiedInv'
    BY <1>1 DEF VerifiedInv, AsSeen
  \* After preparation nothing is touched.
  <1>2. ASSUME UNCHANGED <<conf, guest, result>>, run'.dry = run.dry,
               ghost'.still = ghost.still, ghost'.seen = ghost.seen,
               pc' \in {"refresh", "import", "retain", "mark", "end", "over"}
        PROVE  VerifiedInv'
    BY <1>2 DEF VerifiedInv, AsSeen, Drift, Alloy, Verdict
  <1>3. CASE Probing /\ ~ Late
    <2>1. result = "none" /\ UNCHANGED <<conf, guest, recent>> /\ run'.dry = run.dry
      BY <1>3, ProbingGoes, ProbingStays, ProbingQuiet DEF VerifiedInv, Quiet
    <2> USE DEF Goto, BlockedQuietly, Blocked
    <2>2. CASE ProbeHouse \/ CacheLook \/ CacheFresh \/ NeedLoki
      BY <1>1, <2>1, <2>2 DEF ProbeHouse, CacheLook, CacheFresh, NeedLoki
    <2>3. CASE Prepare
      <3>1. CASE result' = "none" /\ pc' # "verify"
        BY <1>1, <3>1
      <3>2. CASE pc' = AfterPrepare /\ ~ guest.up
        BY <2>1, <3>2 DEF AfterPrepare, VerifiedInv, AsSeen
      <3> QED
        BY <2>1, <2>3, <3>1, <3>2 DEF Prepare
    <2>4. CASE Audit
      <3>1. run.dry /\ pc' \in {"refresh", "end"}
        BY <2>4 DEF Audit, AfterPrepare, DryInv
      <3> QED
        BY <2>1, <3>1 DEF VerifiedInv, AsSeen
    <2>5. CASE ReadState \/ Reprobe \/ Measure \/ Validate \/ Access \/ VerifyAcl \/ Env \/ EnvVerify
      BY <1>1, <2>1, <2>5 DEF ReadState, Reprobe, Measure, Validate, Access, VerifyAcl, Env, EnvVerify
    <2>6. CASE Before
      <3>1. CASE result' = "none" /\ pc' = "verify" /\ ~ Drift(Alloy, cand')
        <4>1. ~ Drift(Alloy, cand)'
          BY <2>1, <3>1 DEF Drift, Alloy
        <4> QED
          BY <3>1, <4>1 DEF VerifiedInv, AsSeen
      <3> QED
        BY <1>1, <2>1, <2>6, <3>1 DEF Before
    <2>7. CASE Final
      <3>1. CASE result' = "none" /\ pc' = "verify" /\ ~ Drift(Alloy, cand) /\ UNCHANGED cand
        <4>1. ~ Drift(Alloy, cand)'
          BY <2>1, <3>1 DEF Drift, Alloy
        <4> QED
          BY <3>1, <4>1 DEF VerifiedInv, AsSeen
      <3> QED
        BY <1>1, <2>1, <2>7, <3>1 DEF Final
    <2>8. CASE Verify
      <3>1. CASE BlockedQuietly("verify")
        BY <1>1, <3>1
      <3>2. CASE ~ BlockedQuietly("verify")
        <4>1. /\ pc = "verify" /\ pc' \in {"refresh", "end"} /\ result' = cand
              /\ cand = "logs" => Verdict = "active"
              /\ conf.envUses => guest.env # "off"
              /\ ghost' = [ghost EXCEPT !.seen = TRUE]
          BY <2>8, <3>2 DEF Verify, AfterPrepare
        <4>2. ghost'.still = ghost.still
          BY <4>1 DEF Types, RunTypes, GhostSet
        <4>3. ghost.still => ~ Drift(Alloy, cand)
          BY <4>1 DEF VerifiedInv
        <4>4. ghost'.still => ~ Drift(Alloy, result)'
          BY <2>1, <4>1, <4>2, <4>3 DEF Drift, Alloy
        <4>5. Verdict' = Verdict
          BY <2>1 DEF Verdict
        <4> QED
          BY <2>1, <4>1, <4>4, <4>5 DEF VerifiedInv, AsSeen
      <3> QED
        BY <3>1, <3>2
    <2> QED
      BY <1>3, <2>2, <2>3, <2>4, <2>5, <2>6, <2>7, <2>8 DEF Probing, Late
  <1>4. CASE Configuring
    BY <1>1, <1>4, ConfiguringQuiet DEF VerifiedInv
  <1>5. CASE Tasks
    BY <1>1, <1>5, TasksDo DEF VerifiedInv
  <1>6. CASE Caching
    BY <1>1, <1>6 DEF Caching, CacheClean, CacheRecord, Blocked, Goto, VerifiedInv
  <1>7. CASE Late
    <2>1. UNCHANGED <<conf, guest, result>>
      BY <1>7 DEF Late, Refresh, Import, Retain, Mark, End, Look
    <2>2. run'.dry = run.dry
      BY <1>7 DEF Late, Refresh, Import, Retain, Mark, End, Types, RunTypes, Runs
    <2>3. ghost'.still = ghost.still /\ ghost'.seen = ghost.seen
      BY <1>7 DEF Late, Refresh, Import, Retain, Mark, End, Types, RunTypes, GhostSet
    <2>4. pc' \in {"import", "retain", "mark", "end", "over"}
      BY <1>7 DEF Late, Refresh, Import, Retain, Mark, End, Goto
    <2> QED
      BY <1>2, <2>1, <2>2, <2>3, <2>4
  <1>8. CASE GuestChange
    <2>1. ~ ghost'.still /\ ~ ghost'.seen /\ UNCHANGED <<pc, result>>
      BY <1>8 DEF GuestChange, Types, RunTypes, GhostSet
    <2> QED
      BY <2>1 DEF VerifiedInv, AsSeen
  <1>9. CASE Begin \/ Dies
    BY <1>1, <1>9 DEF Begin, Dies
  <1>10. CASE WindowPasses
    <2>1. /\ UNCHANGED <<conf, guest, run, pc, alloy, cand, result>>
          /\ ghost'.still = ghost.still /\ ghost'.seen = ghost.seen
      BY <1>10 DEF WindowPasses, Types, RunTypes, GhostSet
    <2> QED
      BY <2>1 DEF VerifiedInv, AsSeen, Drift, Alloy, Verdict
  <1>11. CASE UNCHANGED vars
    BY <1>11 DEF vars, VerifiedInv, AsSeen, Drift, Alloy, Verdict
  <1> QED
    BY <1>3, <1>4, <1>5, <1>6, <1>7, <1>8, <1>9, <1>10, <1>11, Steps DEF Caching, Between, Done

\* A run that ends with an effective configuration leaves it on the guest as it was last
\* seen: no drift, the drop-in in place, deployed sources readable (prepare_lxc_logging,
\* reconcile_alloy).
THEOREM AlwaysEffectiveVerified == Spec => []EffectiveVerified
  <1>1. Init => DryInv /\ VerifiedInv
    BY DEF Init, DryInv, Idle, VerifiedInv, AsSeen
  <1>2. VerifiedInv => EffectiveVerified
    BY DEF VerifiedInv, AsSeen, EffectiveVerified
  <1> QED
    BY <1>1, <1>2, TypesInit, TypesKept, DryKept, VerifiedKept, PTL DEF Spec

=============================================================================
