------------------------------ MODULE Pipeline ------------------------------
(***************************************************************************)
(* One maintenance pass over one container: run_housekeeping and           *)
(* prepare_lxc_logging (housekeeping.py), cache cleaning                   *)
(* (housekeeping_cache.py) and the Alloy reconciliation (alloy.py with     *)
(* ansible/primitives/alloy_lxc_reconcile.yml).                            *)
(*                                                                         *)
(* Every command and every probe is a step of its own.  Between two of     *)
(* them the guest may change, a command may fail before or after its       *)
(* effect, and the manager may die; the next run starts from what is left. *)
(* LogAccess decides the verdict on a log source, ArchiveImport and        *)
(* Retention the two stages that appear here by their outcome only.        *)
(***************************************************************************)
EXTENDS Integers, FiniteSets

CONSTANTS MaxOddities, \* bound: how far settings and guest start from a converged pair
          MaxRuns,     \* bound: runs
          MaxFaults,   \* bound: commands that fail and managers that die
          MaxChanges   \* bound: changes of the guest by itself

ASSUME PipelineAssumption == {MaxOddities, MaxRuns, MaxFaults, MaxChanges} \subseteq Nat

VARIABLES
    conf,    \* settings, selection and what the guest's Alloy accepts
    guest,
    recent,  \* store: the cache was cleaned within the cadence window
    run,     \* the current or last run
    pc,      \* its next step
    facts,   \* source, tools and drop-in as preparation last probed them
    house,   \* the probe archive import and retention work from
    alloy,   \* binary, file and service as last probed
    cand,    \* candidate configuration
    result,  \* effective configuration of preparation, "none" without
    ghost    \* history the properties speak of

vars == <<conf, guest, recent, run, pc, facts, house, alloy, cand, result, ghost>>

Configs == {"base", "logs"}

PlainConf == [sel |-> "selected", accepts |-> Configs, loki |-> "ok",
              apt |-> TRUE, paused |-> FALSE, envUses |-> TRUE]

Confs == [sel : {"selected", "empty", "unsupported"}, accepts : {{}, {"base"}, Configs},
          loki : {"ok", "conflict", "none"}, apt : BOOLEAN, paused : BOOLEAN, envUses : BOOLEAN]

\* src: the log source is readable, "closed" to the collector, absent, or not safe
\* to touch.  env: the drop-in is absent, written, known to systemd, in effect.
Guests == [up : BOOLEAN, src : {"open", "closed", "gone", "unsafe"}, alloy : BOOLEAN,
           tools : BOOLEAN, file : Configs \cup {"foreign", "none"},
           loaded : Configs \cup {"foreign", "none"},
           env : {"off", "file", "unit", "live"}, member : BOOLEAN, enabled : BOOLEAN,
           active : BOOLEAN, cache : {"empty", "full"}, busy : BOOLEAN]

PlainGuest == [up |-> TRUE, src |-> "open", alloy |-> TRUE, tools |-> TRUE, file |-> "logs",
               loaded |-> "logs", env |-> "live", member |-> TRUE, enabled |-> TRUE,
               active |-> TRUE, cache |-> "full", busy |-> FALSE]

\* A service that runs has loaded the file; without the package there is neither.
Settled(g) ==
    /\ g.loaded = IF g.active THEN g.file ELSE "none"
    /\ g.env \in {"off", "live"} /\ g.up /\ (g.file # "none") = g.alloy
    /\ ~g.alloy => ~g.member /\ ~g.enabled /\ ~g.active

Oddities(c, g) ==
    LET base == IF g.alloy THEN PlainGuest
                ELSE [PlainGuest EXCEPT !.file = "none", !.member = FALSE, !.enabled = FALSE,
                                        !.active = FALSE]
    IN Cardinality({k \in DOMAIN PlainConf : c[k] # PlainConf[k]})
       + Cardinality({k \in DOMAIN PlainGuest \ {"loaded"} : g[k] # base[k]})

Starts == {s \in Confs \X {g \in Guests : Settled(g)} : Oddities(s[1], s[2]) <= MaxOddities}

Idle    == [kind |-> "maintain", dry |-> FALSE, n |-> 0, changed |-> FALSE, failed |-> FALSE,
            pending |-> FALSE, err |-> FALSE, cleaned |-> FALSE, status |-> "none"]
NoFacts == [v |-> "none", tools |-> FALSE, env |-> FALSE]
NoHouse == [cache |-> FALSE]
NoAlloy == [bin |-> FALSE, file |-> "none", member |-> FALSE, enabled |-> FALSE, active |-> FALSE]
NoGhost == [faults |-> 0, changes |-> 0,
            still |-> FALSE,    \* unchanged by itself since the service was last probed
            seen |-> FALSE,     \* the same since the sources were last probed
            erred |-> FALSE,    \* a command of this run failed
            fresh |-> TRUE,     \* no configuration change since house was probed
            retained |-> "no",  \* whether retention ran, and on what
            cleans |-> 0, lost |-> 0, \* cleanings in this window, those never recorded
            installed |-> FALSE]      \* a maintenance run installed packages

Verdicts == {"none", "active", "acl-needed", "unmeasurable", "inactive", "blocked"}

Runs == [kind : {"maintain", "install"}, dry : BOOLEAN, n : 0..MaxRuns, changed : BOOLEAN,
         failed : BOOLEAN, pending : BOOLEAN, err : BOOLEAN, cleaned : BOOLEAN,
         status : {"none", "Configured", "Cleaned", "Backfill pending", "Blocked", "Audit"}]

TypeOK ==
    /\ conf \in Confs /\ guest \in Guests /\ recent \in BOOLEAN /\ run \in Runs
    /\ facts \in [v : Verdicts, tools : BOOLEAN, env : BOOLEAN] /\ house \in [cache : BOOLEAN]
    /\ alloy \in [bin : BOOLEAN, file : Configs \cup {"foreign", "none"}, member : BOOLEAN,
                  enabled : BOOLEAN, active : BOOLEAN]
    /\ cand \in Configs /\ result \in Configs \cup {"none"}
    /\ ghost \in [faults : 0..MaxFaults, changes : 0..MaxChanges, still : BOOLEAN, seen : BOOLEAN,
                  erred : BOOLEAN, fresh : BOOLEAN, retained : {"no", "yes", "stale", "unimported"},
                  cleans : Nat, lost : Nat, installed : BOOLEAN]

Init ==
    /\ \E s \in Starts : conf = s[1] /\ guest = s[2]
    /\ recent = FALSE /\ run = Idle /\ pc = "idle" /\ facts = NoFacts /\ house = NoHouse
    /\ alloy = NoAlloy /\ cand = "base" /\ result = "none" /\ ghost = NoGhost

-----------------------------------------------------------------------------
(* The guest, and what a probe sees of it.                                 *)

\* A restarted service loads the file, and the drop-in systemd knows of; one whose
\* file is not a configuration stays down.
Restarted(g) ==
    IF g.alloy /\ g.file \in conf.accepts \cup {"foreign"}
    THEN [g EXCEPT !.active = TRUE, !.loaded = g.file, !.env = IF @ = "unit" THEN "live" ELSE @]
    ELSE [g EXCEPT !.active = FALSE, !.loaded = "none"]

Booted(g) ==
    LET h == [g EXCEPT !.up = TRUE, !.env = IF @ = "off" THEN @ ELSE "live",
                       !.active = FALSE, !.loaded = "none"]
    IN IF h.enabled THEN Restarted(h) ELSE h

GuestChange ==
    /\ ghost.changes < MaxChanges
    /\ guest' \in {[guest EXCEPT !.src = s] : s \in {"open", "closed", "gone", "unsafe"}}
              \cup {[guest EXCEPT !.busy = ~@], [guest EXCEPT !.cache = "full"],
                    [guest EXCEPT !.active = FALSE, !.loaded = "none"],
                    [guest EXCEPT !.file = IF guest.alloy THEN "foreign" ELSE @],
                    [guest EXCEPT !.alloy = FALSE, !.active = FALSE, !.loaded = "none",
                                  !.file = "none", !.member = FALSE, !.enabled = FALSE],
                    IF guest.up THEN [guest EXCEPT !.up = FALSE, !.active = FALSE, !.loaded = "none"]
                                ELSE Booted(guest)}
    /\ guest' # guest
    /\ ghost' = [ghost EXCEPT !.changes = @ + 1, !.still = FALSE, !.seen = FALSE]
    /\ UNCHANGED <<conf, recent, run, pc, facts, house, alloy, cand, result>>

\* The verdict of LogAccess for one selected source.
Verdict ==
    IF conf.sel # "selected" THEN "none"
    ELSE IF guest.src = "unsafe" THEN "blocked"
    ELSE IF guest.src = "gone" THEN "inactive"
    ELSE IF ~guest.alloy \/ ~guest.tools THEN "unmeasurable"
    ELSE IF guest.src = "closed" THEN "acl-needed" ELSE "active"

Facts == [v |-> Verdict, tools |-> guest.tools, env |-> guest.env # "off"]
House == [cache |-> guest.cache = "full" /\ ~guest.busy]
Alloy == [bin |-> guest.alloy, file |-> guest.file, member |-> guest.member,
          enabled |-> guest.enabled, active |-> guest.active]

\* The candidate holds a source that only lacks access, the deployed one does not.
Candidate(v) == IF v \in {"active", "acl-needed"} THEN "logs" ELSE "base"
Effective(v) == IF v = "active" THEN "logs" ELSE "base"

-----------------------------------------------------------------------------
(* Steps: a probe, a decision or a command.                                *)

Goto(at, next) == pc = at /\ pc' = next

\* A step of the manager that changes neither guest nor store.
Look == UNCHANGED <<conf, guest, recent>>

\* Preparation ends without an effective configuration.
Blocked(at) ==
    /\ Goto(at, "end") /\ run' = [run EXCEPT !.failed = TRUE] /\ result' = "none"

BlockedQuietly(at) ==
    Blocked(at) /\ Look /\ UNCHANGED <<facts, house, alloy, cand, ghost>>

\* A command: its effect, and whether the manager is told that it worked.  On a
\* stopped guest nothing works.
Command(effect, ok) ==
    \/ ok /\ guest.up /\ guest' = effect /\ ghost' = ghost
    \/ /\ ~ok /\ ghost.faults < MaxFaults /\ guest' \in {guest, IF guest.up THEN effect ELSE guest}
       /\ ghost' = [ghost EXCEPT !.faults = @ + 1, !.erred = TRUE]
    \/ ~ok /\ ~guest.up /\ guest' = guest /\ ghost' = [ghost EXCEPT !.erred = TRUE]

\* The same for a command that changes the configuration of the guest.
Configure(at, next, effect, works) ==
    \/ /\ Goto(at, next) /\ works /\ guest.up /\ guest' = effect
       /\ run' = [run EXCEPT !.changed = TRUE]
       /\ ghost' = [ghost EXCEPT !.fresh = FALSE] /\ UNCHANGED <<conf, recent, result>>
    \/ /\ Blocked(at) /\ ~works /\ guest' = guest
       /\ ghost' = [ghost EXCEPT !.erred = TRUE] /\ UNCHANGED <<conf, recent>>
    \/ /\ Blocked(at) /\ works /\ Command(effect, FALSE) /\ UNCHANGED <<conf, recent>>

Begin ==
    /\ pc \in {"idle", "over"} /\ run.n < MaxRuns
    /\ \E kind \in {"maintain", "install"}, dry \in BOOLEAN :
         /\ run' = [Idle EXCEPT !.kind = kind, !.dry = dry, !.n = run.n + 1]
         /\ pc' = IF kind = "maintain" THEN "probe" ELSE "prepare"
    /\ facts' = NoFacts /\ house' = NoHouse /\ alloy' = NoAlloy /\ cand' = "base" /\ result' = "none"
    /\ ghost' = [ghost EXCEPT !.still = FALSE, !.seen = FALSE, !.erred = FALSE, !.fresh = TRUE, 
                              !.retained = "no"]
    /\ UNCHANGED <<conf, guest, recent>>

\* The manager dies: the run is over and nobody reports it.
Dies ==
    /\ pc \notin {"idle", "over"} /\ ghost.faults < MaxFaults /\ pc' = "idle"
    /\ ghost' = [ghost EXCEPT !.faults = @ + 1, !.erred = FALSE,
                              !.lost = @ + (IF pc = "record" THEN 1 ELSE 0)]
    /\ run' = [run EXCEPT !.status = "none"] /\ result' = "none"
    /\ UNCHANGED <<conf, guest, recent, facts, house, alloy, cand>>

\* The cadence window passes between two runs.
WindowPasses ==
    /\ pc \in {"idle", "over"} /\ recent /\ recent' = FALSE
    /\ ghost' = [ghost EXCEPT !.cleans = 0, !.lost = 0]
    /\ UNCHANGED <<conf, guest, run, pc, facts, house, alloy, cand, result>>

\* The first probe of run_housekeeping.  A stopped guest is left alone.
ProbeHouse ==
    \/ /\ Goto("probe", IF guest.up THEN "cache" ELSE "end") /\ (conf.apt \/ ~guest.up)
       /\ house' = House /\ Look /\ UNCHANGED <<run, facts, alloy, cand, result, ghost>>
    \/ BlockedQuietly("probe")

-----------------------------------------------------------------------------
(* Caches (clean_guest_caches): look, look again, clean, record.           *)

\* Variant: a dry run cleans what is due.
CacheLook_Variant ==
    /\ Goto("cache", IF house.cache /\ ~recent THEN "fresh" ELSE "loki")
    /\ Look /\ UNCHANGED <<run, facts, house, alloy, cand, result, ghost>>

CacheLook ==
    /\ Goto("cache", IF house.cache /\ ~recent /\ ~run.dry THEN "fresh" ELSE "loki")
    /\ Look /\ UNCHANGED <<run, facts, house, alloy, cand, result, ghost>>

CacheFresh ==
    /\ \/ Goto("fresh", IF guest.up /\ House.cache THEN "clean" ELSE "loki")
       \/ Goto("fresh", "loki") \* the re-probe failed: a warning only
    /\ Look /\ UNCHANGED <<run, facts, house, alloy, cand, result, ghost>>

CacheClean ==
    \/ /\ Goto("clean", "record") /\ guest.up /\ guest' = [guest EXCEPT !.cache = "empty"]
       /\ ghost' = [ghost EXCEPT !.cleans = @ + 1]
       /\ UNCHANGED <<conf, recent, run, facts, house, alloy, cand, result>>
    \/ /\ Goto("clean", "loki") /\ run' = [run EXCEPT !.failed = TRUE]
       /\ Command([guest EXCEPT !.cache = "empty"], FALSE)
       /\ UNCHANGED <<conf, recent, facts, house, alloy, cand, result>>

\* Variant: the cadence advances only when bytes were reclaimed.
CacheRecord_Variant ==
    /\ Goto("record", "loki") /\ recent' \in BOOLEAN
    /\ run' = [run EXCEPT !.cleaned = recent']
    /\ UNCHANGED <<conf, guest, facts, house, alloy, cand, result, ghost>>

\* The cadence advances whatever was reclaimed; bytes are measured afterwards.  A
\* store that cannot be written stops the run.
CacheRecord ==
    /\ \/ /\ Goto("record", "loki") /\ recent' = TRUE
          /\ run' \in {run, [run EXCEPT !.cleaned = TRUE]} /\ UNCHANGED <<result, ghost>>
       \/ /\ Blocked("record") /\ ghost.faults < MaxFaults /\ UNCHANGED recent
          /\ ghost' = [ghost EXCEPT !.faults = @ + 1, !.lost = @ + 1]
    /\ UNCHANGED <<conf, guest, facts, house, alloy, cand>>

\* Without a Loki address nothing is prepared.
NeedLoki ==
    /\ Goto("loki", IF conf.loki = "none" THEN "end" ELSE "prepare")
    /\ run' = [run EXCEPT !.failed = @ \/ conf.loki = "none"]
    /\ Look /\ UNCHANGED <<facts, house, alloy, cand, result, ghost>>

-----------------------------------------------------------------------------
(* Preparation (prepare_lxc_logging).                                      *)

\* Where a finished preparation goes.
AfterPrepare == IF run.kind = "maintain" THEN "refresh" ELSE "end"

\* Probe, resolve, render.  A stopped guest with an intentionally empty selection
\* has the base as its effective configuration, unverified.
Prepare ==
    \/ /\ Goto("prepare", AfterPrepare) /\ ~guest.up
       /\ result' = IF conf.sel = "empty" THEN "base" ELSE "none"
       /\ Look /\ UNCHANGED <<run, facts, house, alloy, cand, ghost>>
    \/ /\ Goto("prepare", IF run.dry THEN "audit" ELSE "state")
       /\ guest.up /\ (conf.apt \/ conf.sel # "selected") /\ Verdict # "blocked"
       /\ run.dry \/ ~(conf.loki = "conflict")
       /\ facts' = Facts /\ cand' = Candidate(Verdict)
       /\ Look /\ UNCHANGED <<run, house, alloy, result, ghost>>
    \/ BlockedQuietly("prepare")

\* A dry run reads the Alloy state and reports; the candidate counts as effective.
Audit ==
    /\ Goto("audit", AfterPrepare)
    /\ result' = IF facts.v = "unmeasurable" THEN "none" ELSE cand
    /\ Look /\ UNCHANGED <<run, facts, house, alloy, cand, ghost>>

\* Only the installer kind of run may provide Alloy or the ACL tools.
ReadState ==
    \/ /\ LET lacks == ~guest.alloy \/ (run.kind = "install" /\ conf.sel = "selected" /\ ~facts.tools) IN
          /\ Goto("state", IF lacks THEN "install" ELSE "measure")
          /\ lacks => run.kind = "install"
       /\ guest.up /\ alloy' = Alloy
       /\ Look /\ UNCHANGED <<run, facts, house, cand, result, ghost>>
    \/ BlockedQuietly("state")

\* The packages bring a configuration of their own and start the service.
Installed(g) ==
    IF g.alloy THEN [g EXCEPT !.tools = TRUE]
    ELSE [g EXCEPT !.tools = TRUE, !.alloy = TRUE, !.file = "foreign", !.loaded = "foreign",
                   !.enabled = TRUE, !.active = TRUE]

Install == Configure("install", "reprobe", Installed(guest), TRUE)
           /\ UNCHANGED <<facts, house, alloy, cand>>

Reprobe ==
    \/ /\ Goto("reprobe", "measure") /\ guest.up /\ guest.alloy /\ Verdict # "blocked"
       /\ facts' = Facts /\ alloy' = Alloy /\ cand' = Candidate(Verdict)
       /\ Look /\ UNCHANGED <<run, house, result, ghost>>
    \/ BlockedQuietly("reprobe")

\* A source that cannot be measured blocks; a candidate that is the installed file
\* needs no validation.
Measure ==
    IF facts.v = "unmeasurable" THEN BlockedQuietly("measure")
    ELSE /\ Goto("measure", IF alloy.file = cand THEN "access" ELSE "validate")
         /\ Look /\ UNCHANGED <<run, facts, house, alloy, cand, result, ghost>>

\* Variant: an Alloy that rejects the candidate is not heard.
Validate_Variant ==
    \/ /\ Goto("validate", "access") /\ guest.up /\ guest.alloy
       /\ Look /\ UNCHANGED <<run, facts, house, alloy, cand, result, ghost>>
    \/ BlockedQuietly("validate")

\* The guest's own Alloy accepts the candidate, or nothing is touched.
Validate ==
    \/ /\ Goto("validate", "access") /\ guest.up /\ guest.alloy /\ cand \in conf.accepts
       /\ Look /\ UNCHANGED <<run, facts, house, alloy, cand, result, ghost>>
    \/ BlockedQuietly("validate")

Access ==
    /\ Goto("access", IF facts.v = "acl-needed" THEN "acl" ELSE "env")
    /\ Look /\ UNCHANGED <<run, facts, house, alloy, cand, result, ghost>>

\* The helper grants access (LogAccess); on an unsafe source it refuses.
Acl ==
    LET open == [guest EXCEPT !.src = IF @ = "closed" THEN "open" ELSE @] IN
    /\ \/ /\ Goto("acl", "verifyAcl") /\ guest.up /\ guest.alloy /\ guest.tools
          /\ guest.src # "unsafe" /\ guest' = open
          /\ run' = [run EXCEPT !.changed = @ \/ open # guest]
          /\ ghost' = [ghost EXCEPT !.fresh = @ /\ open = guest] /\ UNCHANGED <<conf, recent, result>>
       \/ /\ Blocked("acl") /\ Command(open, FALSE) /\ UNCHANGED <<conf, recent>>
       \/ /\ Blocked("acl") /\ guest' = guest /\ ~(guest.alloy /\ guest.tools /\ guest.src # "unsafe")
          /\ ghost' = [ghost EXCEPT !.erred = TRUE] /\ UNCHANGED <<conf, recent>>
    /\ UNCHANGED <<facts, house, alloy, cand>>

VerifyAcl ==
    \/ /\ Goto("verifyAcl", "env") /\ guest.up
       /\ Verdict \notin {"blocked", "unmeasurable", "acl-needed"} /\ facts' = Facts
       /\ Look /\ UNCHANGED <<run, house, alloy, cand, result, ghost>>
    \/ BlockedQuietly("verifyAcl")

\* The drop-in: written when it differs, then daemon-reload, restart, probe.
Env ==
    /\ Goto("env", IF conf.envUses /\ ~facts.env THEN "envWrite" ELSE "before")
    /\ Look /\ UNCHANGED <<run, facts, house, alloy, cand, result, ghost>>

EnvWrite ==
    Configure("envWrite", "envReload", [guest EXCEPT !.env = IF @ = "off" THEN "file" ELSE @], TRUE)
    /\ UNCHANGED <<facts, house, alloy, cand>>

EnvReload ==
    Configure("envReload", "envRestart", [guest EXCEPT !.env = IF @ = "file" THEN "unit" ELSE @], TRUE)
    /\ UNCHANGED <<facts, house, alloy, cand>>

EnvRestart ==
    Configure("envRestart", "envVerify", Restarted(guest), Restarted(guest).active)
    /\ UNCHANGED <<facts, house, alloy, cand>>

EnvVerify ==
    \/ /\ Goto("envVerify", "before") /\ guest.up /\ guest.env # "off"
       /\ Look /\ UNCHANGED <<run, facts, house, alloy, cand, result, ghost>>
    \/ BlockedQuietly("envVerify")

-----------------------------------------------------------------------------
(* Reconciliation (reconcile_alloy and its playbook).                      *)

\* From here cand is the configuration to deploy.
Drift(a, c) == ~a.bin \/ a.file # c \/ ~a.member \/ ~a.enabled \/ ~a.active

Before ==
    \/ /\ LET c == Effective(facts.v) IN
          /\ Goto("before", IF Drift(Alloy, c) THEN "packages" ELSE "verify") /\ guest.up
          /\ cand' = c /\ alloy' = Alloy
       /\ ghost' = [ghost EXCEPT !.still = TRUE]
       /\ Look /\ UNCHANGED <<run, facts, house, result>>
    \/ BlockedQuietly("before")

\* A task of the playbook: skipped unless the first probe asked for it; one that
\* fails ends the playbook, and the final probe is still taken.
Task(at, next, wanted, effect, works, g) ==
    /\ \/ ~wanted /\ Goto(at, next) /\ UNCHANGED <<guest, ghost, run>>
       \/ /\ wanted /\ works /\ guest.up /\ Goto(at, next) /\ guest' = effect
          /\ run' = [run EXCEPT !.changed = TRUE] /\ ghost' = [g EXCEPT !.fresh = FALSE]
       \/ /\ wanted /\ works /\ Goto(at, "final") /\ Command(effect, FALSE)
          /\ run' = [run EXCEPT !.err = TRUE]
       \/ /\ wanted /\ ~works /\ Goto(at, "final") /\ guest' = guest
          /\ ghost' = [ghost EXCEPT !.erred = TRUE] /\ run' = [run EXCEPT !.err = TRUE]
    /\ UNCHANGED <<conf, recent, facts, house, alloy, cand, result>>

TaskInstall == Task("packages", "file", ~alloy.bin, Installed(guest), TRUE,
                    [ghost EXCEPT !.installed = @ \/ run.kind = "maintain"])

\* Staged, validated, and only then put in place.
TaskFile == Task("file", "group", ~alloy.bin \/ alloy.file # cand,
                 [guest EXCEPT !.file = cand], guest.alloy /\ cand \in conf.accepts, ghost)

TaskGroup == Task("group", "enable", ~alloy.member, [guest EXCEPT !.member = TRUE], guest.alloy, ghost)

TaskEnable == Task("enable", "restart", TRUE, [guest EXCEPT !.enabled = TRUE], guest.alloy, ghost)

TaskRestart == Task("restart", "final", TRUE, Restarted(guest), Restarted(guest).active, ghost)

\* Variant: a playbook that reports failure is forgiven when no drift is left.
Final_Variant ==
    \/ /\ Goto("final", "verify") /\ guest.up /\ ~Drift(Alloy, cand)
       /\ alloy' = Alloy /\ ghost' = [ghost EXCEPT !.still = TRUE]
       /\ Look /\ UNCHANGED <<run, facts, house, cand, result>>
    \/ BlockedQuietly("final")

\* The final probe: a failed task or remaining drift blocks.
Final ==
    \/ /\ Goto("final", "verify") /\ guest.up /\ ~run.err /\ ~Drift(Alloy, cand)
       /\ alloy' = Alloy /\ ghost' = [ghost EXCEPT !.still = TRUE]
       /\ Look /\ UNCHANGED <<run, facts, house, cand, result>>
    \/ BlockedQuietly("final")

\* Variant: the sources are not looked at again.
Verify_Variant ==
    \/ /\ Goto("verify", AfterPrepare) /\ guest.up /\ result' = cand
       /\ ghost' = [ghost EXCEPT !.seen = TRUE]
       /\ Look /\ UNCHANGED <<run, facts, house, alloy, cand>>
    \/ BlockedQuietly("verify")

\* Sources and drop-in are probed once more; a deployed source must be readable.
Verify ==
    \/ /\ Goto("verify", AfterPrepare) /\ guest.up /\ result' = cand
       /\ cand = "logs" => Verdict = "active"
       /\ conf.envUses => guest.env # "off"
       /\ ghost' = [ghost EXCEPT !.seen = TRUE]
       /\ Look /\ UNCHANGED <<run, facts, house, alloy, cand>>
    \/ BlockedQuietly("verify")

-----------------------------------------------------------------------------
(* The rest of run_housekeeping.                                           *)

\* Variant: the first probe serves the whole run.
Refresh_Variant ==
    /\ Goto("refresh", IF result = "none" THEN "end" ELSE "import")
    /\ Look /\ UNCHANGED <<run, facts, house, alloy, cand, result, ghost>>

\* A changed guest is probed again before its archive is touched.
Refresh ==
    \/ /\ Goto("refresh", IF result = "none" THEN "end" ELSE "import")
       /\ house' = IF run.changed /\ result # "none" THEN House ELSE house
       /\ ghost' = [ghost EXCEPT !.fresh = @ \/ run.changed]
       /\ Look /\ UNCHANGED <<run, facts, alloy, cand, result>>
    \/ /\ run.changed /\ result # "none" /\ Goto("refresh", "end")
       /\ run' = [run EXCEPT !.failed = TRUE]
       /\ Look /\ UNCHANGED <<facts, house, alloy, cand, result, ghost>>

\* Import is skipped while a recognized profile is not fully selected; retention
\* follows a skipped import, a finished one, and in a dry run any.
Import ==
    /\ pc = "import"
    /\ \E out \in IF conf.paused THEN {"skipped"} ELSE {"done", "pending", "failed"} :
         /\ pc' = IF out \in {"skipped", "done"} \/ run.dry THEN "retain" ELSE "mark"
         /\ run' = [run EXCEPT !.pending = out = "pending", !.failed = @ \/ out = "failed"]
    /\ Look /\ UNCHANGED <<facts, house, alloy, cand, result, ghost>>

Retain ==
    /\ Goto("retain", "mark")
    /\ ghost' = [ghost EXCEPT !.retained =
          IF run.dry THEN @ ELSE IF ~ghost.fresh THEN "stale"
          ELSE IF run.pending THEN "unimported" ELSE "yes"]
    /\ \E f \in {run.failed, TRUE}, c \in {run.cleaned, ~run.dry} :
         run' = [run EXCEPT !.failed = f, !.cleaned = c]
    /\ Look /\ UNCHANGED <<facts, house, alloy, cand, result>>

\* Sources no longer present are marked; an exception here or in any stage above
\* stops the run safely.
Mark ==
    /\ Goto("mark", "end") /\ run' \in {run, [run EXCEPT !.failed = TRUE]}
    /\ Look /\ UNCHANGED <<facts, house, alloy, cand, result, ghost>>

Status(findings) ==
    IF run.failed THEN "Blocked"
    ELSE IF run.dry /\ findings THEN "Audit"
    ELSE IF run.pending THEN "Backfill pending"
    ELSE IF run.cleaned THEN "Cleaned"
    ELSE IF run.changed THEN "Configured" ELSE "none"

End ==
    /\ Goto("end", "over")
    /\ \E findings \in BOOLEAN :
         /\ run.pending => findings
         /\ run' = [run EXCEPT !.status = Status(findings)]
    /\ Look /\ UNCHANGED <<facts, house, alloy, cand, result, ghost>>

Done == pc \in {"idle", "over"} /\ run.n = MaxRuns /\ UNCHANGED vars

Next ==
    \/ GuestChange \/ Begin \/ Dies \/ WindowPasses
    \/ ProbeHouse \/ CacheLook \/ CacheFresh \/ CacheClean \/ CacheRecord \/ NeedLoki
    \/ Prepare \/ Audit \/ ReadState \/ Install \/ Reprobe \/ Measure \/ Validate
    \/ Access \/ Acl \/ VerifyAcl \/ Env \/ EnvWrite \/ EnvReload \/ EnvRestart \/ EnvVerify
    \/ Before \/ TaskInstall \/ TaskFile \/ TaskGroup \/ TaskEnable \/ TaskRestart \/ Final \/ Verify
    \/ Refresh \/ Import \/ Retain \/ Mark \/ End \/ Done

Spec == Init /\ [][Next]_vars

-----------------------------------------------------------------------------
(* Properties.                                                             *)

\* A step of the manager inside a run.
Managed == pc \notin {"idle", "over"} /\ pc' # pc

\* A dry run changes neither the guest nor the store, whatever it finds (the dry_run
\* branches of run_housekeeping, clean_guest_caches and prepare_lxc_logging).
DryRunTouchesNothing == [][run.dry /\ Managed => UNCHANGED <<guest, recent>>]_vars

\* Access, environment and live configuration change only after the guest's Alloy
\* accepted the candidate, or found it installed already: what a rejected candidate
\* leaves behind is the guest as it was (README.md:192).
ValidatedFirst ==
    [][Managed /\ <<guest.src, guest.env>> # <<guest'.src, guest'.env>>
         => cand \in conf.accepts \cup {alloy.file}]_vars

\* A run that ends with an effective configuration leaves exactly that one on the
\* guest, the service enabled, running and in the journal group, the drop-in in place
\* and every collected source readable: only a change of the guest after the last
\* look at service or sources excuses less.
EffectiveVerified ==
    pc = "over" /\ result # "none" /\ ~run.dry /\ guest.up =>
      /\ ghost.still => ~Drift(Alloy, result)
      /\ ghost.seen  => (conf.envUses => guest.env # "off")
                        /\ (result = "logs" => Verdict = "active")

\* Retention never plans from a probe older than the run's last configuration change,
\* and never while the import it relies on is unfinished (can_retain).
RetentionOnFreshFacts == ghost.retained \in {"no", "yes"}

\* A command that was reported failed, at any step, ends in the status "Blocked",
\* also when the guest turns out to be as desired.
ErrorsSurface == pc = "over" /\ ghost.erred => run.status = "Blocked"

\* Within one cadence window a cache is cleaned twice only when the manager died, or
\* its store failed, between the command and the note of it.
CacheCadence == ghost.cleans <= 1 + ghost.lost

\* prepare_lxc_logging: "the recurring maintenance path must never run APT"
\* (housekeeping.py).  It does, when Alloy disappears between the state that is
\* checked and the probe of the reconciliation.
MaintenanceNeverInstalls == ~ghost.installed

\* What a run calls effective is what the collector runs.  It is not after a restart
\* that was lost: no later run sees a drift, and none restarts the service.
EffectiveMeansLoaded ==
    pc = "over" /\ result # "none" /\ ~run.dry /\ ghost.still /\ guest.up
      => guest.loaded = result /\ (conf.envUses => guest.env = "live")
=============================================================================
