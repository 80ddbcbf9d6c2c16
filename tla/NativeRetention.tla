-------------------------- MODULE NativeRetention --------------------------
(***************************************************************************)
(* The native stages of local retention: what apply_guest_retention        *)
(* (housekeeping_retention.py) does before it prunes files.  A run proves  *)
(* that journal and logs are delivered, tightens journald, moves the       *)
(* logrotate stanzas of Nginx Proxy Manager into a policy of its own       *)
(* (housekeeping_native.py), rotates under it, and vacuums the journal.    *)
(*                                                                         *)
(* Every command, probe and query is a step.  Between two of them the      *)
(* guest may change and Loki come and go; a command may fail before or     *)
(* after its effect, which ends the run, as the death of the manager does. *)
(* The timer starts run after run.  Retention has the pruning of files,    *)
(* Pipeline the preparation of Alloy, LogAccess the access to the logs.    *)
(***************************************************************************)
EXTENDS Naturals

CONSTANTS
    Targets,    \* log paths that logrotate stanzas of the application name
    Configs,    \* Alloy configurations that runs may want
    MaxFaults,  \* bound: commands that fail, queries that find nothing
    MaxChanges, \* bound: changes of the guest by itself, of Loki and of what is wanted
    Partial     \* whether the native file may get back some stanzas only

ASSUME NativeAssumption ==
    /\ Configs # {} /\ {"none", "other"} \cap Configs = {}
    /\ MaxFaults \in Nat /\ MaxChanges \in Nat /\ Partial \in BOOLEAN

VARIABLES
    want,    \* the configuration the settings call for
    loki,    \* Loki answers
    guest,
    proof,   \* store: the delivery verification
    run,     \* what the current run knows
    pc,      \* its next step
    faults, changes,
    ghost    \* history the properties speak of

nativeVars == <<want, loki, guest, proof, run, pc, faults, changes, ghost>>

Profiles == {"npm", "pbs"}
Streams  == Profiles \cup {"journal"}

\* native: stanzas in the packaged file; odd: it cannot be parsed safely.
\* managed: stanzas of the manager's policy, {} without one; edited: not as the
\* manager writes it; garbled: nor can it be parsed safely.
\* rotated: a rotated log that the next rotation compresses.
\* writer: the log the proxy writes to; hook: its postrotate script reaches it.
\* tasks: there is a PBS task log inside the live retention window.
\* sick: commands and deliveries may fail in every run (a full disk, a stopped
\* application, a collector that lost its rights), until somebody cures it.
Guests == [alloy : Configs \cup {"other"}, journald : {"desired", "other"},
           loaded : {"desired", "other"}, native : SUBSET Targets, odd : BOOLEAN,
           managed : SUBSET Targets, edited : BOOLEAN, garbled : BOOLEAN, backup : BOOLEAN,
           rotated : BOOLEAN, writer : {"current", "rotated", "unlinked"}, hook : BOOLEAN,
           profiles : SUBSET Profiles, tasks : BOOLEAN, sick : BOOLEAN]

\* The policies a probe reports by their hashes (policy_sha256).
Policies(g) == [journald |-> g.journald,
                npm |-> IF g.managed # {} THEN [of |-> "manager", has |-> g.managed, odd |-> g.edited]
                                          ELSE [of |-> "package", has |-> g.native, odd |-> g.odd]]
Probe == [policies |-> Policies(guest), profiles |-> guest.profiles, tasks |-> guest.tasks]

NoPolicies == [journald |-> "none", npm |-> [of |-> "none", has |-> {}, odd |-> FALSE]]
NoProbe    == [policies |-> NoPolicies, profiles |-> {}, tasks |-> FALSE]
NoProof    == [alloy |-> "none", policies |-> NoPolicies, file |-> FALSE]
NoRun      == [alloy |-> "none", seen |-> NoProbe, native |-> {}, blocks |-> {},
               fresh |-> NoProbe, arrived |-> {}, outcome |-> "none", end |-> "none"]
NoGhost    == [governed |-> {}, proved |-> {}, own |-> FALSE, lost |-> FALSE]

PolicySets == [journald : {"desired", "other", "none"},
               npm : [of : {"manager", "package", "none"}, has : SUBSET Targets, odd : BOOLEAN]]
Probes     == [policies : PolicySets, profiles : SUBSET Profiles, tasks : BOOLEAN]

NativeTypeOK ==
    /\ want \in Configs /\ loki \in BOOLEAN /\ guest \in Guests
    /\ proof \in [alloy : Configs \cup {"none"}, policies : PolicySets, file : BOOLEAN]
    /\ run \in [alloy : Configs \cup {"none"}, seen : Probes, native : SUBSET Targets,
                blocks : SUBSET Targets, fresh : Probes, arrived : SUBSET Streams,
                outcome : {"none", "ok"}, end : {"none", "ok", "failed"}]
    /\ faults \in 0..MaxFaults /\ changes \in 0..MaxChanges
    /\ ghost \in [governed : SUBSET Targets, own : BOOLEAN, lost : BOOLEAN,
                  proved : SUBSET [alloy : Configs \cup {"none"}, stream : Streams, policies : PolicySets]]

NativeInit ==
    /\ want = (CHOOSE c \in Configs : TRUE) /\ loki = TRUE    \* which one tells nothing
    /\ \E p \in SUBSET Profiles, n \in SUBSET Targets, hook \in BOOLEAN :
         guest = [alloy |-> want, journald |-> "other", loaded |-> "other", native |-> n, odd |-> FALSE,
                  managed |-> {}, edited |-> FALSE, garbled |-> FALSE, backup |-> FALSE,
                  rotated |-> FALSE, writer |-> "current", hook |-> hook, profiles |-> p,
                  tasks |-> "pbs" \in p, sick |-> FALSE]
    /\ proof = NoProof /\ run = NoRun /\ pc = "idle" /\ faults = 0 /\ changes = 0
    /\ ghost = [NoGhost EXCEPT !.governed = guest.native]

-----------------------------------------------------------------------------
(* The guest and Loki.                                                     *)

Change == changes < MaxChanges /\ changes' = changes + 1 /\ UNCHANGED <<proof, run, pc, faults>>

\* Another configuration is wanted, or Loki goes or comes back.
WorldChanges ==
    /\ Change /\ UNCHANGED <<guest, ghost>>
    /\ \/ want' \in Configs \ {want} /\ UNCHANGED loki
       \/ loki' = ~loki /\ UNCHANGED want

\* Somebody edits what the manager set up, an application comes or goes, the task
\* logs of PBS get too old or a task runs, the guest falls ill or is cured.
GuestEdits ==
    /\ Change /\ UNCHANGED <<want, loki, ghost>>
    /\ \/ guest' = [guest EXCEPT !.alloy = "other"]
       \/ guest' = [guest EXCEPT !.journald = "other", !.loaded = "other"]
       \/ guest.managed # {} /\ \E g \in BOOLEAN : guest' = [guest EXCEPT !.edited = TRUE, !.garbled = g]
       \/ guest' = [guest EXCEPT !.odd = guest.native # {} /\ ~guest.odd]
       \/ \E p \in SUBSET Profiles : guest' = [guest EXCEPT !.profiles = p, !.tasks = "pbs" \in p]
       \/ "pbs" \in guest.profiles /\ \E t \in BOOLEAN \ {guest.tasks} : guest' = [guest EXCEPT !.tasks = t]
       \/ \E s \in BOOLEAN \ {guest.sick} : guest' = [guest EXCEPT !.sick = s]

\* A package or an operator writes stanzas into the native file: a package all of
\* its stanzas again, an operator maybe one alone.
StanzasAppear ==
    /\ Change /\ UNCHANGED <<want, loki>>
    /\ \E s \in SUBSET Targets \ {{}} :
         /\ Partial \/ ghost.governed \subseteq s
         /\ guest' = [guest EXCEPT !.native = @ \cup s, !.odd = FALSE]
         /\ ghost' = [ghost EXCEPT !.governed = @ \cup s]

\* The operator removes the manager's policy, and wants its logs rotated no more;
\* not in the middle of a cutover, whose last step trusts what it wrote before.
PolicyRemoved ==
    /\ Change /\ pc \notin {"managed", "native"} /\ guest.managed # {} /\ UNCHANGED <<want, loki>>
    /\ guest' = [guest EXCEPT !.managed = {}, !.edited = FALSE, !.garbled = FALSE]
    /\ ghost' = [ghost EXCEPT !.governed = @ \ guest.managed]

\* A rotation: what was rotated before is compressed and removed, the log gets a
\* new name, and its writer goes on in it unless the hook reaches it.
Rotated(g) == [g EXCEPT !.rotated = TRUE,
                        !.writer = IF g.hook THEN "current"
                                   ELSE IF g.writer = "current" THEN "rotated" ELSE "unlinked"]

\* The guest's own daily run, which knows the native file only.
GuestRotates ==
    /\ Change /\ guest.native # {} /\ UNCHANGED <<want, loki>>
    /\ guest' = Rotated(guest) /\ ghost' = [ghost EXCEPT !.own = TRUE]

-----------------------------------------------------------------------------
(* A run.                                                                  *)

Stay == UNCHANGED <<want, loki, changes>>
Go(at, next) == pc = at /\ pc' = next

\* What fails now and then is bounded; in a sick guest anything may fail in any run.
Fault == IF guest.sick THEN UNCHANGED faults ELSE faults < MaxFaults /\ faults' = faults + 1

\* The run ends; the next one starts from the guest and the store.
Over(how) == pc' = "idle" /\ run' = [NoRun EXCEPT !.end = how]
Fails(at) == pc = at /\ Over("failed") /\ UNCHANGED <<guest, proof, ghost, faults>> /\ Stay

Commands == {"journald", "restart", "backup", "managed", "native", "signal1", "signal2", "rotate",
             "vacuum1", "vacuum2"}
Queries  == {"readnative", "readmanaged", "look1", "look2", "check1", "check2", "fresh", "after"}

\* A query is refused or gets no answer, the store cannot be written, the manager dies.
StepFails ==
    /\ pc \in Queries \cup Commands \cup {"persist"} /\ Fault /\ Over("failed")
    /\ UNCHANGED <<guest, proof, ghost>> /\ Stay

\* A command takes effect, and maybe nobody learns of it.
Command(at, next, effect) ==
    /\ pc = at /\ guest' = effect /\ UNCHANGED proof /\ Stay
    /\ \/ pc' = next /\ UNCHANGED <<run, faults>>
       \/ Fault /\ Over("failed")

Eligible(p) == p.profiles \cap Profiles

\* Wrong: a proof of the journal alone serves for applications, too.
Reused_Variant(p) == proof.alloy = run.alloy /\ proof.policies = p.policies

Reused(p) ==
    /\ proof.alloy = run.alloy /\ proof.policies = p.policies
    /\ Eligible(p) # {} => proof.file

\* Preparation has reconciled Alloy and probed.  A proof that matches is reused.
Begin ==
    /\ Go("idle", "ready")
    /\ guest' = [guest EXCEPT !.alloy = want]
    /\ run' = [NoRun EXCEPT !.alloy = want, !.seen = Probe]
    /\ UNCHANGED <<proof, ghost, faults>> /\ Stay

Ready ==
    \/ ~loki /\ Fails("ready")
    \/ /\ loki /\ pc = "ready" /\ pc' = IF Reused(run.seen) THEN "tighten" ELSE "markers"
       /\ UNCHANGED <<guest, proof, run, ghost, faults>> /\ Stay

\* PBS proves its delivery by a task line, too: without a task log inside the window
\* that the probe listed there is none to compare (_confirm_pbs_task_line).
HasTaskLine(p) == "pbs" \in Eligible(p) => p.tasks

\* A marker into the journal and one through each eligible application, then Loki is
\* asked for them.  They arrive if the collector runs what the run wants, and Loki answers.
Markers(at, next, p) ==
    /\ pc = at /\ UNCHANGED <<guest, proof, ghost>> /\ Stay
    /\ \/ /\ loki /\ HasTaskLine(p) /\ UNCHANGED faults /\ pc' = next
          /\ run' = [run EXCEPT !.arrived = {"journal"} \cup Eligible(p), !.outcome = "ok"]
       \/ /\ IF loki /\ HasTaskLine(p) /\ guest.alloy = run.alloy THEN Fault ELSE UNCHANGED faults
          /\ Over("failed")

FirstMarkers  == Markers("markers", "tighten", run.seen)
SecondMarkers == Markers("markers2", "persist", run.fresh)

\* Loki must still be there before anything is tightened.
Tighten ==
    \/ ~loki /\ Fails("tighten")
    \/ /\ loki /\ pc = "tighten"
       /\ pc' = IF run.seen.policies.journald # "desired" THEN "journald"
                ELSE IF "npm" \in Eligible(run.seen) THEN "readnative" ELSE "fresh"
       /\ UNCHANGED <<guest, proof, run, ghost, faults>> /\ Stay

WriteJournald == Command("journald", "restart", [guest EXCEPT !.journald = "desired"]) /\ UNCHANGED ghost

RestartJournald ==
    /\ Command("restart", IF "npm" \in Eligible(run.seen) THEN "readnative" ELSE "fresh",
               [guest EXCEPT !.loaded = guest.journald])
    /\ UNCHANGED ghost

ReadNative ==
    IF guest.odd THEN Fails("readnative")
    ELSE /\ Go("readnative", "readmanaged") /\ run' = [run EXCEPT !.native = guest.native]
         /\ UNCHANGED <<guest, proof, ghost, faults>> /\ Stay

\* Stanzas in the native file are moved; without any the manager's own are kept as
\* they are, or written anew; without either there is nothing to go by.
Blocks == IF run.native # {} THEN run.native ELSE guest.managed

\* A file of the manager's that cannot be parsed is nobody's to guess.
ReadManaged ==
    IF Blocks = {} \/ (run.native = {} /\ guest.garbled) THEN Fails("readmanaged")
    ELSE /\ pc = "readmanaged" /\ run' = [run EXCEPT !.blocks = Blocks]
         /\ pc' = IF run.native # {} THEN "backup"
                  ELSE IF guest.managed # Blocks \/ guest.edited THEN "managed" ELSE "look1"
         /\ UNCHANGED <<guest, proof, ghost, faults>> /\ Stay

\* Wrong: refuses when there is an original already.
Backup_Variant ==
    IF guest.backup THEN Fails("backup")
    ELSE Command("backup", "managed", [guest EXCEPT !.backup = TRUE]) /\ UNCHANGED ghost

\* The first original is kept for good: a later backup changes nothing.
Backup == Command("backup", "managed", [guest EXCEPT !.backup = TRUE]) /\ UNCHANGED ghost

WriteManaged ==
    /\ Command("managed", IF run.native # {} THEN "native" ELSE "look1",
               [guest EXCEPT !.managed = run.blocks, !.edited = FALSE, !.garbled = FALSE])
    /\ UNCHANGED ghost

\* Wrong: does not look at what it replaces.
WriteNative_Variant == Command("native", "look1", [guest EXCEPT !.native = {}]) /\ UNCHANGED ghost

\* The native file loses its stanzas only if it still is the file that was read.
WriteNative ==
    IF guest.native # run.native \/ guest.odd THEN Fails("native")
    ELSE Command("native", "look1", [guest EXCEPT !.native = {}]) /\ UNCHANGED ghost

Lingering == guest.writer = "rotated" /\ guest.rotated

\* Before and after the rotation: does the proxy still write to a rotated log?
Look(at, signal, next) ==
    /\ pc = at /\ pc' = IF Lingering THEN signal ELSE next
    /\ ghost' = [ghost EXCEPT !.own = FALSE]
    /\ UNCHANGED <<guest, proof, run, faults>> /\ Stay

Signal(at, next) ==
    \/ Command(at, next, [guest EXCEPT !.writer = "current"]) /\ UNCHANGED ghost
    \/ Fault /\ Go(at, next) /\ UNCHANGED <<guest, proof, run, ghost>> /\ Stay

\* The signal was accepted; only another look tells whether it did anything.
Check(at, next) ==
    IF Lingering THEN Fails(at)
    ELSE /\ Go(at, next) /\ ghost' = [ghost EXCEPT !.own = FALSE]
         /\ UNCHANGED <<guest, proof, run, faults>> /\ Stay

\* Wrong: looks only after its own rotation.
LookBefore_Variant == Go("look1", "rotate") /\ UNCHANGED <<guest, proof, run, ghost, faults>> /\ Stay

LookBefore == Look("look1", "signal1", "rotate")
LookAfter  == Look("look2", "signal2", "fresh")
Reopen     == Signal("signal1", "check1") \/ Signal("signal2", "check2")
Reopened   == Check("check1", "rotate") \/ Check("check2", "fresh")

\* The manager's policy rotates when its hour or size has come.
RotateManaged ==
    \E due \in BOOLEAN :
      /\ Command("rotate", "look2", IF due THEN Rotated(guest) ELSE guest)
      /\ ghost' = [ghost EXCEPT !.lost = @ \/ (due /\ Lingering /\ ~ghost.own)]

Required(p) ==
    /\ p.policies.journald = "desired"
    /\ run.blocks # {} => p.policies.npm = [of |-> "manager", has |-> run.blocks, odd |-> FALSE]

\* What was commanded is not taken for done: the policies are probed.
Fresh ==
    IF ~Required(Probe) THEN Fails("fresh")
    ELSE /\ pc = "fresh" /\ run' = [run EXCEPT !.fresh = Probe]
         /\ pc' = IF run.outcome = "ok" THEN "persist"
                  ELSE IF Probe.policies # run.seen.policies THEN "markers2" ELSE "match"
         /\ UNCHANGED <<guest, proof, ghost, faults>> /\ Stay

Proved == {[alloy |-> run.alloy, stream |-> s, policies |-> run.fresh.policies] : s \in run.arrived}

Persist ==
    /\ Go("persist", "match")
    /\ proof' = [alloy |-> run.alloy, policies |-> run.fresh.policies,
                 file |-> run.arrived \cap Profiles # {}]
    /\ ghost' = [ghost EXCEPT !.proved = @ \cup Proved]
    /\ UNCHANGED <<guest, run, faults>> /\ Stay

Match ==
    IF ~Reused(run.fresh) THEN Fails("match")
    ELSE /\ Go("match", "authorize1") /\ UNCHANGED <<guest, proof, run, ghost, faults>> /\ Stay

\* Each deletion is authorised anew: policies as probed, proof in the store, the
\* collector as wanted, Loki there.
MayDelete == Required(run.fresh) /\ Reused(run.fresh) /\ guest.alloy = run.alloy /\ loki

Authorize(at, next) ==
    IF ~MayDelete THEN Fails(at)
    ELSE /\ Go(at, next) /\ UNCHANGED <<guest, proof, run, ghost, faults>> /\ Stay

Authorize1 == Authorize("authorize1", "vacuum1")
Authorize2 == Authorize("authorize2", "vacuum2")
Vacuum == (Command("vacuum1", "authorize2", guest) \/ Command("vacuum2", "after", guest))
          /\ UNCHANGED ghost

\* Policies that changed during the vacuum end the run before any file is deleted.
After ==
    IF Policies(guest) # run.fresh.policies THEN Fails("after")
    ELSE /\ Go("after", "prune") /\ run' = [run EXCEPT !.fresh = Probe]
         /\ UNCHANGED <<guest, proof, ghost, faults>> /\ Stay

\* Retention goes on from here.
Prune ==
    IF ~MayDelete THEN Fails("prune")
    ELSE /\ pc = "prune" /\ Over("ok") /\ UNCHANGED <<guest, proof, ghost, faults>> /\ Stay

NativeManager ==
    \/ Begin \/ Ready \/ FirstMarkers \/ Tighten \/ WriteJournald \/ RestartJournald
    \/ ReadNative \/ ReadManaged \/ Backup \/ WriteManaged \/ WriteNative
    \/ LookBefore \/ Reopen \/ Reopened \/ RotateManaged \/ LookAfter
    \/ Fresh \/ SecondMarkers \/ Persist \/ Match
    \/ Authorize1 \/ Authorize2 \/ Vacuum \/ After \/ Prune \/ StepFails

NativeNext == NativeManager \/ WorldChanges \/ GuestEdits \/ StanzasAppear \/ PolicyRemoved \/ GuestRotates

NativeSpec == NativeInit /\ [][NativeNext]_nativeVars

\* The timer starts a run every hour, and every step of a run ends.
NativeFairSpec == NativeSpec /\ WF_nativeVars(NativeManager)

-----------------------------------------------------------------------------
(* Properties.                                                             *)

\* A journal is vacuumed only on a real delivery: under the configuration of this run
\* and by a run that ended with the policies now in force, the marker in the journal
\* reached Loki, and one through an application if the guest has one that counts.
VacuumOnProof ==
    pc \in {"vacuum1", "vacuum2"} =>
        LET now == {r \in ghost.proved : r.alloy = run.alloy /\ r.policies = run.fresh.policies}
        IN  /\ \E r \in now : r.stream = "journal"
            /\ Eligible(run.fresh) # {} => \E r \in now : r.stream \in Profiles

\* No log that had a rotation policy is ever left without one, at any step of the
\* cutover, whatever fails or dies and whatever a package writes in between.
PolicyKept == ghost.governed \subseteq guest.native \cup guest.managed

\* The manager's rotation never compresses a log that the proxy still writes to, also
\* when an earlier run died between rotation and reopening; only a rotation by the
\* guest itself after the last look is out of its hands.
TailKept == ~ghost.lost

\* When Loki answers and the guest is not sick, has policies that can be parsed, and a
\* task log if it is a PBS, then hourly runs come through again and again, whatever
\* earlier runs left half done.  Each of these conditions stops every run while it fails.
Healthy == /\ loki /\ ~guest.sick /\ ~guest.odd
           /\ "pbs" \in guest.profiles => guest.tasks
           /\ "npm" \in guest.profiles =>
                guest.native # {} \/ (guest.managed # {} /\ ~guest.garbled)
Converges == <>[]Healthy => []<>(run.end = "ok")

\* "enabling a legacy archive profile later has to require a real marker" (comment in
\* _emit_and_query_markers): the proof does not say through which application.
ProofCoversProfiles ==
    pc \in {"vacuum1", "vacuum2"} =>
        \A p \in Eligible(run.fresh) : \E r \in ghost.proved : r.stream = p /\ r.alloy = run.alloy

\* "restarts journald only on drift" (README.md): after a restart that was lost the file
\* shows no drift, and journald keeps its former bounds for good.
JournaldLoaded == pc = "prune" => guest.loaded = guest.journald
=============================================================================
