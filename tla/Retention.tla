----------------------------- MODULE Retention -----------------------------
(***************************************************************************)
(* Local retention of one guest's archived log files: the manager plans    *)
(* deletions from acknowledged coverage and records an intent per file;    *)
(* the node helper quarantines, re-checks and unlinks (or restores) each   *)
(* file while the guest keeps writing, rotating and removing its logs.     *)
(* Manager, helper and guest interleave; either program may die anywhere.  *)
(*                                                                         *)
(* Paths are one rotation family (access.log.1, access.log.2, ...): path p *)
(* rotates to p + 1.  A file's identity on the wire is (path, inode, stat) *)
(* where stat stands for size and mtime; body stands for its content and   *)
(* its SHA-256.  A source row is kept only once it is acknowledged.        *)
(*                                                                         *)
(* An operator named Name_Variant before Name is a plausible wrong form of *)
(* Name; nothing uses it, and the properties below are known to reject it. *)
(***************************************************************************)
EXTENDS Integers, FiniteSets

CONSTANTS NPaths,      \* paths of the rotation family
          NInodes,     \* inodes of the log filesystem, reused once free
          NSources,    \* source rows the checkpoint can hold
          MaxVersion,  \* bound on the distinct file versions ever written
          BatchSize    \* files per helper call (128 in the code)

ASSUME RetentionAssumption ==
    /\ NPaths \in Nat \ {0} /\ NInodes \in Nat \ {0} /\ NSources \in Nat \ {0}
    /\ MaxVersion \in Nat /\ BatchSize \in Nat \ {0}

VARIABLES
    \* the guest's log filesystem
    orig,      \* orig[p]: inode linked at path p, or NoFile
    quar,      \* quar[p]: inode linked at the quarantine path of p
    data,      \* data[i]: stat and body of inode i
    writer,    \* writer[i]: some process holds a writable descriptor on i
    clock,     \* versions written so far
    archived,  \* bodies Loki has acknowledged
    \* the checkpoint store (durable)
    row,       \* row[s]: acknowledged, complete source record, or NoRow
    intent,    \* intent[<<p, i>>]: the prune intent of that id
    \* the manager's run (volatile)
    mpc, covered, todo, batch, unrecorded, reply, failed,
    \* the node helper's call (volatile)
    hpc, hcur, hwait, outcome,
    \* observations
    erased,    \* bodies the helper has unlinked
    clobbered  \* bodies a restoring rename has replaced

fs      == <<orig, quar, data, writer, clock>>
store   == <<row, intent>>
manager == <<mpc, covered, todo, batch, unrecorded, reply, failed>>
helper  == <<hpc, hcur, hwait, outcome>>
seen    == <<erased, clobbered>>
vars    == <<orig, quar, data, writer, clock, archived, row, intent,
             mpc, covered, todo, batch, unrecorded, reply, failed,
             hpc, hcur, hwait, outcome, erased, clobbered>>

Paths   == 1 .. NPaths
Inodes  == 1 .. NInodes
Sources == 1 .. NSources
Ids     == Paths \X Inodes
NoFile  == 0
NoRow   == [path |-> 0, ino |-> 0, stat |-> 0, body |-> 0]

Version == [stat : Nat, body : Nat]
Row     == [path : Nat, ino : Nat, stat : Nat, body : Nat]
States  == {"none", "pending", "done", "restored", "conflict", "absent"}
Intent  == [state : States, stat : Nat, body : Nat, src : Nat, missing : BOOLEAN]
Spec1   == [path : Paths, ino : Inodes, stat : Nat, body : Nat, src : Nat,
            recovery : BOOLEAN]
NoSpec   == [path |-> 1, ino |-> 1, stat |-> 0, body |-> 0, src |-> 0,
             recovery |-> FALSE]
NoCall   == [spec |-> NoSpec, blocked |-> FALSE]
Verdicts == {"done", "restored", "conflict", "absent", "blocked", "pending"}
Outcome == [spec : Spec1, state : Verdicts, missing : BOOLEAN]

IdOf(s)   == <<s.path, s.ino>>
Linked(i) == (\E p \in Paths : orig[p] = i) \/ (\E p \in Paths : quar[p] = i)

\* Type invariant: what the manager, the helper and the store hold of a file is
\* always a whole specification, outcome or intent.
TypeOK ==
    /\ orig \in [Paths -> Inodes \cup {NoFile}]
    /\ quar \in [Paths -> Inodes \cup {NoFile}]
    /\ data \in [Inodes -> Version]
    /\ writer \in [Inodes -> BOOLEAN]
    /\ clock \in Nat
    /\ archived \subseteq Nat
    /\ row \in [Sources -> Row]
    /\ intent \in [Ids -> Intent]
    /\ mpc \in {"idle", "import", "recover", "plan", "record", "call", "wait", "resolve"}
    /\ covered \subseteq Spec1
    /\ todo \subseteq Ids
    /\ batch \subseteq Spec1
    /\ unrecorded \subseteq Spec1
    /\ reply \subseteq Outcome
    /\ failed \in BOOLEAN
    /\ hpc \in {"idle", "pick", "rename", "scan", "hash", "unlink",
                "restore", "restoring", "leftscan", "lefthash", "leftunlink"}
    /\ hcur \in [spec : Spec1, blocked : BOOLEAN]
    /\ hwait \subseteq Spec1
    /\ outcome \subseteq Outcome
    /\ erased \subseteq Nat
    /\ clobbered \subseteq Nat

Init ==
    /\ orig = [p \in Paths |-> NoFile]
    /\ quar = [p \in Paths |-> NoFile]
    /\ data = [i \in Inodes |-> [stat |-> 0, body |-> 0]]
    /\ writer = [i \in Inodes |-> FALSE]
    /\ clock = 0
    /\ archived = {}
    /\ row = [s \in Sources |-> NoRow]
    /\ intent = [d \in Ids |-> [state |-> "none", stat |-> 0, body |-> 0,
                                src |-> 0, missing |-> FALSE]]
    /\ mpc = "idle" /\ covered = {} /\ todo = {} /\ batch = {}
    /\ unrecorded = {} /\ reply = {} /\ failed = FALSE
    /\ hpc = "idle" /\ hcur = NoCall
    /\ hwait = {} /\ outcome = {}
    /\ erased = {} /\ clobbered = {}

-----------------------------------------------------------------------------
(***************************************************************************)
(* The guest: programs that own the logs, and native rotation.             *)
(***************************************************************************)
GuestOnly == UNCHANGED <<archived, row, intent, mpc, covered, todo, batch,
                         unrecorded, reply, failed, hpc, hcur, hwait, outcome,
                         erased, clobbered>>

\* A program creates a log at a free path; a freed inode may be reused.
Create(p, i) ==
    /\ orig[p] = NoFile /\ ~ Linked(i) /\ ~ writer[i] /\ clock < MaxVersion
    /\ orig' = [orig EXCEPT ![p] = i]
    /\ clock' = clock + 1
    /\ data' = [data EXCEPT ![i] = [stat |-> clock + 1, body |-> clock + 1]]
    /\ \E open \in BOOLEAN : writer' = [writer EXCEPT ![i] = open]
    /\ UNCHANGED quar /\ GuestOnly

\* The quarantine tree is private to root: only a file at a log path opens.
OpenWriter(i) ==
    /\ ~ writer[i] /\ \E p \in Paths : orig[p] = i
    /\ writer' = [writer EXCEPT ![i] = TRUE]
    /\ UNCHANGED <<orig, quar, data, clock>> /\ GuestOnly

CloseWriter(i) ==
    /\ writer[i]
    /\ writer' = [writer EXCEPT ![i] = FALSE]
    /\ UNCHANGED <<orig, quar, data, clock>> /\ GuestOnly

\* A write through an open descriptor; a rewrite of equal size inside one
\* timestamp tick, or one that restores the mtime, keeps the stat.
WriteLog(i) ==
    /\ writer[i] /\ Linked(i) /\ clock < MaxVersion
    /\ clock' = clock + 1
    /\ \E stat \in {clock + 1, data[i].stat} :
         data' = [data EXCEPT ![i] = [stat |-> stat, body |-> clock + 1]]
    /\ UNCHANGED <<orig, quar, writer>> /\ GuestOnly

Rotate(p) ==
    /\ p < NPaths /\ orig[p] # NoFile /\ orig[p + 1] = NoFile
    /\ orig' = [orig EXCEPT ![p] = NoFile, ![p + 1] = orig[p]]
    /\ UNCHANGED <<quar, data, writer, clock>> /\ GuestOnly

RemoveLog(p) ==
    /\ orig[p] # NoFile
    /\ orig' = [orig EXCEPT ![p] = NoFile]
    /\ UNCHANGED <<quar, data, writer, clock>> /\ GuestOnly

Guest ==
    \/ \E p \in Paths, i \in Inodes : Create(p, i)
    \/ \E i \in Inodes : OpenWriter(i) \/ CloseWriter(i) \/ WriteLog(i)
    \/ \E p \in Paths : Rotate(p) \/ RemoveLog(p)

-----------------------------------------------------------------------------
(***************************************************************************)
(* The manager's run.                                                      *)
(***************************************************************************)
\* A helper call of a run that died may still be under way.
StartRun ==
    /\ mpc = "idle"
    /\ mpc' = "import"
    /\ covered' = {} /\ todo' = {} /\ batch' = {} /\ unrecorded' = {}
    /\ reply' = {} /\ failed' = FALSE
    /\ UNCHANGED <<orig, quar, data, writer, clock, archived, row, intent,
                   hpc, hcur, hwait, outcome, erased, clobbered>>

\* The rows that describe path p's current inode (at most one): the newest with
\* this very path, or else the newest generation of that inode.
Newest(S) == {s \in S : \A t \in S : t <= s}

MatchRow(p, i) ==
    LET own  == {s \in Sources : row[s].ino = i}
        here == {s \in own : row[s].path = p}
    IN  IF here # {} THEN Newest(here) ELSE Newest(own)

\* Import of one closed file, up to its coverage for deletion.  An unchanged
\* stat keeps the acknowledged digest without reading the file again; an
\* append extends the row; a rewrite or a new inode starts another row.
ImportFile(p) ==
    LET i   == orig[p]
        now == [path |-> p, ino |-> i, stat |-> data[i].stat, body |-> data[i].body]
        Keep(s, r) ==
            /\ row' = [row EXCEPT ![s] = r]
            /\ covered' = covered \cup
                 {[path |-> p, ino |-> i, stat |-> r.stat, body |-> r.body,
                   src |-> s, recovery |-> FALSE]}
    IN  /\ mpc = "import"
        /\ orig[p] # NoFile /\ ~ writer[i]
        /\ \A c \in covered : c.path # p
        /\ \/ \E m \in MatchRow(p, i) :
                /\ row[m].stat = now.stat
                /\ Keep(m, [now EXCEPT !.body = row[m].body])
                /\ UNCHANGED archived
           \/ \E m \in MatchRow(p, i) :
                /\ row[m].stat # now.stat
                /\ Keep(m, now)
                /\ archived' = archived \cup {now.body}
           \/ /\ \A m \in MatchRow(p, i) : row[m].stat # now.stat
              /\ \E s \in Sources :
                   /\ row[s] = NoRow
                   /\ \A t \in Sources : t < s => row[t] # NoRow
                   /\ Keep(s, now)
              /\ archived' = archived \cup {now.body}
        /\ UNCHANGED <<orig, quar, data, writer, clock, intent, mpc, todo, batch,
                       unrecorded, reply, failed, hpc, hcur, hwait, outcome,
                       erased, clobbered>>

\* Intents a run re-observes: pending ones, and conflicts recorded because
\* the file was missing.
OpenIntents == {d \in Ids : \/ intent[d].state = "pending"
                            \/ intent[d].state = "conflict" /\ intent[d].missing}

\* The open intents are loaded once.  Files held back (an archive profile that
\* is not selected, or a file newer than the cutoff) are neither recovered nor
\* planned in this run.
EndImport ==
    /\ mpc = "import"
    /\ \E held \in SUBSET Ids :
         /\ todo' = OpenIntents \ held
         /\ covered' = {c \in covered : IdOf(c) \notin held}
    /\ mpc' = "recover"
    /\ UNCHANGED <<orig, quar, data, writer, clock, archived, row, intent, batch,
                   unrecorded, reply, failed, hpc, hcur, hwait, outcome,
                   erased, clobbered>>

\* _recovery_spec: the intent's own source row still proves exactly the
\* recorded identity.
Provable(d) ==
    LET n == intent[d] IN
    /\ n.src \in Sources
    /\ row[n.src].ino = d[2] /\ row[n.src].stat = n.stat /\ row[n.src].body = n.body

RecoverySpec_Unflagged(d) ==
    [path |-> d[1], ino |-> d[2], stat |-> intent[d].stat, body |-> intent[d].body,
     src |-> intent[d].src]

RecoverySpec(d) ==
    [path |-> d[1], ino |-> d[2], stat |-> intent[d].stat, body |-> intent[d].body,
     src |-> intent[d].src, recovery |-> TRUE]

\* One bounded batch of recovery.  A pending intent that cannot be proved leaves
\* the run nothing but EndRun; a missing-file conflict that cannot is skipped.
RecoverChunk ==
    /\ mpc = "recover"
    /\ \E C \in SUBSET todo :
         /\ C # {} /\ Cardinality(C) <= BatchSize
         /\ \A d \in C : intent[d].state = "pending" => Provable(d)
         /\ todo' = todo \ C
         /\ batch' = {RecoverySpec(d) : d \in {c \in C : Provable(c)}}
         /\ mpc' = IF batch' = {} THEN "recover" ELSE "call"
    /\ UNCHANGED <<orig, quar, data, writer, clock, archived, row, intent, covered,
                   unrecorded, reply, failed, hpc, hcur, hwait, outcome,
                   erased, clobbered>>

RecoverDone ==
    /\ mpc = "recover" /\ todo = {}
    /\ mpc' = "plan"
    /\ UNCHANGED <<orig, quar, data, writer, clock, archived, row, intent, covered,
                   todo, batch, unrecorded, reply, failed, hpc, hcur, hwait, outcome,
                   erased, clobbered>>

\* plan_prune_candidates and _authorize_deletion against a fresh probe.
Authorized(c) ==
    /\ orig[c.path] = c.ino /\ data[c.ino].stat = c.stat /\ ~ writer[c.ino]
    /\ row[c.src].ino = c.ino /\ row[c.src].stat = c.stat /\ row[c.src].body = c.body

PlanChunk ==
    /\ mpc = "plan"
    /\ \E C \in SUBSET covered :
         /\ C # {} /\ Cardinality(C) <= BatchSize
         /\ covered' = covered \ C
         /\ batch' = {c \in C : Authorized(c)}
         /\ unrecorded' = batch'
         /\ mpc' = IF batch' = {} THEN "plan" ELSE "record"
    /\ UNCHANGED <<orig, quar, data, writer, clock, archived, row, intent, todo,
                   reply, failed, hpc, hcur, hwait, outcome, erased, clobbered>>

\* record_prune_intent: the id is (path, device, inode); a row that already
\* has this id is returned as it is, whatever its state and version.
RecordIntent_Late(s) ==
    /\ mpc = "record" /\ s \in unrecorded
    /\ unrecorded' = unrecorded \ {s}
    /\ UNCHANGED <<orig, quar, data, writer, clock, archived, row, intent, mpc,
                   covered, todo, batch, reply, failed, hpc, hcur, hwait, outcome,
                   erased, clobbered>>

RecordIntent(s) ==
    /\ mpc = "record" /\ s \in unrecorded
    /\ unrecorded' = unrecorded \ {s}
    /\ intent' = IF intent[IdOf(s)].state # "none" THEN intent
                 ELSE [intent EXCEPT ![IdOf(s)] =
                         [state |-> "pending", stat |-> s.stat, body |-> s.body,
                          src |-> s.src, missing |-> FALSE]]
    /\ UNCHANGED <<orig, quar, data, writer, clock, archived, row, mpc, covered,
                   todo, batch, reply, failed, hpc, hcur, hwait, outcome,
                   erased, clobbered>>

\* executor.housekeeping_prune: one synchronous call carries the batch.
CallPrune ==
    /\ mpc = "call" \/ (mpc = "record" /\ unrecorded = {})
    /\ hpc = "idle"
    /\ mpc' = "wait"
    /\ hpc' = "pick" /\ hwait' = batch /\ outcome' = {}
    /\ UNCHANGED <<orig, quar, data, writer, clock, archived, row, intent, covered,
                   todo, batch, unrecorded, reply, failed, hcur, erased, clobbered>>

\* _resolve_outcomes, one durable resolution per file.  An absence counts only
\* for a recovery spec; blocked and unattempted files keep their intent.
Resolve_AnyAsDone(o) ==
    /\ mpc = "resolve" /\ o \in reply
    /\ reply' = reply \ {o}
    /\ intent' = [intent EXCEPT ![IdOf(o.spec)].state = "done"]
    /\ UNCHANGED <<orig, quar, data, writer, clock, archived, row, mpc, covered,
                   todo, batch, unrecorded, failed, hpc, hcur, hwait, outcome,
                   erased, clobbered>>

Resolve(o) ==
    /\ mpc = "resolve" /\ o \in reply
    /\ reply' = reply \ {o}
    /\ IF \/ o.state \in {"done", "restored", "conflict"}
          \/ o.state = "absent" /\ o.spec.recovery
       THEN /\ intent' = [intent EXCEPT ![IdOf(o.spec)].state = o.state,
                                        ![IdOf(o.spec)].missing = o.missing]
            /\ UNCHANGED failed
       ELSE UNCHANGED intent /\ failed' = TRUE
    /\ UNCHANGED <<orig, quar, data, writer, clock, archived, row, mpc, covered,
                   todo, batch, unrecorded, hpc, hcur, hwait, outcome,
                   erased, clobbered>>

\* Next batch of the phase this one belonged to; a failed one ends the run.
BatchDone ==
    /\ mpc = "resolve" /\ reply = {} /\ ~ failed
    /\ mpc' = IF \E s \in batch : s.recovery THEN "recover" ELSE "plan"
    /\ batch' = {}
    /\ UNCHANGED <<orig, quar, data, writer, clock, archived, row, intent, covered,
                   todo, unrecorded, reply, failed, hpc, hcur, hwait, outcome,
                   erased, clobbered>>

\* The run ends: nothing left, a gate (policy, delivery, Alloy, Loki) closed,
\* a failed probe or transport, or the death of the manager.  A helper call
\* that is under way may still finish on the node.
EndRun ==
    /\ mpc # "idle"
    /\ mpc' = "idle"
    /\ covered' = {} /\ todo' = {} /\ batch' = {} /\ unrecorded' = {}
    /\ reply' = {} /\ failed' = FALSE
    /\ UNCHANGED <<orig, quar, data, writer, clock, archived, row, intent,
                   hpc, hcur, hwait, outcome, erased, clobbered>>

\* purge_tombstones: the row of a file long absent from its log paths, unless
\* an intent that is neither done, restored nor absent belongs to it.
PurgeTombstone_NoGuard(s) ==
    /\ mpc = "idle" /\ row[s] # NoRow
    /\ \A p \in Paths : orig[p] # row[s].ino
    /\ row' = [row EXCEPT ![s] = NoRow]
    /\ UNCHANGED <<orig, quar, data, writer, clock, archived, intent, mpc, covered,
                   todo, batch, unrecorded, reply, failed, hpc, hcur, hwait, outcome,
                   erased, clobbered>>

PurgeTombstone(s) ==
    /\ mpc = "idle" /\ row[s] # NoRow
    /\ \A p \in Paths : orig[p] # row[s].ino
    /\ \A d \in Ids : intent[d].src = s => intent[d].state \notin {"pending", "conflict"}
    /\ row' = [row EXCEPT ![s] = NoRow]
    /\ UNCHANGED <<orig, quar, data, writer, clock, archived, intent, mpc, covered,
                   todo, batch, unrecorded, reply, failed, hpc, hcur, hwait, outcome,
                   erased, clobbered>>

Manager ==
    \/ StartRun \/ EndImport \/ RecoverChunk \/ RecoverDone \/ PlanChunk
    \/ CallPrune \/ BatchDone \/ EndRun
    \/ \E p \in Paths : ImportFile(p)
    \/ \E s \in unrecorded : RecordIntent(s)
    \/ \E o \in reply : Resolve(o)
    \/ \E s \in Sources : PurgeTombstone(s)

-----------------------------------------------------------------------------
(***************************************************************************)
(* The node helper: prune and _prune_one.                                  *)
(***************************************************************************)
HelperOnly == UNCHANGED <<data, writer, clock, archived, row, intent, mpc, covered,
                          todo, batch, unrecorded, reply, failed>>

\* Report the current file; stop leaves all the others unattempted.
ReportAnd(s, state, missing, stop) ==
    LET rest == IF stop THEN hwait \ {s} ELSE {} IN
    /\ outcome' = outcome \cup {[spec |-> s, state |-> state, missing |-> missing]}
                          \cup {[spec |-> r, state |-> "pending", missing |-> FALSE] : r \in rest}
    /\ hwait' = hwait \ ({s} \cup rest)
    /\ hpc' = "pick" /\ hcur' = NoCall

Report(s, state, missing) == ReportAnd(s, state, missing, state = "blocked")

GoTo(step, s, blocked) ==
    /\ hpc' = step /\ hcur' = [spec |-> s, blocked |-> blocked]
    /\ UNCHANGED <<hwait, outcome>>

\* _prune_one up to its decision about file s.
HPick(s) ==
    LET p == s.path
        o == orig[p]
        matches == /\ o = s.ino /\ data[o].stat = s.stat /\ ~ writer[o]
                   /\ data[o].body = s.body
    IN  /\ hpc = "pick" /\ s \in hwait
        /\ \/ Report(s, "blocked", FALSE)
           \/ quar[p] = s.ino /\ GoTo("leftscan", s, FALSE)
           \/ /\ quar[p] # s.ino /\ o = NoFile
              /\ IF s.recovery /\ quar[p] = NoFile THEN Report(s, "absent", FALSE)
                 ELSE Report(s, "conflict", TRUE)
           \/ /\ quar[p] # s.ino /\ o # NoFile
              /\ IF matches /\ quar[p] = NoFile THEN GoTo("rename", s, FALSE)
                 ELSE Report(s, "conflict", FALSE)
        /\ UNCHANGED <<orig, quar>> /\ UNCHANGED seen /\ HelperOnly

\* The rename takes whatever file the path names by now, if any: the path may
\* have been emptied before the digest was read or before the rename.
HRename ==
    LET s == hcur.spec IN
    /\ hpc = "rename"
    /\ IF orig[s.path] = NoFile
       THEN /\ \E missing \in BOOLEAN : Report(s, "conflict", missing)
            /\ UNCHANGED <<orig, quar>>
       ELSE /\ quar' = [quar EXCEPT ![s.path] = orig[s.path]]
            /\ orig' = [orig EXCEPT ![s.path] = NoFile]
            /\ GoTo("scan", s, FALSE)
    /\ UNCHANGED seen /\ HelperOnly

\* _quarantine_recheck: the inode and its writers first, the digest after.
HScan ==
    LET s == hcur.spec IN
    /\ hpc = "scan"
    /\ \/ quar[s.path] = s.ino /\ ~ writer[s.ino] /\ GoTo("hash", s, FALSE)
       \/ (quar[s.path] # s.ino \/ writer[s.ino]) /\ GoTo("restore", s, FALSE)
       \/ GoTo("restore", s, TRUE)
    /\ UNCHANGED <<orig, quar>> /\ UNCHANGED seen /\ HelperOnly

HHash_TrustsScan ==
    /\ hpc = "hash" /\ GoTo("unlink", hcur.spec, FALSE)
    /\ UNCHANGED <<orig, quar>> /\ UNCHANGED seen /\ HelperOnly

HHash ==
    LET s == hcur.spec IN
    /\ hpc = "hash"
    /\ \/ data[s.ino].body = s.body /\ GoTo("unlink", s, FALSE)
       \/ data[s.ino].body # s.body /\ GoTo("restore", s, FALSE)
       \/ GoTo("restore", s, TRUE)
    /\ UNCHANGED <<orig, quar>> /\ UNCHANGED seen /\ HelperOnly

\* _recover_leftover: an earlier call left this very file in quarantine.
HLeftScan ==
    LET s == hcur.spec
        LeftIntact == /\ ~ writer[s.ino] /\ orig[s.path] = NoFile
                      /\ data[s.ino].stat = s.stat
    IN
    /\ hpc = "leftscan"
    /\ \/ LeftIntact /\ GoTo("lefthash", s, FALSE)
       \/ ~ LeftIntact /\ Report(s, "conflict", FALSE)
       \/ Report(s, "blocked", FALSE)
    /\ UNCHANGED <<orig, quar>> /\ UNCHANGED seen /\ HelperOnly

HLeftHash ==
    LET s == hcur.spec IN
    /\ hpc = "lefthash"
    /\ \/ data[s.ino].body = s.body /\ GoTo("leftunlink", s, FALSE)
       \/ data[s.ino].body # s.body /\ Report(s, "conflict", FALSE)
       \/ Report(s, "blocked", FALSE)
    /\ UNCHANGED <<orig, quar>> /\ UNCHANGED seen /\ HelperOnly

\* Unlink, then fsync of the directory: either may fail.  A fresh file whose
\* unlink fails is restored; a leftover stays in quarantine.  A deletion whose
\* reclaimed space cannot be measured is done and stops the call.
HUnlink ==
    LET s == hcur.spec IN
    /\ hpc \in {"unlink", "leftunlink"}
    /\ \/ /\ quar' = [quar EXCEPT ![s.path] = NoFile]
          /\ erased' = erased \cup {data[quar[s.path]].body}
          /\ \/ \E stop \in BOOLEAN : ReportAnd(s, "done", FALSE, stop)
             \/ Report(s, "blocked", FALSE)
          /\ UNCHANGED <<orig, clobbered>>
       \/ /\ IF hpc = "unlink" THEN GoTo("restore", s, TRUE)
             ELSE Report(s, "blocked", FALSE)
          /\ UNCHANGED <<orig, quar>> /\ UNCHANGED seen
    /\ HelperOnly

\* _restore_or_retain: look at the original path, then rename back (the rename
\* may fail: the file then stays in quarantine).
HRestore ==
    LET s == hcur.spec IN
    /\ hpc = "restore"
    /\ IF orig[s.path] = NoFile THEN GoTo("restoring", s, hcur.blocked)
       ELSE Report(s, IF hcur.blocked THEN "blocked" ELSE "conflict", FALSE)
    /\ UNCHANGED <<orig, quar>> /\ UNCHANGED seen /\ HelperOnly

HRestoring ==
    LET s == hcur.spec IN
    /\ hpc = "restoring"
    /\ \/ /\ orig' = [orig EXCEPT ![s.path] = quar[s.path]]
          /\ quar' = [quar EXCEPT ![s.path] = NoFile]
          /\ clobbered' = IF orig[s.path] = NoFile THEN clobbered
                          ELSE clobbered \cup {data[orig[s.path]].body}
          /\ Report(s, IF hcur.blocked THEN "blocked" ELSE "restored", FALSE)
          /\ UNCHANGED erased
       \/ /\ Report(s, IF hcur.blocked THEN "blocked" ELSE "conflict", FALSE)
          /\ UNCHANGED <<orig, quar>> /\ UNCHANGED seen
    /\ HelperOnly

\* The ordered outcomes reach a manager that still waits for them.
HFinish ==
    /\ hpc = "pick" /\ hwait = {}
    /\ hpc' = "idle" /\ outcome' = {}
    /\ IF mpc = "wait" THEN mpc' = "resolve" /\ reply' = outcome
       ELSE UNCHANGED <<mpc, reply>>
    /\ UNCHANGED <<orig, quar, data, writer, clock, archived, row, intent, covered,
                   todo, batch, unrecorded, failed, hcur, hwait, erased, clobbered>>

\* The helper or its transport dies; its outcomes are lost and a manager that
\* waits for them can only end its run.
HDie ==
    /\ hpc # "idle"
    /\ hpc' = "idle" /\ hcur' = NoCall /\ hwait' = {} /\ outcome' = {}
    /\ UNCHANGED <<orig, quar, erased, clobbered>> /\ HelperOnly

Helper ==
    \/ \E s \in hwait : HPick(s)
    \/ HRename \/ HScan \/ HHash \/ HLeftScan \/ HLeftHash \/ HUnlink
    \/ HRestore \/ HRestoring \/ HFinish \/ HDie

Next == Guest \/ Manager \/ Helper

Spec == Init /\ [][Next]_vars

-----------------------------------------------------------------------------
(***************************************************************************)
(* Properties.                                                             *)
(***************************************************************************)
\* The helper never unlinks bytes that Loki has not acknowledged, although
\* the guest may open, write, rotate or recreate the file between the
\* manager's probe, the helper's first look, its rename and its unlink.
NoUnarchivedErase == erased \subseteq archived

\* An intent resolved done or absent tells the truth for as long as it says
\* so: the recorded version of that file is at neither of its two paths.
ResolvedMeansGone ==
    \A d \in Ids : intent[d].state \in {"done", "absent"} =>
        ~ \E at \in {orig[d[1]], quar[d[1]]} :
            at = d[2] /\ data[at] = [stat |-> intent[d].stat, body |-> intent[d].body]

\* A file in quarantine sits at a path for which some intent is on record: no
\* rename precedes every record, whoever dies in between.
QuarantineOnRecord ==
    \A p \in Paths : quar[p] # NoFile => \E i \in Inodes : intent[<<p, i>>].state # "none"

\* A file that an interrupted call left in quarantine can be recovered: as long
\* as its intent is pending and it is still the recorded version, the source row
\* that proves it stays (tombstone purging and later imports spare it).
QuarantineRecoverable ==
    \A d \in Ids :
        /\ intent[d].state = "pending" /\ quar[d[1]] = d[2]
        /\ data[d[2]] = [stat |-> intent[d].stat, body |-> intent[d].body]
        => Provable(d)

\* checkpoint.record_prune_intent: "Persist the recovery intent *before* any
\* quarantine/rename happens."
IntentBeforeQuarantine ==
    [][\A p \in Paths : (quar[p] = NoFile /\ quar'[p] # NoFile)
         => intent[IdOf(hcur.spec)].state = "pending"]_vars

\* _restore_or_retain: an occupied original path keeps its file.
RestoreNeverOverwrites == clobbered = {}
=============================================================================
