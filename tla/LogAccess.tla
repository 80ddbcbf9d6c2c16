----------------------------- MODULE LogAccess ------------------------------
(***************************************************************************)
(* Whether the collector may read the log files of one catalogue source:   *)
(* the node helper measures it in the guest (housekeeping_io.py, logging   *)
(* evidence), the manager turns the evidence into one verdict              *)
(* (log_plugins.py, _resolve_source_facts), and where access is all that   *)
(* is missing the helper grants it (logging_acl) and measures again.       *)
(*                                                                         *)
(* The helper looks at the root, walks it, looks at the exact file and     *)
(* measures read access in separate system calls; the guest creates,       *)
(* rotates, removes and relinks files between any two of them.  A source   *)
(* has a log root with one pattern, one exact file, or both.               *)
(***************************************************************************)
EXTENDS Integers, FiniteSets

CONSTANTS Files,       \* names below the root that the pattern matches
          MaxFiles,    \* _MAX_LOGGING_FILES: identities kept per source
          MaxOddities, \* bound: how far a guest starts from a plain readable one
          MaxChanges   \* bound: changes of the guest during the measurement

ASSUME AccessAssumption ==
    /\ IsFiniteSet(Files) /\ Files \cap {"root", "exact"} = {}
    /\ {MaxFiles, MaxOddities, MaxChanges} \subseteq Nat

VARIABLES
    spec,    \* the declared source: root?, exact file?, required?
    guest,   \* file system and programs of the guest
    pc,      \* next system call of the helper, or how it ended
    pass,    \* 1: first measurement, 2: the one after a repair
    ev,      \* evidence gathered so far
    verdict, \* status the manager resolved, "none" before
    held,    \* objects the repair holds a descriptor of: files, "root", "exact"
    outside, \* a grant reached a file outside the declared root
    settled, \* the guest has not changed since the pass began
    changes

vars == <<spec, guest, pc, pass, ev, verdict, held, outside, settled, changes>>

Verdicts == {"active", "quiet", "unmeasurable", "inactive", "acl-needed", "partial", "blocked"}
Probed   == {"ok", "quiet", "denied", "missing_root", "unavailable", "failed", "partial"}

\* A plain guest: every declared object is there and readable by the collector.
\* anc is the worst directory above the root; "closed" lacks x for the collector,
\* "unsafe" is a symbolic link.  acl: access and default ACL of the root itself.
Plain == [root |-> "dir", anc |-> "open", acl |-> "full", files |-> [f \in Files |-> "ok"],
          parent |-> "open", exact |-> "ok",
          alloy |-> TRUE, tools |-> TRUE, meter |-> TRUE, mounts |-> TRUE]

RootKinds   == {"absent", "link", "other", "dir"}
FileKinds   == {"absent", "ok", "denied", "link", "mount"}
ParentKinds == {"absent", "unsafe", "closed", "open"}

Guests == [root : RootKinds, anc : {"open", "closed", "unsafe"}, acl : {"full", "part"},
           files : [Files -> FileKinds], parent : ParentKinds,
           exact : FileKinds \cup {"other"},
           alloy : BOOLEAN, tools : BOOLEAN, meter : BOOLEAN, mounts : BOOLEAN]

\* Number of fields (each file counts) in which g differs from Plain.
Oddities(g) == Cardinality({k \in DOMAIN Plain \ {"files"} : g[k] # Plain[k]})
             + Cardinality({f \in Files : g.files[f] # "ok"})

\* Only what the source declares varies.
Possible(g) ==
    /\ g.parent = "absent" => g.exact = "absent"
    /\ spec.root \/ (<<g.root, g.anc, g.acl>> = <<"dir", "open", "full">> /\ g.files = Plain.files)
    /\ spec.exact \/ <<g.parent, g.exact>> = <<"open", "ok">>

NoEvidence == [alloy |-> FALSE, mounts |-> FALSE, late |-> FALSE, short |-> FALSE, reply |-> "whole",
               root |-> [st |-> "missing_root", kind |-> "absent", anc |-> FALSE],
               match |-> [st |-> "none", n |-> 0, files |-> {}, readable |-> {}],
               parent |-> "unknown",
               exact |-> [st |-> "missing_root", kind |-> "absent"]]

TypeOK ==
    /\ spec \in [root : BOOLEAN, exact : BOOLEAN, required : BOOLEAN]
    /\ guest \in Guests /\ pass \in 1..2 /\ changes \in 0..MaxChanges
    /\ pc \in {"env", "root", "walk", "parent", "exact", "files", "reply", "resolve",
               "repair", "above", "open", "dir", "grant", "single", "finish", "failed", "done"}
    /\ ev.root.st \in Probed /\ ev.exact.st \in Probed
    /\ ev.match.st \in Probed \cup {"none"} /\ ev.match.files \subseteq Files
    /\ ev.match.n \in 0..Cardinality(Files) /\ ev.match.readable \subseteq ev.match.files
    /\ ev.parent \in {"yes", "no", "unknown"} /\ ev.reply \in {"whole", "cut", "bare"}
    /\ verdict \in Verdicts \cup {"none", "contradiction"}
    /\ held \subseteq Files \cup {"root", "exact"} /\ {outside, settled} \subseteq BOOLEAN

Init ==
    /\ spec \in {s \in [root : BOOLEAN, exact : BOOLEAN, required : BOOLEAN] : s.root \/ s.exact}
    /\ guest \in {g \in Guests : Oddities(g) <= MaxOddities /\ Possible(g)}
    /\ pc = "env" /\ pass = 1 /\ ev = NoEvidence /\ verdict = "none"
    /\ held = {} /\ outside = FALSE /\ settled = TRUE /\ changes = 0

-----------------------------------------------------------------------------
(* The guest.                                                              *)

Change(g) ==
    /\ pc \notin {"done", "failed"} /\ changes < MaxChanges /\ changes' = changes + 1
    /\ guest' = g /\ settled' = FALSE
    /\ UNCHANGED <<spec, pc, pass, ev, verdict, outside>>

\* A program creates, rotates away or replaces a log; a descriptor of the old
\* file no longer names what the directory entry shows.
ChangeFile ==
    /\ spec.root /\ guest.root = "dir"
    /\ \E f \in Files, k \in FileKinds :
         /\ k # guest.files[f]
         /\ Change([guest EXCEPT !.files[f] = k])
         /\ held' = held \ {f}

\* The application moves its log directory or is installed anew.
ChangeRoot ==
    /\ spec.root
    /\ \E k \in RootKinds : k # guest.root /\ Change([guest EXCEPT !.root = k])
    /\ held' = held \cap {"exact"}

ChangeExact ==
    /\ spec.exact
    /\ \E p \in ParentKinds, k \in FileKinds \cup {"other"} :
         /\ (p = "absent") => (k = "absent")
         /\ <<p, k>> # <<guest.parent, guest.exact>>
         /\ Change([guest EXCEPT !.parent = p, !.exact = k])
    /\ held' = held \ {"exact"}

-----------------------------------------------------------------------------
(* Measurement.                                                            *)

Reachable(g)  == g.anc = "open" /\ g.acl = "full"
Measurable    == ev.alloy /\ guest.meter

Call(at, next, e) ==
    /\ pc = at /\ pc' = next /\ ev' = e
    /\ UNCHANGED <<spec, guest, pass, verdict, held, outside, settled, changes>>

\* Account and mount table are read once, before any source.  Without the table
\* nothing is measured; a source whose turn comes after the deadline is partial.
ReadEnv ==
    \E late \in BOOLEAN :
      LET e == [NoEvidence EXCEPT !.alloy = guest.alloy, !.mounts = guest.mounts, !.late = late] IN
      Call("env", IF guest.mounts /\ ~late THEN "root" ELSE "reply", e)

RootRecord ==
    [kind |-> guest.root, anc |-> guest.root = "dir" /\ guest.anc = "unsafe",
     st   |-> IF guest.root = "absent" THEN "missing_root"
              ELSE IF guest.root # "dir" \/ guest.anc = "unsafe" THEN "failed"
              ELSE IF ~ev.alloy \/ ~guest.tools \/ ~guest.meter THEN "unavailable"
              ELSE IF Reachable(guest) THEN "ok" ELSE "denied"]

ProbeRoot ==
    Call("root", IF spec.root THEN "walk" ELSE "parent",
         IF spec.root THEN [ev EXCEPT !.root = RootRecord] ELSE ev)

\* Variant: a walk cut short counts as complete.
Walked_Variant(found, short) ==
    IF ev.root.st # "ok" THEN [ev EXCEPT !.match.st = ev.root.st]
    ELSE IF guest.root # "dir" \/ \E f \in Files : guest.files[f] \in {"link", "mount"}
      THEN [ev EXCEPT !.root.st = "failed", !.match.st = "failed"]
    ELSE [ev EXCEPT
            !.match = [st |-> "none", n |-> Cardinality(found), files |-> {}, readable |-> {}],
            !.short = short]

\* A root that is not "ok" passes its status to the pattern.  A link or mount that
\* the pattern could match or enter fails root and pattern; an exhausted budget,
\* or more files than identities, leaves the pattern partial.
Walked(found, short) ==
    IF ev.root.st # "ok" THEN [ev EXCEPT !.match.st = ev.root.st]
    ELSE IF guest.root # "dir" \/ \E f \in Files : guest.files[f] \in {"link", "mount"}
      THEN [ev EXCEPT !.root.st = "failed", !.match.st = "failed"]
    ELSE [ev EXCEPT
            !.match = [st |-> IF short \/ Cardinality(found) > MaxFiles
                                      THEN "partial" ELSE "none",
                               n |-> Cardinality(found), files |-> {}, readable |-> {}],
                    !.short = short]

Kept(found) == {s \in SUBSET found :
                  Cardinality(s) = IF Cardinality(found) > MaxFiles THEN MaxFiles
                                   ELSE Cardinality(found)}

WalkRoot ==
    \E short \in BOOLEAN :
      \E found \in SUBSET {f \in Files : guest.files[f] \in {"ok", "denied"}} :
        /\ short \/ found = {f \in Files : guest.files[f] \in {"ok", "denied"}}
        /\ LET e == Walked(found, short) IN
           \E kept \in Kept(found) :
             Call("walk", "parent", IF e.match.n > 0 THEN [e EXCEPT !.match.files = kept] ELSE e)

ProbeParent ==
    Call("parent", IF spec.exact THEN "exact" ELSE "files",
         IF ~spec.exact THEN ev
         ELSE [ev EXCEPT !.parent = IF ~Measurable THEN "unknown"
                                    ELSE IF guest.parent = "open" THEN "yes" ELSE "no"])

\* An absent file below a parent that could be opened is never a missing root.
AbsentExactStatus == CASE ev.parent = "unknown" -> "unavailable"
                       [] ev.parent = "yes"     -> "quiet"
                       [] ev.parent = "no"      -> "denied"

ExactRecord ==
    [kind |-> guest.exact,
     st   |-> IF guest.parent = "absent"
              THEN IF ev.parent = "no" THEN "missing_root" ELSE "unavailable"
              ELSE IF guest.parent = "unsafe" THEN "failed"
              ELSE IF guest.exact = "absent" THEN AbsentExactStatus
              ELSE IF guest.exact \in {"link", "other", "mount"} THEN "failed"
              ELSE IF ~Measurable \/ ev.parent = "unknown" THEN "unavailable"
              ELSE IF guest.exact = "ok" /\ guest.parent = "open" /\ ev.parent = "yes"
                THEN "ok" ELSE "denied"]

ProbeExact == Call("exact", "files", [ev EXCEPT !.exact = ExactRecord])

\* Read access of the files found; one that is gone by now is not readable.
FileStatus(readable) ==
    IF ev.match.st # "none" THEN ev.match.st
    ELSE IF ev.match.files # {} /\ ~Measurable THEN "unavailable"
    ELSE IF ev.match.n = 0 THEN "quiet" ELSE "ok"

ReadableNow == IF ev.match.st = "none" /\ Measurable /\ guest.root = "dir" /\ Reachable(guest)
               THEN {f \in ev.match.files : guest.files[f] = "ok"} ELSE {}

MeasureFiles ==
    Call("files", "reply",
         IF ~spec.root THEN ev
         ELSE [ev EXCEPT !.match.st = FileStatus(ReadableNow), !.match.readable = ReadableNow])


\* Variant: a file found unreadable does not count in the summary.
Rollup_Variant(e) ==
    LET all == (IF spec.root THEN {e.root.st, e.match.st} ELSE {})
               \cup (IF spec.exact THEN {e.exact.st} ELSE {})
    IN IF "failed" \in all THEN "failed"
       ELSE IF "unavailable" \in all THEN "unavailable"
       ELSE IF "partial" \in all THEN "partial"
       ELSE IF "denied" \in all THEN "denied" ELSE "ok"

\* The helper's own summary of the source.
Rollup(e) ==
    LET roots  == IF spec.root THEN {e.root.st} ELSE {}
        exacts == IF spec.exact THEN {e.exact.st} ELSE {}
        all    == roots \cup exacts \cup (IF spec.root THEN {e.match.st} ELSE {})
        future == spec.exact /\ e.exact.kind = "absent" /\ e.parent = "yes"
    IN IF "failed" \in all THEN "failed"
       ELSE IF "unavailable" \in all THEN "unavailable"
       ELSE IF "partial" \in all THEN "partial"
       ELSE IF "denied" \in all \/ e.match.readable # e.match.files THEN "denied"
       ELSE IF spec.required /\ ("missing_root" \in roots
                                 \/ ("missing_root" \in exacts /\ e.parent # "yes")) THEN "failed"
       ELSE IF "ok" \in roots \/ (spec.exact /\ e.exact.kind # "absent") \/ future THEN "ok"
       ELSE "missing_root"

\* Every record of a source nobody looked at, or that a bounded reply leaves out.
Unseen(st) == [NoEvidence EXCEPT !.root.st = st, !.match.st = st, !.exact.st = st]

\* The reply is bounded: identities go first ("cut"), then all records ("bare").
Reply(kind) ==
    LET e == IF ~ev.mounts THEN Unseen("unavailable")
             ELSE IF ev.late THEN Unseen("partial") ELSE ev
        cut == [e EXCEPT !.match = [st |-> "partial", n |-> 0, files |-> {}, readable |-> {}]]
        out == CASE kind = "whole" -> e
                 [] kind = "cut"   -> cut
                 [] kind = "bare"  -> [cut EXCEPT !.root = [st |-> "partial", kind |-> "absent", anc |-> FALSE],
                                        !.exact = [st |-> "partial", kind |-> "absent"],
                                        !.parent = "unknown"]
    IN [out EXCEPT !.alloy = ev.alloy, !.mounts = ev.mounts, !.late = ev.late,
                   !.short = ev.short, !.reply = kind]

SendReply == \E kind \in {"whole", "cut", "bare"} : Call("reply", "resolve", Reply(kind))

Supplied(e) == IF e.reply = "whole" THEN Rollup(e) ELSE "partial"

-----------------------------------------------------------------------------
(* The manager's verdict on the evidence (_resolve_source_facts).          *)

RootExists(e)  == e.root.kind # "absent"
ExactExists(e) == e.exact.kind # "absent"
RootUnsafe(e)  == RootExists(e) /\ (e.root.kind \in {"link", "other"} \/ e.root.anc)
ExactUnsafe(e) == e.exact.kind \in {"link", "other", "mount"}

\* Root, pattern and exact file each raise some of these flags.
Raised(e) ==
    (IF ~spec.root THEN {} ELSE
       (IF RootUnsafe(e) THEN {"blocked"}
        ELSE CASE e.root.st = "missing_root" -> {IF spec.required THEN "blocked" ELSE "inactive"}
               [] e.root.st = "unavailable"  -> {"unmeasurable"}
               [] e.root.st = "failed"       -> {"blocked"}
               [] e.root.st = "partial"      -> {"partial"}
               [] e.root.st = "denied"       -> {"acl-needed"}
               [] OTHER                      -> {"active"})
       \cup CASE e.match.st = "unavailable"  -> {"unmeasurable"}
              [] e.match.st = "failed"       -> {"blocked"}
              [] e.match.st = "partial"      -> {"partial"}
              [] e.match.st = "denied"       -> {"acl-needed"}
              [] OTHER -> IF e.match.readable # e.match.files THEN {"acl-needed"} ELSE {})
    \cup
    (IF ~spec.exact THEN {}
     ELSE IF ExactUnsafe(e) THEN {"blocked"}
     ELSE CASE e.exact.st = "unavailable" -> {"unmeasurable"}
            [] e.exact.st = "failed"      -> {"blocked"}
            [] e.exact.st = "partial"     -> {"partial"}
            [] e.exact.st = "denied"      -> {"acl-needed"}
            [] OTHER -> {IF ExactExists(e) /\ e.parent = "no" THEN "acl-needed"
                         ELSE IF ExactExists(e) \/ e.parent = "yes" THEN "active"
                         ELSE IF spec.required THEN "blocked" ELSE "inactive"})

Live(e) == Cardinality(e.match.files) + (IF spec.exact /\ ExactExists(e) THEN 1 ELSE 0)

Computed(e) ==
    LET r == Raised(e) IN
    IF "blocked" \in r THEN "blocked"
    ELSE IF "unmeasurable" \in r THEN "unmeasurable"
    ELSE IF "partial" \in r THEN "partial"
    ELSE IF "acl-needed" \in r THEN "acl-needed"
    ELSE IF "active" \in r THEN IF Live(e) = 0 THEN "quiet" ELSE "active"
    ELSE IF "inactive" \in r THEN "inactive" ELSE "blocked"

\* Evidence no honest measurement can contain; the manager refuses all of it.
Contradictory(e) ==
    \/ spec.root /\ ~RootUnsafe(e) /\ (\/ e.root.st = "missing_root" /\ RootExists(e)
                                       \/ e.root.st \in {"ok", "quiet"} /\ ~RootExists(e))
    \/ spec.root /\ (\/ e.match.n < Cardinality(e.match.files)
                     \/ e.match.st \in {"ok", "quiet"} /\ e.match.n # Cardinality(e.match.files)
                     \/ e.match.st = "quiet" /\ e.match.n > 0
                     \/ e.match.st = "missing_root" /\ (RootExists(e) \/ e.match.files # {})
                     \/ e.match.st \in {"ok", "quiet"} /\ ~RootExists(e))
    \/ spec.exact /\ ~ExactUnsafe(e)
                  /\ (\/ e.exact.st = "missing_root" /\ (ExactExists(e) \/ e.parent = "yes")
                      \/ e.exact.st = "quiet" /\ ExactExists(e)
                      \/ e.exact.st = "ok" /\ ~ExactExists(e))
    \/ Supplied(e) = "ok" /\ Computed(e) \notin {"active", "quiet"}

\* Variant: the helper's word replaces the manager's.
Lowered_Variant(own, told) == IF told = "denied" THEN told ELSE own

\* The helper's summary may only lower what the manager computed itself.
Lowered(own, told) ==
    CASE told = "unavailable" /\ own # "blocked" -> "unmeasurable"
      [] told = "failed" -> "blocked"
      [] told = "partial" /\ own \notin {"blocked", "unmeasurable"} -> "partial"
      [] told = "denied" /\ own \notin {"blocked", "unmeasurable", "partial"} -> "acl-needed"
      [] told = "missing_root" /\ own \notin {"blocked", "unmeasurable", "partial"} ->
           (IF spec.required THEN "blocked" ELSE "inactive")
      [] OTHER -> own

Resolved(e) == IF Contradictory(e) THEN "contradiction" ELSE Lowered(Computed(e), Supplied(e))

\* One repair is tried, and only where collector account and ACL tools were seen.
Resolve ==
    /\ pc = "resolve" /\ verdict' = Resolved(ev)
    /\ pc' = IF verdict' = "acl-needed" /\ pass = 1 /\ ev.alloy /\ guest.tools
             THEN "repair" ELSE "done"
    /\ UNCHANGED <<spec, guest, pass, ev, held, outside, settled, changes>>

-----------------------------------------------------------------------------
(* Repair (logging_acl): every grant goes through a descriptor.            *)

Repair(at, next, g, h) ==
    /\ pc = at /\ pc' = next /\ guest' = g /\ held' = h
    /\ UNCHANGED <<spec, pass, ev, verdict, changes>>

Give(at, next, g, h) == Repair(at, next, g, h) /\ UNCHANGED <<outside, settled>>

StartRepair ==
    /\ Repair("repair", IF guest.alloy /\ guest.mounts THEN "above" ELSE "failed", guest, {})
    /\ settled' = TRUE /\ UNCHANGED outside

\* The tools fail or the time budget is used up: grants made so far stay.
RepairFails ==
    \E at \in {"above", "open", "dir", "grant", "single", "finish"} : Give(at, "failed", guest, {})

\* Directories above the targets gain traversal; one that is unsafe ends it all
\* before anything is granted.
UnsafeAbove == (spec.root /\ guest.anc = "unsafe") \/ (spec.exact /\ guest.parent = "unsafe")

GrantAbove ==
    LET g == [guest EXCEPT !.anc = IF spec.root /\ @ = "closed" THEN "open" ELSE @,
                           !.parent = IF spec.exact /\ @ = "closed" THEN "open" ELSE @]
    IN IF UnsafeAbove THEN Give("above", "failed", guest, {})
       ELSE Give("above", IF spec.root THEN "open" ELSE "single", g, {})

\* Regular files of the root's own mount are opened without following links.
OpenRoot ==
    IF guest.root = "absent" THEN Give("open", IF spec.exact THEN "single" ELSE "finish", guest, {})
    ELSE IF guest.root # "dir" \/ guest.anc = "unsafe" THEN Give("open", "failed", guest, {})
    ELSE Give("open", "dir", guest,
              {"root"} \cup {f \in Files : guest.files[f] \in {"ok", "denied"}})

GrantDir == Give("dir", "grant", IF "root" \in held THEN [guest EXCEPT !.acl = "full"] ELSE guest, held)

\* Variant: the grant names the path, not the descriptor.
Reached_Variant(f) == {f}

\* What a grant for the name f reaches by now: the file opened, nothing that
\* took its name since.
Reached(f) == IF f \in held THEN {f} ELSE {}

GrantFiles ==
    LET reached == UNION {Reached(f) : f \in Files} IN
    /\ Repair("grant", IF spec.exact THEN "single" ELSE "finish",
              [guest EXCEPT !.files = [f \in Files |->
                 IF f \in reached /\ @[f] = "denied" THEN "ok" ELSE @[f]]], {})
    /\ outside' = (outside \/ \E f \in reached : guest.files[f] \in {"link", "mount"})
    /\ UNCHANGED settled

OpenExact ==
    IF guest.parent = "absent" \/ (guest.parent # "unsafe" /\ guest.exact = "absent")
    THEN Give("single", "finish", guest, {})
    ELSE IF guest.parent = "unsafe" \/ guest.exact \in {"link", "other", "mount"}
    THEN Give("single", "failed", guest, {})
    ELSE Give("single", "finish", guest, {"exact"})

\* The repair is complete; the helper measures again.
FinishRepair ==
    /\ pc = "finish" /\ pc' = "env" /\ pass' = 2 /\ ev' = NoEvidence /\ held' = {}
    /\ guest' = IF "exact" \in held THEN [guest EXCEPT !.exact = "ok"] ELSE guest
    /\ verdict' = "none"
    /\ UNCHANGED <<spec, outside, settled, changes>>

Done == pc \in {"done", "failed"} /\ UNCHANGED vars

Next ==
    \/ ChangeFile \/ ChangeRoot \/ ChangeExact
    \/ ReadEnv \/ ProbeRoot \/ WalkRoot \/ ProbeParent \/ ProbeExact \/ MeasureFiles
    \/ SendReply \/ Resolve
    \/ StartRepair \/ RepairFails \/ GrantAbove \/ OpenRoot \/ GrantDir \/ GrantFiles
    \/ OpenExact \/ FinishRepair \/ Done

Spec == Init /\ [][Next]_vars

-----------------------------------------------------------------------------
(* Properties.                                                             *)

\* Whatever the guest does between two system calls of the helper, the evidence
\* it sends is never refused as contradictory: the manager's cross-checks catch
\* a broken or truncated helper, never a log that rotated during the probe.
NeverContradicts == verdict # "contradiction"

\* The verdict a guest deserves, judged from the file system alone.
Deserved(g) ==
    LET root  == spec.root /\ g.root # "absent"
        there == {f \in Files : g.files[f] \in {"ok", "denied"}}
        seen  == root /\ g.alloy /\ g.tools /\ g.meter /\ Reachable(g)
        live  == (IF root THEN Cardinality(there) ELSE 0)
                 + (IF spec.exact /\ g.exact # "absent" THEN 1 ELSE 0)
        unsafe == \/ root /\ (g.root # "dir" \/ g.anc = "unsafe")
                  \/ seen /\ \E f \in Files : g.files[f] \in {"link", "mount"}
                  \/ spec.exact /\ (g.parent = "unsafe" \/ g.exact \in {"link", "other", "mount"})
        missing == spec.required /\ \/ spec.root /\ ~root
                                    \/ spec.exact /\ g.parent = "absent" /\ g.alloy /\ g.meter
        closed == \/ root /\ (~Reachable(g) \/ \E f \in Files : g.files[f] = "denied")
                  \/ spec.exact /\ (g.parent = "closed" \/ g.exact = "denied")
    IN IF ~g.mounts THEN "unmeasurable"
       ELSE IF unsafe \/ missing THEN "blocked"
       ELSE IF (root /\ ~g.tools) \/ ((root \/ spec.exact) /\ ~(g.alloy /\ g.meter))
         THEN "unmeasurable"
       ELSE IF seen /\ Cardinality(there) > MaxFiles THEN "partial"
       ELSE IF closed THEN "acl-needed"
       ELSE IF ~root /\ (~spec.exact \/ g.parent = "absent") THEN "inactive"
       ELSE IF live = 0 THEN "quiet" ELSE "active"

\* When the guest held still, the verdict is the one it deserves; a measurement cut
\* short by a deadline, a budget or the reply limit never ends in "active" or "quiet"
\* without having seen everything; and after a completed repair access is no longer
\* what is missing.
VerdictMatchesGuest ==
    verdict # "none" /\ settled /\ pc \in {"repair", "done"} =>
      /\ IF ev.late \/ ev.short \/ ev.reply # "whole"
         THEN verdict \notin {"active", "quiet"}
         ELSE verdict = Deserved(guest)
      /\ pass = 2 => verdict # "acl-needed"

\* No grant ever reaches a file outside the declared root, whatever takes the place
\* of a log between the walk and the grant (the descriptors of _AclRepair).
GrantsStayInside == ~outside
=============================================================================
