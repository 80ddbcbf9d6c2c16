-------------------------- MODULE LogAccess_proofs --------------------------
(***************************************************************************)
(* Theorems about LogAccess, for any number of files and identities kept,  *)
(* any distance of the guest from a plain one and any number of changes.   *)
(***************************************************************************)
EXTENDS LogAccess, FiniteSetTheorems, TLAPS

(***************************************************************************)
(* Types.                                                                  *)
(***************************************************************************)
RootPart  == [st : Probed, kind : RootKinds, anc : BOOLEAN]
MatchPart == [st : Probed \cup {"none"}, n : 0 .. Cardinality(Files),
              files : SUBSET Files, readable : SUBSET Files]
ExactPart == [st : Probed, kind : FileKinds \cup {"other"}]
Evidence  == [alloy : BOOLEAN, mounts : BOOLEAN, late : BOOLEAN, short : BOOLEAN,
              reply : {"whole", "cut", "bare"}, root : RootPart, match : MatchPart,
              parent : {"yes", "no", "unknown"}, exact : ExactPart]

Steps == {"env", "root", "walk", "parent", "exact", "files", "reply", "resolve",
          "repair", "above", "open", "dir", "grant", "single", "finish", "failed", "done"}

Types ==
    /\ spec \in [root : BOOLEAN, exact : BOOLEAN, required : BOOLEAN]
    /\ spec.root \/ spec.exact
    /\ guest \in Guests /\ pc \in Steps /\ pass \in 1 .. 2
    /\ ev \in Evidence
    /\ verdict \in Verdicts \cup {"none", "contradiction"}
    /\ held \subseteq Files \cup {"root", "exact"}
    /\ outside \in BOOLEAN /\ settled \in BOOLEAN /\ changes \in 0 .. MaxChanges

\* What the guest always obeys, and what the repair holds open.
Sane ==
    /\ guest.parent = "absent" => guest.exact = "absent"
    /\ "exact" \in held => guest.parent # "absent"

\* A descriptor of the repair is one of a regular file below the root.
Descriptors ==
    /\ ~outside
    /\ \A f \in held \cap Files : guest.files[f] \in {"ok", "denied"}

(***************************************************************************)
(* Evidence an honest measurement can contain, whatever the guest does     *)
(* between its system calls.                                               *)
(***************************************************************************)
RootCoherent(e) == spec.root =>
    /\ e.root.st # "quiet"
    /\ e.root.st = "missing_root" => e.root.kind = "absent"
    /\ e.root.st = "ok" => e.root.kind = "dir" /\ ~e.root.anc
    /\ RootUnsafe(e) => e.root.st = "failed"

MatchCoherent(e) == spec.root =>
    /\ Cardinality(e.match.files) <= e.match.n
    /\ e.match.st \in {"none", "ok", "quiet"} => e.match.n = Cardinality(e.match.files)
    /\ e.match.st = "quiet" => e.match.n = 0
    /\ e.match.st = "missing_root" => e.root.kind = "absent" /\ e.match.files = {}
    /\ e.match.st \in {"ok", "quiet"} => e.root.kind # "absent"

ExactCoherent(e) == spec.exact =>
    /\ e.exact.st = "missing_root" => e.exact.kind = "absent" /\ e.parent # "yes"
    /\ e.exact.st = "quiet" => e.exact.kind = "absent" /\ e.parent = "yes"
    /\ e.exact.st = "ok" => e.exact.kind = "ok" /\ e.parent = "yes"
    /\ ExactUnsafe(e) => e.exact.st = "failed"

Coherent ==
    /\ RootCoherent(ev) /\ MatchCoherent(ev) /\ ev.match.readable \subseteq ev.match.files
    /\ ~spec.root => ev.match.files = {}
    /\ pc # "exact" => ExactCoherent(ev)
    /\ pc \in {"root", "walk"} => ev.match = NoEvidence.match
    /\ pc = "walk" => spec.root
    /\ pc = "exact" => spec.exact
    /\ pc \in {"parent", "exact", "files"} /\ spec.root /\ ev.match.st = "none" =>
         ev.root.kind = "dir"

(***************************************************************************)
(* What evidence says of a guest that holds still.                         *)
(***************************************************************************)
\* Links or mounts where the pattern could match, and the files it finds.
Tangled(g) == \E f \in Files : g.files[f] \in {"link", "mount"}
There(g)   == {f \in Files : g.files[f] \in {"ok", "denied"}}

RootStatus(g) ==
    IF g.root = "absent" THEN "missing_root"
    ELSE IF g.root # "dir" \/ g.anc = "unsafe" THEN "failed"
    ELSE IF ~g.alloy \/ ~g.tools \/ ~g.meter THEN "unavailable"
    ELSE IF Reachable(g) THEN "ok" ELSE "denied"

ParentStatus(g) == IF ~(g.alloy /\ g.meter) THEN "unknown"
                   ELSE IF g.parent = "open" THEN "yes" ELSE "no"

ExactStatus(g) ==
    IF g.parent = "absent" THEN IF g.alloy /\ g.meter THEN "missing_root" ELSE "unavailable"
    ELSE IF g.parent = "unsafe" THEN "failed"
    ELSE IF g.exact = "absent"
      THEN IF ~(g.alloy /\ g.meter) THEN "unavailable"
           ELSE IF g.parent = "open" THEN "quiet" ELSE "denied"
    ELSE IF g.exact \in {"link", "other", "mount"} THEN "failed"
    ELSE IF ~(g.alloy /\ g.meter) THEN "unavailable"
    ELSE IF g.exact = "ok" /\ g.parent = "open" THEN "ok" ELSE "denied"

RootFaithful == spec.root =>
    /\ ev.root.kind = guest.root
    /\ ev.root.anc = (guest.root = "dir" /\ guest.anc = "unsafe")

\* The pattern, before and after read access was measured.
WalkFaithful == spec.root =>
    IF RootStatus(guest) # "ok"
    THEN /\ ev.root.st = RootStatus(guest) /\ ev.match.st = RootStatus(guest)
         /\ ev.match.files = {}
    ELSE IF Tangled(guest)
    THEN ev.root.st = "failed" /\ ev.match.st = "failed" /\ ev.match.files = {}
    ELSE /\ ev.root.st = "ok"
         /\ ~ev.short => /\ ev.match.n = Cardinality(There(guest))
                         /\ IF Cardinality(There(guest)) > MaxFiles
                            THEN ev.match.st = "partial"
                            ELSE /\ ev.match.files = There(guest)
                                 /\ ev.match.st \in {"none", "ok", "quiet"}

FilesFaithful == spec.root /\ RootStatus(guest) = "ok" /\ ev.match.st \in {"ok", "quiet"} =>
    ev.match.readable = {f \in ev.match.files : guest.files[f] = "ok"}

ParentFaithful == spec.exact => ev.parent = ParentStatus(guest)
ExactFaithful  == spec.exact => ev.exact.kind = guest.exact /\ ev.exact.st = ExactStatus(guest)

Faithful ==
    /\ RootFaithful /\ WalkFaithful /\ FilesFaithful /\ ParentFaithful /\ ExactFaithful
    /\ spec.root => ev.match.st # "none"

\* A source nobody looked at.
Blank(st) ==
    /\ ev.root.st = st /\ ev.root.kind = "absent" /\ ~ev.root.anc
    /\ ev.match.st = st /\ ev.match.files = {} /\ ev.match.readable = {}
    /\ ev.exact.st = st /\ ev.exact.kind = "absent" /\ ev.parent = "unknown"

Looked == ev.mounts /\ ~ev.late

Measured ==
    /\ pc # "env" => ev.alloy = guest.alloy /\ ev.mounts = guest.mounts
    /\ pc \in {"root", "walk", "parent", "exact", "files"} => Looked
    /\ pc \in {"env", "root", "walk", "parent", "exact", "files", "reply"} => ev.reply = "whole"
    /\ pc \in {"env", "root", "walk"} => ~ev.short
    /\ ev.short /\ ev.reply = "whole" /\ Looked => spec.root /\ ev.match.st = "partial"
    /\ pc = "resolve" /\ ev.reply = "whole" /\ ~Looked =>
         Blank(IF ev.mounts THEN "partial" ELSE "unavailable")
    /\ pc = "resolve" /\ ev.reply # "whole" => ev.match.st = "partial"

Followed == settled =>
    /\ pc = "walk" => RootFaithful /\ ev.root.st = RootStatus(guest)
    /\ pc \in {"parent", "exact", "files"} =>
         RootFaithful /\ WalkFaithful /\ (spec.root => ev.match.st \notin {"ok", "quiet"})
    /\ pc \in {"exact", "files"} => ParentFaithful
    /\ pc = "files" => ExactFaithful
    /\ pc = "reply" /\ Looked => Faithful
    /\ pc = "resolve" /\ ev.reply = "whole" /\ Looked => Faithful

(***************************************************************************)
(* What a repair that nobody disturbs has granted at each of its steps.    *)
(***************************************************************************)
RootGranted(g)  == spec.root /\ g.root # "absent" =>
                     Reachable(g) /\ \A f \in Files : g.files[f] # "denied"
ExactGranted(g) == spec.exact => g.parent # "closed" /\ g.exact # "denied"

AboveOpen == /\ spec.root => guest.anc = "open"
             /\ spec.exact => guest.parent \notin {"closed", "unsafe"}

Granting == settled =>
    /\ pass = 2 => RootGranted(guest) /\ ExactGranted(guest)
    /\ pass = 1 /\ pc \in {"open", "dir", "grant", "single", "finish"} => AboveOpen
    /\ pass = 1 /\ pc \in {"dir", "grant"} => There(guest) \subseteq held
    /\ pass = 1 /\ pc = "dir" => "root" \in held
    /\ pass = 1 /\ pc = "grant" => guest.acl = "full"
    /\ pass = 1 /\ pc \in {"single", "finish"} => RootGranted(guest)
    /\ pass = 1 /\ pc = "finish" /\ spec.exact => guest.exact = "absent" \/ "exact" \in held

Repairing == pc \in {"repair", "above", "open", "dir", "grant", "single", "finish"} => pass = 1

IInv ==
    /\ Types /\ Sane /\ Descriptors /\ Coherent /\ Measured /\ Followed /\ Granting /\ Repairing
    /\ NeverContradicts /\ VerdictMatchesGuest

(***************************************************************************)
(* Finite sets of files.                                                   *)
(***************************************************************************)
LEMMA CountOfFiles ==
    ASSUME NEW S \in SUBSET Files
    PROVE  IsFiniteSet(S) /\ Cardinality(S) \in 0 .. Cardinality(Files)
  <1>1. IsFiniteSet(Files) /\ IsFiniteSet(S) /\ Cardinality(S) <= Cardinality(Files)
    BY FS_Subset, AccessAssumption
  <1>2. Cardinality(S) \in Nat /\ Cardinality(Files) \in Nat
    BY <1>1, FS_CardinalityType
  <1> QED
    BY <1>1, <1>2

LEMMA CountOfPart ==
    ASSUME NEW S \in SUBSET Files, NEW T \in SUBSET S
    PROVE  /\ Cardinality(T) <= Cardinality(S)
           /\ Cardinality(T) = Cardinality(S) => T = S
  BY CountOfFiles, FS_Subset

LEMMA CountOfNone ==
    ASSUME NEW S \in SUBSET Files PROVE Cardinality(S) = 0 <=> S = {}
  BY CountOfFiles, FS_EmptySet

(***************************************************************************)
(* Types.                                                                  *)
(***************************************************************************)
LEMMA NoEvidenceType == NoEvidence \in Evidence
  <1>1. 0 \in 0 .. Cardinality(Files)
    BY CountOfFiles, CountOfNone
  <1> QED
    BY <1>1 DEF NoEvidence, Evidence, RootPart, MatchPart, ExactPart, Probed, RootKinds, FileKinds

LEMMA RootRecordType == Types => RootRecord \in RootPart
  BY DEF Types, RootRecord, RootPart, Probed, Guests

LEMMA ExactRecordType == Types => ExactRecord \in ExactPart
  BY DEF Types, ExactRecord, AbsentExactStatus, ExactPart, Probed, Guests, Evidence

LEMMA WalkedType ==
    ASSUME Types, NEW short \in BOOLEAN, NEW found \in SUBSET Files
    PROVE  Walked(found, short) \in Evidence
  <1>1. Cardinality(found) \in 0 .. Cardinality(Files)
    BY CountOfFiles
  <1>2. ev \in Evidence
    BY DEF Types
  <1>3. CASE ev.root.st # "ok"
    BY <1>2, <1>3 DEF Walked, Evidence, MatchPart, RootPart
  <1>4. CASE ev.root.st = "ok" /\ (guest.root # "dir" \/ \E f \in Files : guest.files[f] \in {"link", "mount"})
    BY <1>2, <1>4 DEF Walked, Evidence, MatchPart, RootPart, Probed
  <1>5. CASE ev.root.st = "ok" /\ ~(guest.root # "dir" \/ \E f \in Files : guest.files[f] \in {"link", "mount"})
    <2> DEFINE m == [st |-> IF short \/ Cardinality(found) > MaxFiles THEN "partial" ELSE "none",
                     n |-> Cardinality(found), files |-> {}, readable |-> {}]
    <2>1. m \in MatchPart
      BY <1>1 DEF MatchPart, Probed
    <2>2. Walked(found, short) = [ev EXCEPT !.match = m, !.short = short]
      BY <1>5 DEF Walked
    <2> HIDE DEF m
    <2> QED
      BY <1>2, <2>1, <2>2 DEF Evidence
  <1> QED
    BY <1>3, <1>4, <1>5

LEMMA WalkEvidence ==
    ASSUME Types, WalkRoot
    PROVE  /\ Call("walk", "parent", ev') /\ ev' \in Evidence
           /\ \E short \in BOOLEAN, found \in SUBSET There(guest) :
                \E kept \in SUBSET found :
                   /\ short \/ found = There(guest)
                   /\ Cardinality(kept) <= Cardinality(found)
                   /\ Cardinality(found) <= MaxFiles => kept = found
                   /\ LET e == Walked(found, short) IN
                      ev' = IF e.match.n > 0 THEN [e EXCEPT !.match.files = kept] ELSE e
  <1> DEFINE E(found, short, kept) ==
                LET e == Walked(found, short) IN
                IF e.match.n > 0 THEN [e EXCEPT !.match.files = kept] ELSE e
  <1>1. PICK short \in BOOLEAN, found \in SUBSET There(guest) :
             /\ short \/ found = There(guest)
             /\ \E kept \in Kept(found) : Call("walk", "parent", E(found, short, kept))
    BY DEF WalkRoot, There
  <1>0. PICK kept \in Kept(found) : Call("walk", "parent", E(found, short, kept))
    BY <1>1
  <1>2. found \in SUBSET Files /\ kept \in SUBSET found
    BY DEF There, Kept
  <1>3. /\ Cardinality(kept) <= Cardinality(found)
        /\ Cardinality(found) <= MaxFiles => kept = found
    <2>1. Cardinality(kept) = IF Cardinality(found) > MaxFiles THEN MaxFiles ELSE Cardinality(found)
      BY DEF Kept
    <2>2. Cardinality(found) \in Nat /\ MaxFiles \in Nat
      BY <1>2, CountOfFiles, AccessAssumption
    <2> QED
      BY <1>2, <2>1, <2>2, CountOfPart
  <1>4. E(found, short, kept) \in Evidence
    <2>1. Walked(found, short) \in Evidence /\ kept \in SUBSET Files
      BY <1>2, WalkedType
    <2> QED
      BY <2>1 DEF Evidence, MatchPart
  <1>5. Call("walk", "parent", E(found, short, kept)) => ev' = E(found, short, kept)
    BY DEF Call
  <1> QED
    BY <1>0, <1>1, <1>2, <1>3, <1>4, <1>5

LEMMA ReplyType == ASSUME Types, NEW kind \in {"whole", "cut", "bare"} PROVE Reply(kind) \in Evidence
  <1>1. ev \in Evidence /\ 0 \in 0 .. Cardinality(Files)
    BY CountOfFiles, CountOfNone DEF Types
  <1>2. Unseen("unavailable") \in Evidence /\ Unseen("partial") \in Evidence
    BY NoEvidenceType DEF Unseen, Evidence, RootPart, MatchPart, ExactPart, Probed
  <1> DEFINE e == IF ~ev.mounts THEN Unseen("unavailable") ELSE IF ev.late THEN Unseen("partial") ELSE ev
             m == [st |-> "partial", n |-> 0, files |-> {}, readable |-> {}]
             r == [st |-> "partial", kind |-> "absent", anc |-> FALSE]
             x == [st |-> "partial", kind |-> "absent"]
             cut == [e EXCEPT !.match = m]
             bare == [cut EXCEPT !.root = r, !.exact = x, !.parent = "unknown"]
             out == CASE kind = "whole" -> e [] kind = "cut" -> cut [] kind = "bare" -> bare
  <1>3. m \in MatchPart /\ r \in RootPart /\ x \in ExactPart
    BY <1>1 DEF MatchPart, RootPart, ExactPart, Probed, RootKinds, FileKinds
  <1>4. e \in Evidence
    BY <1>1, <1>2
  <1>5. cut \in Evidence
    BY <1>3, <1>4 DEF Evidence
  <1>6. bare \in Evidence
    BY <1>3, <1>5 DEF Evidence
  <1>7. out \in Evidence
    BY <1>4, <1>5, <1>6
  <1>8. Reply(kind) = [out EXCEPT !.alloy = ev.alloy, !.mounts = ev.mounts, !.late = ev.late,
                                  !.short = ev.short, !.reply = kind]
    BY DEF Reply
  <1> HIDE DEF out
  <1> QED
    BY <1>1, <1>7, <1>8 DEF Evidence

LEMMA VerdictType == Resolved(ev) \in Verdicts \cup {"contradiction"}
  BY DEF Resolved, Lowered, Computed, Verdicts

\* Every call of the measurement leaves the guest and the repair as they are.
LEMMA CallType ==
    ASSUME Types, NEW at, NEW next \in Steps, NEW e \in Evidence,
           Call(at, next, e)
    PROVE  Types'
  BY DEF Types, Call

LEMMA GuestType ==
    ASSUME Types, ChangeFile \/ ChangeRoot \/ ChangeExact
    PROVE  /\ Types' /\ ~settled' /\ held' \subseteq held
           /\ UNCHANGED <<spec, pc, pass, ev, verdict, outside>> /\ pc \notin {"done", "failed"}
           /\ guest'.alloy = guest.alloy /\ guest'.mounts = guest.mounts
           /\ UNCHANGED <<guest.parent, guest.exact>> \/ held' \subseteq held \ {"exact"}
           /\ \A f \in held' \cap Files : guest'.files[f] = guest.files[f]
           /\ guest'.parent = "absent" => guest'.exact = "absent" \/ UNCHANGED <<guest.parent, guest.exact>>
  <1>0. changes < MaxChanges => changes + 1 \in 0 .. MaxChanges
    BY AccessAssumption DEF Types
  <1>1. ASSUME ChangeFile PROVE guest' \in Guests
    BY <1>1 DEF ChangeFile, Change, Types, Guests
  <1>2. ASSUME ChangeRoot PROVE guest' \in Guests
    BY <1>2 DEF ChangeRoot, Change, Types, Guests
  <1>3. ASSUME ChangeExact PROVE guest' \in Guests
    BY <1>3 DEF ChangeExact, Change, Types, Guests
  <1>4. CASE ChangeFile
    <2>1. PICK f \in Files, k \in FileKinds :
             Change([guest EXCEPT !.files[f] = k]) /\ held' = held \ {f}
      BY <1>4 DEF ChangeFile
    <2>2. Types' /\ ~settled' /\ pc \notin {"done", "failed"}
      BY <1>0, <1>1, <1>4, <2>1 DEF Change, Types
    <2>3. guest' = [guest EXCEPT !.files[f] = k] /\ UNCHANGED <<spec, pc, pass, ev, verdict, outside>>
      BY <2>1 DEF Change
    <2>4. /\ guest'.alloy = guest.alloy /\ guest'.mounts = guest.mounts
          /\ UNCHANGED <<guest.parent, guest.exact>>
      BY <2>3 DEF Types, Guests
    <2>5. \A g \in held' \cap Files : guest'.files[g] = guest.files[g]
      BY <2>1, <2>3 DEF Types, Guests
    <2> QED
      BY <2>1, <2>2, <2>3, <2>4, <2>5
  <1>5. CASE ChangeRoot
    <2>1. PICK k \in RootKinds : Change([guest EXCEPT !.root = k])
      BY <1>5 DEF ChangeRoot
    <2>2. held' = held \cap {"exact"}
      BY <1>5 DEF ChangeRoot
    <2>3. Types' /\ ~settled' /\ pc \notin {"done", "failed"}
      BY <1>0, <1>2, <1>5, <2>1, <2>2 DEF Change, Types
    <2>4. guest' = [guest EXCEPT !.root = k] /\ UNCHANGED <<spec, pc, pass, ev, verdict, outside>>
      BY <2>1 DEF Change
    <2>5. held' \cap Files = {} /\ held' \subseteq held
      BY <2>2, AccessAssumption
    <2> QED
      BY <2>3, <2>4, <2>5 DEF Types, Guests
  <1>6. CASE ChangeExact
    <2>1. PICK p \in ParentKinds, k \in FileKinds \cup {"other"} :
             /\ (p = "absent") => (k = "absent")
             /\ Change([guest EXCEPT !.parent = p, !.exact = k])
      BY <1>6 DEF ChangeExact
    <2>2. held' = held \ {"exact"}
      BY <1>6 DEF ChangeExact
    <2>3. Types' /\ ~settled' /\ pc \notin {"done", "failed"}
      BY <1>0, <1>3, <1>6, <2>1, <2>2 DEF Change, Types
    <2>4. /\ guest' = [guest EXCEPT !.parent = p, !.exact = k]
          /\ UNCHANGED <<spec, pc, pass, ev, verdict, outside>>
      BY <2>1 DEF Change
    <2> QED
      BY <2>1, <2>2, <2>3, <2>4 DEF Types, Guests
  <1> QED
    BY <1>4, <1>5, <1>6

LEMMA MeasureType ==
    ASSUME Types, ReadEnv \/ ProbeRoot \/ WalkRoot \/ ProbeParent \/ ProbeExact \/ MeasureFiles \/ SendReply
    PROVE  Types'
  <1>1. ev \in Evidence
    BY DEF Types
  <1>2. CASE ReadEnv
    <2>1. PICK late \in BOOLEAN :
            Call("env", IF guest.mounts /\ ~late THEN "root" ELSE "reply",
                 [NoEvidence EXCEPT !.alloy = guest.alloy, !.mounts = guest.mounts, !.late = late])
      BY <1>2 DEF ReadEnv
    <2>2. [NoEvidence EXCEPT !.alloy = guest.alloy, !.mounts = guest.mounts, !.late = late] \in Evidence
      BY NoEvidenceType DEF Evidence, Types, Guests
    <2> QED
      BY <2>1, <2>2, CallType DEF Steps, NoEvidence
  <1>3. CASE ProbeRoot
    <2>1. [ev EXCEPT !.root = RootRecord] \in Evidence
      BY <1>1, RootRecordType DEF Evidence
    <2> QED
      BY <1>1, <1>3, <2>1, CallType DEF ProbeRoot, Steps, Evidence
  <1>4. CASE WalkRoot
    BY <1>4, WalkEvidence, CallType DEF Steps
  <1>5. CASE ProbeParent
    BY <1>1, <1>5, CallType DEF ProbeParent, Steps, Evidence
  <1>6. CASE ProbeExact
    <2>1. [ev EXCEPT !.exact = ExactRecord] \in Evidence
      BY <1>1, ExactRecordType DEF Evidence
    <2> QED
      BY <1>1, <1>6, <2>1, CallType DEF ProbeExact, Steps, Evidence
  <1>7. CASE MeasureFiles
    <2>1. ReadableNow \in SUBSET ev.match.files
      BY DEF ReadableNow
    <2>2. FileStatus(ReadableNow) \in Probed
      BY <1>1 DEF FileStatus, Evidence, MatchPart, Probed
    <2>3. [ev EXCEPT !.match.st = FileStatus(ReadableNow), !.match.readable = ReadableNow] \in Evidence
      BY <1>1, <2>1, <2>2 DEF Evidence, MatchPart
    <2> QED
      BY <1>1, <1>7, <2>1, <2>3, CallType DEF MeasureFiles, Steps, Evidence, MatchPart
  <1>8. CASE SendReply
    BY <1>8, ReplyType, CallType DEF SendReply, Steps
  <1> QED
    BY <1>2, <1>3, <1>4, <1>5, <1>6, <1>7, <1>8

LEMMA MeasureStays ==
    ASSUME ReadEnv \/ ProbeRoot \/ WalkRoot \/ ProbeParent \/ ProbeExact \/ MeasureFiles \/ SendReply
    PROVE  UNCHANGED <<spec, guest, pass, verdict, held, outside, settled, changes>>
  <1> USE DEF Call
  <1>1. CASE ReadEnv
    BY <1>1 DEF ReadEnv
  <1>2. CASE WalkRoot
    BY <1>2 DEF WalkRoot
  <1>3. CASE SendReply
    BY <1>3 DEF SendReply
  <1>4. CASE ProbeRoot \/ ProbeParent \/ ProbeExact \/ MeasureFiles
    BY <1>4 DEF ProbeRoot, ProbeParent, ProbeExact, MeasureFiles
  <1> QED
    BY <1>1, <1>2, <1>3, <1>4

\* The repair changes what the guest grants, and nothing of the evidence.
LEMMA RepairType ==
    ASSUME Types,
           StartRepair \/ RepairFails \/ GrantAbove \/ OpenRoot \/ GrantDir \/ GrantFiles \/ OpenExact
    PROVE  /\ Types' /\ UNCHANGED <<spec, pass, ev, verdict, changes>>
           /\ guest'.alloy = guest.alloy /\ guest'.mounts = guest.mounts
           /\ pc \in {"repair", "above", "open", "dir", "grant", "single", "finish"}
           /\ pc' \in {"above", "open", "dir", "grant", "single", "finish", "failed"}
  <1> USE DEF Steps, Give, Repair
  <1>1. CASE StartRepair
    BY <1>1 DEF StartRepair, Types
  <1>2. CASE RepairFails
    BY <1>2 DEF RepairFails, Types
  <1>3. CASE GrantAbove
    <2>1. CASE UnsafeAbove
      BY <1>3, <2>1 DEF GrantAbove, Types
    <2>2. CASE ~UnsafeAbove
      <3> DEFINE g == [guest EXCEPT !.anc = IF spec.root /\ @ = "closed" THEN "open" ELSE @,
                           !.parent = IF spec.exact /\ @ = "closed" THEN "open" ELSE @]
      <3>1. g \in Guests /\ g.alloy = guest.alloy /\ g.mounts = guest.mounts
        BY DEF Types, Guests, ParentKinds
      <3>2. Give("above", IF spec.root THEN "open" ELSE "single", g, {})
        BY <1>3, <2>2 DEF GrantAbove
      <3> QED
        BY <3>1, <3>2 DEF Types
    <2> QED
      BY <2>1, <2>2
  <1>4. CASE OpenRoot
    BY <1>4 DEF OpenRoot, Types
  <1>5. CASE GrantDir
    <2>1. guest' \in Guests /\ guest'.alloy = guest.alloy /\ guest'.mounts = guest.mounts
      BY <1>5 DEF GrantDir, Types, Guests
    <2> QED
      BY <1>5, <2>1 DEF GrantDir, Types
  <1>6. CASE GrantFiles
    <2>1. guest' \in Guests /\ guest'.alloy = guest.alloy /\ guest'.mounts = guest.mounts
      BY <1>6 DEF GrantFiles, Types, Guests, FileKinds
    <2> QED
      BY <1>6, <2>1 DEF GrantFiles, Types
  <1>7. CASE OpenExact
    BY <1>7 DEF OpenExact, Types
  <1> QED
    BY <1>1, <1>2, <1>3, <1>4, <1>5, <1>6, <1>7

LEMMA ResolveType == Types /\ Resolve => Types'
  BY VerdictType DEF Resolve, Types, Steps

LEMMA FinishType ==
    ASSUME Types, FinishRepair
    PROVE  Types' /\ guest'.alloy = guest.alloy /\ guest'.mounts = guest.mounts
  <1>1. guest' \in Guests /\ guest'.alloy = guest.alloy /\ guest'.mounts = guest.mounts
    BY DEF FinishRepair, Types, Guests, FileKinds
  <1> QED
    BY <1>1, NoEvidenceType DEF FinishRepair, Types, Steps

LEMMA TypesKept == Types /\ [Next]_vars => Types'
  <1> SUFFICES ASSUME Types, [Next]_vars PROVE Types'
    OBVIOUS
  <1>1. CASE ChangeFile \/ ChangeRoot \/ ChangeExact
    BY <1>1, GuestType
  <1>2. CASE ReadEnv \/ ProbeRoot \/ WalkRoot \/ ProbeParent \/ ProbeExact \/ MeasureFiles \/ SendReply
    BY <1>2, MeasureType
  <1>3. CASE StartRepair \/ RepairFails \/ GrantAbove \/ OpenRoot \/ GrantDir \/ GrantFiles \/ OpenExact
    BY <1>3, RepairType
  <1>4. CASE Done \/ UNCHANGED vars
    BY <1>4 DEF Done, vars, Types
  <1> QED
    BY <1>1, <1>2, <1>3, <1>4, ResolveType, FinishType DEF Next

(***************************************************************************)
(* Descriptors.                                                            *)
(***************************************************************************)
LEMMA SaneKept == Types /\ Sane /\ [Next]_vars => Sane'
  <1> SUFFICES ASSUME Types, Sane, [Next]_vars PROVE Sane'
    OBVIOUS
  <1>1. CASE ChangeFile \/ ChangeRoot \/ ChangeExact
    BY <1>1, GuestType DEF Sane
  <1>2. CASE ReadEnv \/ ProbeRoot \/ WalkRoot \/ ProbeParent \/ ProbeExact \/ MeasureFiles \/ SendReply
    BY <1>2, MeasureStays DEF Sane
  <1>3. CASE StartRepair \/ RepairFails \/ OpenRoot \/ OpenExact
    BY <1>3, AccessAssumption DEF StartRepair, RepairFails, OpenRoot, OpenExact, Repair, Give, Sane
  <1>4. CASE GrantAbove
    BY <1>4 DEF GrantAbove, Repair, Give, Sane, Types, Guests
  <1>5. CASE GrantDir \/ GrantFiles
    BY <1>5 DEF GrantDir, GrantFiles, Repair, Give, Sane, Types, Guests
  <1>6. CASE FinishRepair
    BY <1>6 DEF FinishRepair, Sane, Types, Guests
  <1>7. CASE Resolve \/ Done \/ UNCHANGED vars
    BY <1>7 DEF Resolve, Done, vars, Sane
  <1> QED
    BY <1>1, <1>2, <1>3, <1>4, <1>5, <1>6, <1>7 DEF Next

LEMMA DescriptorsKept == Types /\ Descriptors /\ [Next]_vars => Descriptors'
  <1> SUFFICES ASSUME Types, Descriptors, [Next]_vars PROVE Descriptors'
    OBVIOUS
  <1>1. CASE ChangeFile \/ ChangeRoot \/ ChangeExact
    BY <1>1, GuestType DEF Descriptors
  <1>2. CASE ReadEnv \/ ProbeRoot \/ WalkRoot \/ ProbeParent \/ ProbeExact \/ MeasureFiles \/ SendReply
    BY <1>2, MeasureStays DEF Descriptors
  <1>3. CASE StartRepair \/ RepairFails \/ OpenRoot \/ OpenExact
    BY <1>3, AccessAssumption DEF StartRepair, RepairFails, OpenRoot, OpenExact, Repair, Give,
                                  Descriptors
  <1>4. CASE GrantAbove
    BY <1>4 DEF GrantAbove, Repair, Give, Descriptors, Types, Guests
  <1>5. CASE GrantDir
    BY <1>5 DEF GrantDir, Repair, Give, Descriptors, Types, Guests
  <1>6. CASE GrantFiles
    BY <1>6 DEF GrantFiles, Reached, Repair, Descriptors, Types
  <1>7. CASE FinishRepair
    BY <1>7 DEF FinishRepair, Descriptors
  <1>8. CASE Resolve \/ Done \/ UNCHANGED vars
    BY <1>8 DEF Resolve, Done, vars, Descriptors
  <1> QED
    BY <1>1, <1>2, <1>3, <1>4, <1>5, <1>6, <1>7, <1>8 DEF Next

(***************************************************************************)
(* Coherence of the evidence.                                              *)
(***************************************************************************)
LEMMA EmptyCoherent ==
    /\ RootCoherent(NoEvidence) /\ MatchCoherent(NoEvidence) /\ ExactCoherent(NoEvidence)
    /\ NoEvidence.match.readable \subseteq NoEvidence.match.files /\ NoEvidence.match.files = {}
  <1>1. Cardinality({}) = 0
    BY CountOfNone
  <1> QED
    BY <1>1 DEF NoEvidence, RootCoherent, MatchCoherent, ExactCoherent, RootUnsafe, RootExists,
                ExactUnsafe

\* Coherence looks at the four parts of the evidence only.
LEMMA SameCoherent ==
    ASSUME NEW a, NEW b, a.root = b.root, a.match = b.match, a.exact = b.exact, a.parent = b.parent
    PROVE  /\ RootCoherent(a) <=> RootCoherent(b)
           /\ MatchCoherent(a) <=> MatchCoherent(b)
           /\ ExactCoherent(a) <=> ExactCoherent(b)
  BY DEF RootCoherent, MatchCoherent, ExactCoherent, RootUnsafe, RootExists, ExactUnsafe

LEMMA EnvCoherent == Types /\ Coherent /\ ReadEnv => Coherent'
  <1> SUFFICES ASSUME Types, Coherent, ReadEnv PROVE Coherent'
    OBVIOUS
  <1>1. PICK late \in BOOLEAN :
          Call("env", IF guest.mounts /\ ~late THEN "root" ELSE "reply",
               [NoEvidence EXCEPT !.alloy = guest.alloy, !.mounts = guest.mounts, !.late = late])
    BY DEF ReadEnv
  <1>2. /\ ev'.root = NoEvidence.root /\ ev'.match = NoEvidence.match
        /\ ev'.exact = NoEvidence.exact /\ ev'.parent = NoEvidence.parent
    BY <1>1 DEF Call, NoEvidence
  <1>3. spec' = spec /\ pc' \in {"root", "reply"}
    BY <1>1 DEF Call
  <1>4. RootCoherent(ev') /\ MatchCoherent(ev') /\ ExactCoherent(ev')
    BY <1>2, SameCoherent, EmptyCoherent
  <1>5. RootCoherent(ev)' /\ MatchCoherent(ev)' /\ ExactCoherent(ev)'
    BY <1>3, <1>4 DEF RootCoherent, MatchCoherent, ExactCoherent, RootUnsafe, RootExists, ExactUnsafe
  <1> QED
    BY <1>2, <1>3, <1>5, EmptyCoherent DEF Coherent

LEMMA RootCoherentKept == Types /\ Coherent /\ ProbeRoot => Coherent'
  <1> SUFFICES ASSUME Types, Coherent, ProbeRoot PROVE Coherent'
    OBVIOUS
  <1>1. pc = "root" /\ spec' = spec /\ ev.match = NoEvidence.match
    BY DEF ProbeRoot, Call, Coherent
  <1>2. CASE ~spec.root
    BY <1>1, <1>2 DEF ProbeRoot, Call, Coherent, RootCoherent, MatchCoherent, ExactCoherent, ExactUnsafe
  <1>3. CASE spec.root
    <2>1. ev' = [ev EXCEPT !.root = RootRecord] /\ pc' = "walk"
      BY <1>3 DEF ProbeRoot, Call
    <2>2. /\ ev'.root = RootRecord /\ ev'.match = ev.match /\ ev'.exact = ev.exact
          /\ ev'.parent = ev.parent
      BY <2>1 DEF Types, Evidence
    <2>3. RootCoherent(ev)'
      <3>1. /\ RootRecord.kind = guest.root
            /\ RootRecord.anc = (guest.root = "dir" /\ guest.anc = "unsafe")
            /\ RootRecord.st = IF guest.root = "absent" THEN "missing_root"
                               ELSE IF guest.root # "dir" \/ guest.anc = "unsafe" THEN "failed"
                               ELSE IF ~ev.alloy \/ ~guest.tools \/ ~guest.meter THEN "unavailable"
                               ELSE IF Reachable(guest) THEN "ok" ELSE "denied"
        BY DEF RootRecord
      <3> QED
        BY <1>1, <2>2, <3>1 DEF RootCoherent, RootUnsafe, RootExists
    <2>4. MatchCoherent(ev)'
      <3>1. Cardinality({}) = 0
        BY CountOfNone
      <3> QED
        BY <1>1, <2>2, <3>1 DEF MatchCoherent, NoEvidence
    <2>5. ExactCoherent(ev)'
      BY <1>1, <2>2 DEF Coherent, ExactCoherent, ExactUnsafe
    <2> QED
      BY <1>1, <1>3, <2>1, <2>2, <2>3, <2>4, <2>5 DEF Coherent
  <1> QED
    BY <1>2, <1>3

LEMMA WalkCoherent == Types /\ Coherent /\ WalkRoot => Coherent'
  <1> SUFFICES ASSUME Types, Coherent, WalkRoot PROVE Coherent'
    OBVIOUS
  <1>1. /\ pc = "walk" /\ pc' = "parent" /\ spec' = spec /\ spec.root
        /\ ev \in Evidence /\ ev' \in Evidence /\ ev.match = NoEvidence.match
    BY WalkEvidence DEF Call, Coherent, Types
  <1>2. PICK short \in BOOLEAN, found \in SUBSET There(guest) : \E kept \in SUBSET found :
           /\ Cardinality(kept) <= Cardinality(found)
           /\ Cardinality(found) <= MaxFiles => kept = found
           /\ LET e == Walked(found, short) IN
              ev' = IF e.match.n > 0 THEN [e EXCEPT !.match.files = kept] ELSE e
    BY WalkEvidence
  <1>3. PICK kept \in SUBSET found :
           /\ Cardinality(kept) <= Cardinality(found)
           /\ Cardinality(found) <= MaxFiles => kept = found
           /\ LET e == Walked(found, short) IN
              ev' = IF e.match.n > 0 THEN [e EXCEPT !.match.files = kept] ELSE e
    BY <1>2
  <1>4. Cardinality({}) = 0 /\ found \in SUBSET Files /\ Cardinality(found) \in Nat /\ MaxFiles \in Nat
    BY CountOfNone, CountOfFiles, AccessAssumption DEF There
  <1>5. /\ ev'.exact = ev.exact /\ ev'.parent = ev.parent /\ ev'.root.kind = ev.root.kind
        /\ ev'.root.anc = ev.root.anc
        /\ \/ /\ ev.root.st # "ok" /\ ev'.root.st = ev.root.st /\ ev'.match.st = ev.root.st
              /\ ev'.match.n = 0 /\ ev'.match.files = {} /\ ev'.match.readable = {}
           \/ /\ ev.root.st = "ok" /\ ev'.root.st = "failed" /\ ev'.match.st = "failed"
              /\ ev'.match.n = 0 /\ ev'.match.files = {} /\ ev'.match.readable = {}
           \/ /\ ev.root.st = "ok" /\ ev'.root.st = "ok" /\ guest.root = "dir"
              /\ ev'.match.st = IF short \/ Cardinality(found) > MaxFiles THEN "partial" ELSE "none"
              /\ ev'.match.n = Cardinality(found) /\ ev'.match.readable = {}
              /\ ev'.match.files = IF Cardinality(found) > 0 THEN kept ELSE {}
    <2>1. ev.match.n = 0 /\ ev.match.files = {} /\ ev.match.readable = {}
      BY <1>1 DEF NoEvidence
    <2>2. CASE ev.root.st # "ok"
      BY <1>1, <1>3, <2>1, <2>2 DEF Walked, Evidence, MatchPart, RootPart
    <2>3. CASE ev.root.st = "ok" /\ (guest.root # "dir" \/ \E f \in Files : guest.files[f] \in {"link", "mount"})
      BY <1>1, <1>3, <2>1, <2>3 DEF Walked, Evidence, MatchPart, RootPart
    <2>4. CASE ev.root.st = "ok" /\ ~(guest.root # "dir" \/ \E f \in Files : guest.files[f] \in {"link", "mount"})
      BY <1>1, <1>3, <1>4, <2>4 DEF Walked, Evidence, MatchPart, RootPart
    <2> QED
      BY <2>2, <2>3, <2>4
  <1>6. CASE /\ ev'.match.n = 0 /\ ev'.match.files = {} /\ ev'.match.readable = {}
             /\ \/ ev.root.st # "ok" /\ ev'.root.st = ev.root.st /\ ev'.match.st = ev.root.st
                \/ ev.root.st = "ok" /\ ev'.root.st = "failed" /\ ev'.match.st = "failed"
    <2>1. /\ ev.root.st \in Probed /\ ev.root.st # "quiet"
          /\ ev.root.st = "missing_root" => ev.root.kind = "absent"
      BY <1>1 DEF Coherent, RootCoherent, Evidence, RootPart
    <2>2. MatchCoherent(ev)'
      BY <1>1, <1>4, <1>5, <1>6, <2>1 DEF MatchCoherent, Probed
    <2>3. RootCoherent(ev)' /\ ExactCoherent(ev)'
      BY <1>1, <1>5, <1>6 DEF Coherent, RootCoherent, ExactCoherent, RootUnsafe, RootExists, ExactUnsafe
    <2>4. ev'.match.st # "none"
      BY <1>6, <2>1 DEF Probed
    <2> QED
      BY <1>1, <1>6, <2>2, <2>3, <2>4 DEF Coherent
  <1>7. CASE /\ ev.root.st = "ok" /\ ev'.root.st = "ok" /\ guest.root = "dir"
             /\ ev'.match.st = IF short \/ Cardinality(found) > MaxFiles THEN "partial" ELSE "none"
             /\ ev'.match.n = Cardinality(found) /\ ev'.match.readable = {}
             /\ ev'.match.files = IF Cardinality(found) > 0 THEN kept ELSE {}
    BY <1>1, <1>3, <1>4, <1>5, <1>7, CountOfNone
       DEF Coherent, RootCoherent, MatchCoherent, ExactCoherent, RootUnsafe,
                                  RootExists, ExactUnsafe
  <1> QED
    BY <1>5, <1>6, <1>7

LEMMA ParentCoherent == Types /\ Coherent /\ ProbeParent => Coherent'
  <1> SUFFICES ASSUME Types, Coherent, ProbeParent PROVE Coherent'
    OBVIOUS
  <1>1. /\ pc = "parent" /\ pc' = (IF spec.exact THEN "exact" ELSE "files") /\ spec' = spec
        /\ ev'.root = ev.root /\ ev'.match = ev.match /\ ev'.exact = ev.exact
    BY DEF ProbeParent, Call, Types, Evidence
  <1> QED
    BY <1>1 DEF Coherent, RootCoherent, MatchCoherent, ExactCoherent, RootUnsafe, RootExists, ExactUnsafe

LEMMA ExactCoherentKept == Types /\ Sane /\ Coherent /\ ProbeExact => Coherent'
  <1> SUFFICES ASSUME Types, Sane, Coherent, ProbeExact PROVE Coherent'
    OBVIOUS
  <1>1. /\ pc = "exact" /\ pc' = "files" /\ spec' = spec /\ ev'.parent = ev.parent
        /\ ev'.root = ev.root /\ ev'.match = ev.match /\ ev'.exact = ExactRecord
    BY DEF ProbeExact, Call, Types, Evidence
  <1>2. ExactCoherent(ev)'
    BY <1>1 DEF ExactCoherent, ExactRecord, AbsentExactStatus, ExactUnsafe, Types, Evidence, Guests,
                Sane, FileKinds
  <1> QED
    BY <1>1, <1>2 DEF Coherent, RootCoherent, MatchCoherent, RootUnsafe, RootExists

LEMMA FilesCoherent == Types /\ Coherent /\ MeasureFiles => Coherent'
  <1> SUFFICES ASSUME Types, Coherent, MeasureFiles PROVE Coherent'
    OBVIOUS
  <1>1. /\ pc = "files" /\ pc' = "reply" /\ spec' = spec
        /\ ev'.root = ev.root /\ ev'.exact = ev.exact /\ ev'.parent = ev.parent
        /\ ev'.match.n = ev.match.n /\ ev'.match.files = ev.match.files
    BY DEF MeasureFiles, Call, Types, Evidence, MatchPart
  <1>2. CASE ~spec.root
    BY <1>1, <1>2 DEF MeasureFiles, Call, Coherent, RootCoherent, MatchCoherent, ExactCoherent, ExactUnsafe
  <1>3. CASE spec.root
    <2>1. ev'.match.st = FileStatus(ReadableNow) /\ ev'.match.readable = ReadableNow
      BY <1>3 DEF MeasureFiles, Call, Types, Evidence, MatchPart
    <2>2. ReadableNow \subseteq ev.match.files
      BY DEF ReadableNow
    <2>3. MatchCoherent(ev)'
      <3>1. ev.match.n \in Nat
        BY DEF Types, Evidence, MatchPart
      <3> QED
        BY <1>1, <1>3, <2>1, <3>1 DEF FileStatus, MatchCoherent, Coherent
    <2> QED
      BY <1>1, <2>1, <2>2, <2>3 DEF Coherent, RootCoherent, ExactCoherent, RootUnsafe, RootExists, ExactUnsafe
  <1> QED
    BY <1>2, <1>3

\* What a reply holds, for each of its sizes.
LEMMA ReplyParts ==
    ASSUME Types, NEW kind \in {"whole", "cut", "bare"}
    PROVE  LET r == Reply(kind)
               e == IF ~ev.mounts THEN Unseen("unavailable")
                    ELSE IF ev.late THEN Unseen("partial") ELSE ev
               m == [st |-> "partial", n |-> 0, files |-> {}, readable |-> {}]
           IN  /\ r.reply = kind /\ r.alloy = ev.alloy /\ r.mounts = ev.mounts /\ r.late = ev.late
               /\ r.short = ev.short
               /\ r.match = IF kind = "whole" THEN e.match ELSE m
               /\ r.root = IF kind = "bare" THEN [st |-> "partial", kind |-> "absent", anc |-> FALSE]
                                            ELSE e.root
               /\ r.exact = IF kind = "bare" THEN [st |-> "partial", kind |-> "absent"] ELSE e.exact
               /\ r.parent = IF kind = "bare" THEN "unknown" ELSE e.parent
  <1> DEFINE e == IF ~ev.mounts THEN Unseen("unavailable") ELSE IF ev.late THEN Unseen("partial") ELSE ev
  <1>1. e \in Evidence
    <2>1. Unseen("unavailable") \in Evidence /\ Unseen("partial") \in Evidence
      BY NoEvidenceType DEF Unseen, Evidence, RootPart, MatchPart, ExactPart, Probed
    <2> QED
      BY <2>1 DEF Types
  <1> HIDE DEF e
  <1> SUFFICES /\ Reply(kind).reply = kind /\ Reply(kind).alloy = ev.alloy
               /\ Reply(kind).mounts = ev.mounts /\ Reply(kind).late = ev.late
               /\ Reply(kind).short = ev.short
               /\ Reply(kind).match = IF kind = "whole" THEN e.match
                                      ELSE [st |-> "partial", n |-> 0, files |-> {}, readable |-> {}]
               /\ Reply(kind).root = IF kind = "bare"
                                     THEN [st |-> "partial", kind |-> "absent", anc |-> FALSE]
                                     ELSE e.root
               /\ Reply(kind).exact = IF kind = "bare" THEN [st |-> "partial", kind |-> "absent"]
                                      ELSE e.exact
               /\ Reply(kind).parent = IF kind = "bare" THEN "unknown" ELSE e.parent
    BY DEF e
  <1>2. Reply(kind) =
          LET cut == [e EXCEPT !.match = [st |-> "partial", n |-> 0, files |-> {}, readable |-> {}]]
              out == CASE kind = "whole" -> e
                       [] kind = "cut"   -> cut
                       [] kind = "bare"  -> [cut EXCEPT !.root = [st |-> "partial", kind |-> "absent", anc |-> FALSE],
                                              !.exact = [st |-> "partial", kind |-> "absent"],
                                              !.parent = "unknown"]
          IN [out EXCEPT !.alloy = ev.alloy, !.mounts = ev.mounts, !.late = ev.late,
                         !.short = ev.short, !.reply = kind]
    BY DEF Reply, e
  <1>3. CASE kind = "whole"
    BY <1>1, <1>2, <1>3 DEF Evidence
  <1>4. CASE kind = "cut"
    BY <1>1, <1>2, <1>4 DEF Evidence
  <1>5. CASE kind = "bare"
    BY <1>1, <1>2, <1>5 DEF Evidence
  <1> QED
    BY <1>3, <1>4, <1>5

LEMMA ReplyCoherent == Types /\ Coherent /\ SendReply => Coherent'
  <1> SUFFICES ASSUME Types, Coherent, SendReply PROVE Coherent'
    OBVIOUS
  <1>1. PICK kind \in {"whole", "cut", "bare"} : Call("reply", "resolve", Reply(kind))
    BY DEF SendReply
  <1>2. pc = "reply" /\ pc' = "resolve" /\ spec' = spec /\ ev' = Reply(kind)
    BY <1>1 DEF Call
  <1> DEFINE e == IF ~ev.mounts THEN Unseen("unavailable") ELSE IF ev.late THEN Unseen("partial") ELSE ev
             m == [st |-> "partial", n |-> 0, files |-> {}, readable |-> {}]
  <1>3. Cardinality({}) = 0
    BY CountOfNone
  <1>4. /\ RootCoherent(e) /\ MatchCoherent(e) /\ ExactCoherent(e)
        /\ e.match.readable \subseteq e.match.files /\ (~spec.root => e.match.files = {})
    <2>1. ASSUME NEW st \in {"unavailable", "partial"}
          PROVE  LET u == Unseen(st) IN
                 /\ RootCoherent(u) /\ MatchCoherent(u) /\ ExactCoherent(u)
                 /\ u.match.readable \subseteq u.match.files /\ u.match.files = {}
      BY <1>3 DEF Unseen, NoEvidence, RootCoherent, MatchCoherent, ExactCoherent, RootUnsafe, RootExists,
                  ExactUnsafe, ExactExists
    <2> QED
      BY <1>2, <2>1 DEF Coherent
  <1>5. /\ ev'.match = IF kind = "whole" THEN e.match ELSE m
        /\ ev'.root = IF kind = "bare" THEN [st |-> "partial", kind |-> "absent", anc |-> FALSE]
                                       ELSE e.root
        /\ ev'.exact = IF kind = "bare" THEN [st |-> "partial", kind |-> "absent"] ELSE e.exact
        /\ ev'.parent = IF kind = "bare" THEN "unknown" ELSE e.parent
    BY <1>2, ReplyParts
  <1> HIDE DEF e
  <1>6. RootCoherent(ev)'
    BY <1>2, <1>4, <1>5 DEF RootCoherent, RootUnsafe, RootExists
  <1>7. /\ MatchCoherent(ev)' /\ ev'.match.readable \subseteq ev'.match.files
        /\ ~spec.root => ev'.match.files = {}
    BY <1>2, <1>3, <1>4, <1>5 DEF MatchCoherent
  <1>8. ExactCoherent(ev)'
    BY <1>2, <1>4, <1>5 DEF ExactCoherent, ExactUnsafe
  <1> QED
    BY <1>2, <1>6, <1>7, <1>8 DEF Coherent

LEMMA CoherentKept == Types /\ Sane /\ Coherent /\ [Next]_vars => Coherent'
  <1> SUFFICES ASSUME Types, Sane, Coherent, [Next]_vars PROVE Coherent'
    OBVIOUS
  <1> USE DEF Coherent, RootCoherent, MatchCoherent, ExactCoherent, RootUnsafe, RootExists, ExactUnsafe
  <1>1. CASE ChangeFile \/ ChangeRoot \/ ChangeExact
    BY <1>1, GuestType
  <1>2. CASE StartRepair \/ RepairFails \/ GrantAbove \/ OpenRoot \/ GrantDir \/ GrantFiles \/ OpenExact
    BY <1>2, RepairType
  <1>3. CASE FinishRepair
    BY <1>3, EmptyCoherent DEF FinishRepair
  <1>4. CASE Resolve \/ Done \/ UNCHANGED vars
    BY <1>4 DEF Resolve, Done, vars
  <1> QED
    BY <1>1, <1>2, <1>3, <1>4, EnvCoherent, RootCoherentKept, WalkCoherent, ParentCoherent,
       ExactCoherentKept, FilesCoherent, ReplyCoherent DEF Next

(***************************************************************************)
(* The manager's verdict, flag by flag.                                    *)
(***************************************************************************)
RootRaises(e) ==
    IF RootUnsafe(e) THEN "blocked"
    ELSE CASE e.root.st = "missing_root" -> IF spec.required THEN "blocked" ELSE "inactive"
           [] e.root.st = "unavailable"  -> "unmeasurable"
           [] e.root.st = "failed"       -> "blocked"
           [] e.root.st = "partial"      -> "partial"
           [] e.root.st = "denied"       -> "acl-needed"
           [] OTHER                      -> "active"

MatchRaises(e) ==
    CASE e.match.st = "unavailable"  -> "unmeasurable"
      [] e.match.st = "failed"       -> "blocked"
      [] e.match.st = "partial"      -> "partial"
      [] e.match.st = "denied"       -> "acl-needed"
      [] OTHER -> IF e.match.readable # e.match.files THEN "acl-needed" ELSE "nothing"

ExactRaises(e) ==
    IF ExactUnsafe(e) THEN "blocked"
    ELSE CASE e.exact.st = "unavailable" -> "unmeasurable"
           [] e.exact.st = "failed"      -> "blocked"
           [] e.exact.st = "partial"     -> "partial"
           [] e.exact.st = "denied"      -> "acl-needed"
           [] OTHER -> IF ExactExists(e) /\ e.parent = "no" THEN "acl-needed"
                       ELSE IF ExactExists(e) \/ e.parent = "yes" THEN "active"
                       ELSE IF spec.required THEN "blocked" ELSE "inactive"

\* A flag of a verdict is one that root, pattern or exact file raises.
LEMMA Flags ==
    ASSUME NEW e, NEW flag, flag # "nothing"
    PROVE  flag \in Raised(e) <=> \/ spec.root /\ RootRaises(e) = flag
                                  \/ spec.root /\ MatchRaises(e) = flag
                                  \/ spec.exact /\ ExactRaises(e) = flag
  <1>1. Raised(e) =
          (IF ~spec.root THEN {} ELSE {RootRaises(e)} \cup
              (IF MatchRaises(e) = "nothing" THEN {} ELSE {MatchRaises(e)}))
          \cup (IF ~spec.exact THEN {} ELSE {ExactRaises(e)})
    <2>1. ASSUME spec.root
          PROVE (IF RootUnsafe(e) THEN {"blocked"}
                 ELSE CASE e.root.st = "missing_root" -> {IF spec.required THEN "blocked" ELSE "inactive"}
                   [] e.root.st = "unavailable"  -> {"unmeasurable"}
                   [] e.root.st = "failed"       -> {"blocked"}
                   [] e.root.st = "partial"      -> {"partial"}
                   [] e.root.st = "denied"       -> {"acl-needed"}
                   [] OTHER                      -> {"active"}) = {RootRaises(e)}
      BY DEF RootRaises
    <2>2. (CASE e.match.st = "unavailable"  -> {"unmeasurable"}
              [] e.match.st = "failed"       -> {"blocked"}
              [] e.match.st = "partial"      -> {"partial"}
              [] e.match.st = "denied"       -> {"acl-needed"}
              [] OTHER -> IF e.match.readable # e.match.files THEN {"acl-needed"} ELSE {})
          = IF MatchRaises(e) = "nothing" THEN {} ELSE {MatchRaises(e)}
      BY DEF MatchRaises
    <2>3. (IF ExactUnsafe(e) THEN {"blocked"}
           ELSE CASE e.exact.st = "unavailable" -> {"unmeasurable"}
            [] e.exact.st = "failed"      -> {"blocked"}
            [] e.exact.st = "partial"     -> {"partial"}
            [] e.exact.st = "denied"      -> {"acl-needed"}
            [] OTHER -> {IF ExactExists(e) /\ e.parent = "no" THEN "acl-needed"
                         ELSE IF ExactExists(e) \/ e.parent = "yes" THEN "active"
                         ELSE IF spec.required THEN "blocked" ELSE "inactive"}) = {ExactRaises(e)}
      BY DEF ExactRaises
    <2> QED
      BY <2>1, <2>2, <2>3, Zenon DEF Raised
  <1>2. CASE spec.root
    <2>1. flag \in {RootRaises(e)} <=> RootRaises(e) = flag
      OBVIOUS
    <2>2. flag \in (IF MatchRaises(e) = "nothing" THEN {} ELSE {MatchRaises(e)})
          <=> MatchRaises(e) = flag
      OBVIOUS
    <2> QED
      BY <1>1, <1>2, <2>1, <2>2
  <1>3. CASE ~spec.root
    BY <1>1, <1>3
  <1> QED
    BY <1>2, <1>3

\* What the helper's summary "ok" says.
LEMMA RollupOk ==
    ASSUME NEW e, Rollup(e) = "ok"
    PROVE  /\ spec.root => /\ e.root.st \notin {"failed", "unavailable", "partial", "denied"}
                           /\ e.match.st \notin {"failed", "unavailable", "partial", "denied"}
           /\ spec.exact => e.exact.st \notin {"failed", "unavailable", "partial", "denied"}
           /\ e.match.readable = e.match.files
           /\ spec.required => /\ spec.root => e.root.st # "missing_root"
                               /\ spec.exact => e.exact.st # "missing_root" \/ e.parent = "yes"
           /\ \/ spec.root /\ e.root.st = "ok"
              \/ spec.exact /\ (e.exact.kind # "absent" \/ e.parent = "yes")
  <1> DEFINE roots == IF spec.root THEN {e.root.st} ELSE {}
             exacts == IF spec.exact THEN {e.exact.st} ELSE {}
             all == roots \cup exacts \cup (IF spec.root THEN {e.match.st} ELSE {})
  <1>1. /\ "failed" \notin all /\ "unavailable" \notin all /\ "partial" \notin all
        /\ "denied" \notin all /\ e.match.readable = e.match.files
        /\ ~(spec.required /\ ("missing_root" \in roots
                                 \/ ("missing_root" \in exacts /\ e.parent # "yes")))
        /\ \/ "ok" \in roots \/ (spec.exact /\ e.exact.kind # "absent")
           \/ spec.exact /\ e.exact.kind = "absent" /\ e.parent = "yes"
    BY DEF Rollup
  <1> QED
    BY <1>1

LEMMA HonestSummary ==
    ASSUME Types, NEW e \in Evidence,
           RootCoherent(e), MatchCoherent(e), ExactCoherent(e), Rollup(e) = "ok"
    PROVE  Computed(e) \in {"active", "quiet"}
  <1> DEFINE st == {"failed", "unavailable", "partial", "denied"}
  <1>1. spec.root => RootRaises(e) \in {"active", "inactive"}
    <2> SUFFICES ASSUME spec.root PROVE RootRaises(e) \in {"active", "inactive"}
      OBVIOUS
    <2>1. e.root.st \notin st /\ (spec.required => e.root.st # "missing_root") /\ ~RootUnsafe(e)
      BY RollupOk DEF RootCoherent
    <2> QED
      BY <2>1 DEF RootRaises
  <1>2. spec.root => MatchRaises(e) = "nothing"
    BY RollupOk DEF MatchRaises
  <1>3. spec.exact => ExactRaises(e) \in {"active", "inactive"}
    <2> SUFFICES ASSUME spec.exact PROVE ExactRaises(e) \in {"active", "inactive"}
      OBVIOUS
    <2>1. e.exact.st \notin st /\ e.exact.st \in Probed /\ ~ExactUnsafe(e)
      BY RollupOk DEF ExactCoherent, Evidence, ExactPart
    <2>2. e.exact.st = "ok" => e.parent = "yes"
      BY DEF ExactCoherent
    <2>3. ExactExists(e) => e.exact.st = "ok"
      BY <2>1 DEF ExactCoherent, ExactExists, Probed
    <2>4. spec.required /\ e.exact.st = "missing_root" => e.parent = "yes"
      BY RollupOk
    <2>5. e.exact.st = "quiet" => e.parent = "yes" \/ ~spec.required
      BY DEF ExactCoherent
    <2> QED
      BY <2>1, <2>2, <2>3, <2>4, <2>5 DEF ExactRaises, Probed
  <1>4. \/ spec.root /\ RootRaises(e) = "active"
        \/ spec.exact /\ ExactRaises(e) = "active"
    <2>1. CASE spec.root /\ e.root.st = "ok"
      BY <2>1 DEF RootRaises, RootCoherent
    <2>2. CASE spec.exact /\ (e.exact.kind # "absent" \/ e.parent = "yes")
      BY <1>3, <2>2 DEF ExactRaises, ExactExists
    <2> QED
      BY <2>1, <2>2, RollupOk
  <1>5. /\ "blocked" \notin Raised(e) /\ "unmeasurable" \notin Raised(e)
        /\ "partial" \notin Raised(e) /\ "acl-needed" \notin Raised(e) /\ "active" \in Raised(e)
    BY <1>1, <1>2, <1>3, <1>4, Flags
  <1> QED
    BY <1>5 DEF Computed

LEMMA HonestEvidence ==
    ASSUME Types, Coherent, pc = "resolve"
    PROVE  ~Contradictory(ev)
  <1>1. /\ ev \in Evidence /\ RootCoherent(ev) /\ MatchCoherent(ev) /\ ExactCoherent(ev)
        /\ ev.match.readable \subseteq ev.match.files
    BY DEF Types, Coherent
  <1>2. spec.root /\ ~RootUnsafe(ev) =>
          /\ ~(ev.root.st = "missing_root" /\ RootExists(ev))
          /\ ~(ev.root.st \in {"ok", "quiet"} /\ ~RootExists(ev))
    BY <1>1 DEF RootCoherent, RootExists
  <1>3. spec.root => LET n == ev.match.n
                         k == Cardinality(ev.match.files) IN
          /\ ~(n < k) /\ ~(ev.match.st \in {"ok", "quiet"} /\ n # k)
          /\ ~(ev.match.st = "quiet" /\ n > 0)
          /\ ~(ev.match.st = "missing_root" /\ (RootExists(ev) \/ ev.match.files # {}))
          /\ ~(ev.match.st \in {"ok", "quiet"} /\ ~RootExists(ev))
    <2>1. ev.match.n \in Nat /\ ev.match.files \in SUBSET Files
      BY <1>1 DEF Evidence, MatchPart
    <2>2. Cardinality(ev.match.files) \in Nat
      BY <2>1, CountOfFiles
    <2> QED
      BY <1>1, <2>1, <2>2 DEF MatchCoherent, RootExists
  <1>4. spec.exact =>
          /\ ~(ev.exact.st = "missing_root" /\ (ExactExists(ev) \/ ev.parent = "yes"))
          /\ ~(ev.exact.st = "quiet" /\ ExactExists(ev))
          /\ ~(ev.exact.st = "ok" /\ ~ExactExists(ev))
    BY <1>1 DEF ExactCoherent, ExactExists
  <1>5. ~(Supplied(ev) = "ok" /\ Computed(ev) \notin {"active", "quiet"})
    BY <1>1, HonestSummary DEF Supplied
  <1> QED
    BY <1>2, <1>3, <1>4, <1>5 DEF Contradictory

LEMMA NeverContradictsKept ==
    Types /\ Coherent /\ NeverContradicts /\ [Next]_vars => NeverContradicts'
  <1> SUFFICES ASSUME Types, Coherent, NeverContradicts, [Next]_vars PROVE NeverContradicts'
    OBVIOUS
  <1> USE DEF NeverContradicts
  <1>1. CASE ChangeFile \/ ChangeRoot \/ ChangeExact
    BY <1>1, GuestType
  <1>2. CASE ReadEnv \/ ProbeRoot \/ WalkRoot \/ ProbeParent \/ ProbeExact \/ MeasureFiles \/ SendReply
    BY <1>2, MeasureStays
  <1>3. CASE StartRepair \/ RepairFails \/ GrantAbove \/ OpenRoot \/ GrantDir \/ GrantFiles \/ OpenExact
    BY <1>3, RepairType
  <1>4. CASE Resolve
    <2>1. verdict' = Lowered(Computed(ev), Supplied(ev))
      BY <1>4, HonestEvidence DEF Resolve, Resolved
    <2>2. Lowered(Computed(ev), Supplied(ev)) \in Verdicts
      BY DEF Lowered, Computed, Verdicts
    <2> QED
      BY <2>1, <2>2 DEF Verdicts
  <1>5. CASE FinishRepair \/ Done \/ UNCHANGED vars
    BY <1>5 DEF FinishRepair, Done, vars
  <1> QED
    BY <1>1, <1>2, <1>3, <1>4, <1>5 DEF Next

(***************************************************************************)
(* What the measurement keeps of the helper's circumstances.               *)
(***************************************************************************)
LEMMA MeasuredKept == Types /\ Coherent /\ Measured /\ [Next]_vars => Measured'
  <1> SUFFICES ASSUME Types, Coherent, Measured, [Next]_vars PROVE Measured'
    OBVIOUS
  <1> USE DEF Looked
  <1>1. CASE ChangeFile \/ ChangeRoot \/ ChangeExact
    BY <1>1, GuestType DEF Measured, Blank
  <1>2. CASE StartRepair \/ RepairFails \/ GrantAbove \/ OpenRoot \/ GrantDir \/ GrantFiles \/ OpenExact
    BY <1>2, RepairType DEF Measured
  <1>3. CASE ReadEnv
    <2>1. PICK late \in BOOLEAN :
          Call("env", IF guest.mounts /\ ~late THEN "root" ELSE "reply",
               [NoEvidence EXCEPT !.alloy = guest.alloy, !.mounts = guest.mounts, !.late = late])
      BY <1>3 DEF ReadEnv
    <2>2. /\ ev'.alloy = guest.alloy /\ ev'.mounts = guest.mounts /\ ev'.late = late
          /\ ev'.reply = "whole" /\ ~ev'.short /\ guest' = guest
          /\ pc' = IF guest.mounts /\ ~late THEN "root" ELSE "reply"
      BY <2>1 DEF Call, NoEvidence
    <2> QED
      BY <2>2 DEF Measured, Types, Guests
  <1>4. CASE ProbeRoot
    <2>1. /\ ev'.alloy = ev.alloy /\ ev'.mounts = ev.mounts /\ ev'.late = ev.late
          /\ ev'.reply = ev.reply /\ ev'.short = ev.short /\ ev'.match = ev.match
          /\ guest' = guest /\ pc = "root" /\ pc' \in {"walk", "parent"} /\ spec' = spec
      BY <1>4 DEF ProbeRoot, Call, Types, Evidence
    <2> QED
      BY <2>1 DEF Measured
  <1>5. CASE WalkRoot
    <2>1. PICK short \in BOOLEAN, found \in SUBSET There(guest) : \E kept \in SUBSET found :
             LET e == Walked(found, short) IN
             ev' = IF e.match.n > 0 THEN [e EXCEPT !.match.files = kept] ELSE e
      BY <1>5, WalkEvidence
    <2>2. pc = "walk" /\ pc' = "parent" /\ guest' = guest /\ spec' = spec /\ spec.root
      BY <1>5, WalkEvidence DEF Call, Coherent
    <2>3. Walked(found, short) \in Evidence /\ ev \in Evidence
      BY WalkedType DEF There, Types
    <2>4. LET e == Walked(found, short) IN
          /\ e.alloy = ev.alloy /\ e.mounts = ev.mounts /\ e.late = ev.late
          /\ e.reply = ev.reply /\ (e.short => ev.short \/ e.match.st = "partial")
      <3>1. CASE ev.root.st # "ok"
        BY <2>3, <3>1 DEF Walked, Evidence, MatchPart
      <3>2. CASE ev.root.st = "ok" /\ (guest.root # "dir" \/ \E f \in Files : guest.files[f] \in {"link", "mount"})
        BY <2>3, <3>2 DEF Walked, Evidence, MatchPart, RootPart
      <3>3. CASE ev.root.st = "ok" /\ ~(guest.root # "dir" \/ \E f \in Files : guest.files[f] \in {"link", "mount"})
        BY <2>3, <3>3 DEF Walked, Evidence, MatchPart, RootPart
      <3> QED
        BY <3>1, <3>2, <3>3
    <2>5. /\ ev'.alloy = ev.alloy /\ ev'.mounts = ev.mounts /\ ev'.late = ev.late
          /\ ev'.reply = ev.reply /\ (ev'.short => ev.short \/ ev'.match.st = "partial")
      <3> HIDE DEF Looked
      <3> DEFINE e == Walked(found, short)
      <3>1. PICK kept \in SUBSET found : ev' = IF e.match.n > 0 THEN [e EXCEPT !.match.files = kept] ELSE e
        BY <2>1
      <3> HIDE DEF e
      <3>2. e \in Evidence
        BY <2>3 DEF e
      <3>3. /\ ev'.alloy = e.alloy /\ ev'.mounts = e.mounts /\ ev'.late = e.late
            /\ ev'.reply = e.reply /\ ev'.short = e.short /\ ev'.match.st = e.match.st
        BY <3>1, <3>2 DEF Evidence, MatchPart
      <3> QED
        BY <2>4, <3>3 DEF e
    <2> QED
      BY <2>2, <2>5 DEF Measured
  <1>6. CASE ProbeParent
    <2>1. /\ ev'.alloy = ev.alloy /\ ev'.mounts = ev.mounts /\ ev'.late = ev.late
          /\ ev'.reply = ev.reply /\ ev'.short = ev.short /\ ev'.match = ev.match
          /\ guest' = guest /\ pc = "parent" /\ pc' \in {"exact", "files"} /\ spec' = spec
      BY <1>6 DEF ProbeParent, Call, Types, Evidence
    <2> QED
      BY <2>1 DEF Measured
  <1>7. CASE ProbeExact
    <2>1. /\ ev'.alloy = ev.alloy /\ ev'.mounts = ev.mounts /\ ev'.late = ev.late
          /\ ev'.reply = ev.reply /\ ev'.short = ev.short /\ ev'.match = ev.match
          /\ guest' = guest /\ pc = "exact" /\ pc' = "files" /\ spec' = spec
      BY <1>7 DEF ProbeExact, Call, Types, Evidence
    <2> QED
      BY <2>1 DEF Measured
  <1>8. CASE MeasureFiles
    <2>1. /\ ev'.alloy = ev.alloy /\ ev'.mounts = ev.mounts /\ ev'.late = ev.late
          /\ ev'.reply = ev.reply /\ ev'.short = ev.short
          /\ ev.match.st = "partial" => ev'.match.st = "partial"
          /\ guest' = guest /\ pc = "files" /\ pc' = "reply" /\ spec' = spec
      BY <1>8 DEF MeasureFiles, FileStatus, Call, Types, Evidence, MatchPart
    <2> QED
      BY <2>1 DEF Measured
  <1>9. CASE SendReply
    <2>1. PICK kind \in {"whole", "cut", "bare"} : Call("reply", "resolve", Reply(kind))
      BY <1>9 DEF SendReply
    <2>2. pc = "reply" /\ pc' = "resolve" /\ spec' = spec /\ guest' = guest /\ ev' = Reply(kind)
      BY <2>1 DEF Call
    <2>3. /\ ev'.reply = kind /\ ev'.alloy = ev.alloy /\ ev'.mounts = ev.mounts /\ ev'.late = ev.late
          /\ ev'.short = ev.short
      BY <2>2, ReplyParts
    <2>4. kind # "whole" => ev'.match.st = "partial"
      BY <2>2, ReplyParts
    <2>5. kind = "whole" /\ Looked => ev'.match = ev.match
      BY <2>2, ReplyParts
    <2>6. kind = "whole" /\ ~Looked =>
            LET u == Unseen(IF ev.mounts THEN "partial" ELSE "unavailable") IN
            ev'.match = u.match /\ ev'.root = u.root /\ ev'.exact = u.exact /\ ev'.parent = u.parent
      BY <2>2, ReplyParts
    <2>7. kind = "whole" /\ ~Looked =>
            Blank(IF ev.mounts THEN "partial" ELSE "unavailable")'
      <3>1. ASSUME kind = "whole", ~Looked, NEW st, st = IF ev.mounts THEN "partial" ELSE "unavailable"
            PROVE  /\ ev'.root.st = st /\ ev'.root.kind = "absent" /\ ~ev'.root.anc
                   /\ ev'.match.st = st /\ ev'.match.files = {} /\ ev'.match.readable = {}
                   /\ ev'.exact.st = st /\ ev'.exact.kind = "absent" /\ ev'.parent = "unknown"
        BY <2>6, <3>1 DEF Unseen, NoEvidence
      <3> QED
        BY <2>3, <3>1 DEF Blank
    <2>8. ev.short /\ kind = "whole" /\ Looked => spec.root /\ ev.match.st = "partial"
      BY <2>2 DEF Measured
    <2> QED
      BY <2>2, <2>3, <2>4, <2>5, <2>7, <2>8 DEF Measured
  <1>10. CASE FinishRepair
    BY <1>10 DEF FinishRepair, Measured, NoEvidence
  <1>11. CASE Resolve
    <2>1. UNCHANGED <<ev, guest, spec>> /\ pc = "resolve" /\ pc' \in {"repair", "done"}
      BY <1>11 DEF Resolve
    <2> QED
      BY <2>1 DEF Measured
  <1>12. CASE Done \/ UNCHANGED vars
    BY <1>12 DEF Done, vars, Measured, Blank
  <1> QED
    BY <1>1, <1>2, <1>3, <1>4, <1>5, <1>6, <1>7, <1>8, <1>9, <1>10, <1>11, <1>12 DEF Next

(***************************************************************************)
(* What an undisturbed measurement finds.                                  *)
(***************************************************************************)
LEMMA RepairingKept == Repairing /\ [Next]_vars => Repairing'
  <1> SUFFICES ASSUME Repairing, [Next]_vars PROVE Repairing'
    OBVIOUS
  <1>1. CASE ChangeFile \/ ChangeRoot \/ ChangeExact
    BY <1>1 DEF ChangeFile, ChangeRoot, ChangeExact, Change, Repairing
  <1>2. CASE ReadEnv \/ ProbeRoot \/ WalkRoot \/ ProbeParent \/ ProbeExact \/ MeasureFiles \/ SendReply
    <2>1. pc' \notin {"repair", "above", "open", "dir", "grant", "single", "finish"}
      BY <1>2 DEF ReadEnv, ProbeRoot, WalkRoot, ProbeParent, ProbeExact, MeasureFiles, SendReply, Call
    <2> QED
      BY <2>1 DEF Repairing
  <1>3. CASE StartRepair \/ RepairFails \/ GrantAbove \/ OpenRoot \/ GrantDir \/ GrantFiles \/ OpenExact
    <2>1. pc \in {"repair", "above", "open", "dir", "grant", "single", "finish"} /\ pass' = pass
      BY <1>3 DEF StartRepair, RepairFails, GrantAbove, OpenRoot, GrantDir, GrantFiles, OpenExact,
                  Give, Repair
    <2> QED
      BY <2>1 DEF Repairing
  <1>4. CASE Resolve \/ FinishRepair \/ Done \/ UNCHANGED vars
    BY <1>4 DEF Resolve, FinishRepair, Done, vars, Repairing
  <1> QED
    BY <1>1, <1>2, <1>3, <1>4 DEF Next

LEMMA ProbeRootFollowed == Types /\ Measured /\ Followed /\ ProbeRoot => Followed'
  <1> SUFFICES ASSUME Types, Measured, ProbeRoot PROVE Followed'
    OBVIOUS
  <1>1. /\ pc = "root" /\ UNCHANGED <<spec, guest, settled>> /\ ev.alloy = guest.alloy
        /\ pc' = IF spec.root THEN "walk" ELSE "parent"
    BY DEF ProbeRoot, Call, Measured
  <1>2. CASE ~spec.root
    BY <1>1, <1>2 DEF Followed, RootFaithful, WalkFaithful
  <1>3. CASE spec.root
    <2>1. ev'.root = RootRecord
      BY <1>3 DEF ProbeRoot, Call, Types, Evidence
    <2>2. RootRecord.st = RootStatus(guest)
      BY <1>1 DEF RootRecord, RootStatus
    <2>3. RootFaithful'
      BY <1>1, <2>1 DEF RootRecord, RootFaithful
    <2>4. (ev.root.st = RootStatus(guest))'
      BY <1>1, <2>1, <2>2
    <2> QED
      BY <1>1, <1>3, <2>3, <2>4 DEF Followed
  <1> QED
    BY <1>2, <1>3

LEMMA StatusOfRoot ==
    ASSUME NEW g PROVE RootStatus(g) \in {"missing_root", "failed", "unavailable", "ok", "denied"}
  BY DEF RootStatus

LEMMA WalkFollowed == Types /\ Coherent /\ Measured /\ Followed /\ WalkRoot => Followed'
  <1> SUFFICES ASSUME Types, Coherent, Measured, Followed, WalkRoot, settled PROVE Followed'
    BY WalkEvidence DEF Followed, Call
  <1>1. /\ pc = "walk" /\ pc' = "parent" /\ spec' = spec /\ spec.root /\ guest' = guest
        /\ ev \in Evidence /\ ev' \in Evidence /\ ev.match = NoEvidence.match
        /\ RootFaithful /\ ev.root.st = RootStatus(guest)
    BY WalkEvidence DEF Call, Coherent, Types, Followed
  <1>2. PICK short \in BOOLEAN, found \in SUBSET There(guest) : \E kept \in SUBSET found :
           /\ short \/ found = There(guest)
           /\ Cardinality(kept) <= Cardinality(found)
           /\ Cardinality(found) <= MaxFiles => kept = found
           /\ LET e == Walked(found, short) IN
              ev' = IF e.match.n > 0 THEN [e EXCEPT !.match.files = kept] ELSE e
    BY WalkEvidence
  <1>3. PICK kept \in SUBSET found :
           /\ Cardinality(found) <= MaxFiles => kept = found
           /\ LET e == Walked(found, short) IN
              ev' = IF e.match.n > 0 THEN [e EXCEPT !.match.files = kept] ELSE e
    BY <1>2
  <1>4. /\ Cardinality({}) = 0 /\ found \in SUBSET Files /\ Cardinality(found) \in Nat
        /\ MaxFiles \in Nat /\ (Cardinality(found) = 0 => found = {})
    BY CountOfNone, CountOfFiles, AccessAssumption DEF There
  <1>5. ev.match.n = 0 /\ ev.match.files = {} /\ ev.match.readable = {}
    BY <1>1 DEF NoEvidence
  <1>6. ev'.root.kind = ev.root.kind /\ ev'.root.anc = ev.root.anc
    <2>1. Walked(found, short).root.kind = ev.root.kind /\ Walked(found, short).root.anc = ev.root.anc
      BY <1>1 DEF Walked, Evidence, MatchPart, RootPart
    <2>2. Walked(found, short) \in Evidence
      BY <1>4, WalkedType
    <2> QED
      BY <1>3, <2>1, <2>2 DEF Evidence
  <1>7. RootFaithful'
    BY <1>1, <1>6 DEF RootFaithful
  <1>8. WalkFaithful' /\ ev'.match.st \notin {"ok", "quiet"}
    <2>1. CASE RootStatus(guest) # "ok"
      <3>1. /\ ev'.root.st = ev.root.st /\ ev'.match.st = ev.root.st
            /\ ev'.match.files = {}
        BY <1>1, <1>3, <1>5, <2>1 DEF Walked, Evidence, MatchPart, RootPart
      <3> QED
        BY <1>1, <2>1, <3>1, StatusOfRoot DEF WalkFaithful
    <2>2. CASE RootStatus(guest) = "ok" /\ Tangled(guest)
      <3>1. ev'.root.st = "failed" /\ ev'.match.st = "failed" /\ ev'.match.files = {}
        BY <1>1, <1>3, <1>5, <2>2 DEF Walked, Tangled, Evidence, MatchPart, RootPart
      <3> QED
        BY <1>1, <2>2, <3>1 DEF WalkFaithful
    <2>3. CASE RootStatus(guest) = "ok" /\ ~Tangled(guest)
      <3>1. guest.root = "dir" /\ ev.root.st = "ok"
        BY <1>1, <2>3 DEF RootStatus
      <3>2. /\ ev'.root.st = "ok" /\ ev'.short = short
            /\ ev'.match.st = IF short \/ Cardinality(found) > MaxFiles THEN "partial" ELSE "none"
            /\ ev'.match.n = Cardinality(found)
            /\ ev'.match.files = IF Cardinality(found) > 0 THEN kept ELSE {}
        BY <1>1, <1>3, <1>4, <2>3, <3>1 DEF Walked, Tangled, Evidence, MatchPart, RootPart
      <3>3. ~ev'.short => /\ ev'.match.n = Cardinality(There(guest))
                          /\ IF Cardinality(There(guest)) > MaxFiles
                             THEN ev'.match.st = "partial"
                             ELSE ev'.match.files = There(guest) /\ ev'.match.st = "none"
        <4> SUFFICES ASSUME ~short PROVE /\ ev'.match.n = Cardinality(There(guest))
                          /\ IF Cardinality(There(guest)) > MaxFiles
                             THEN ev'.match.st = "partial"
                             ELSE ev'.match.files = There(guest) /\ ev'.match.st = "none"
          BY <3>2
        <4>1. found = There(guest)
          BY <1>2
        <4> QED
          BY <1>3, <1>4, <3>2, <4>1
      <3> QED
        BY <1>1, <2>3, <3>2, <3>3 DEF WalkFaithful
    <2> QED
      BY <2>1, <2>2, <2>3
  <1> QED
    BY <1>1, <1>7, <1>8 DEF Followed

LEMMA ParentFollowed == Types /\ Measured /\ Followed /\ ProbeParent => Followed'
  <1> SUFFICES ASSUME Types, Measured, Followed, ProbeParent PROVE Followed'
    OBVIOUS
  <1>1. /\ pc = "parent" /\ UNCHANGED <<spec, guest, settled>> /\ ev.alloy = guest.alloy
        /\ pc' = (IF spec.exact THEN "exact" ELSE "files")
        /\ ev'.root = ev.root /\ ev'.match = ev.match /\ ev'.short = ev.short
    BY DEF ProbeParent, Call, Types, Evidence, Measured
  <1>2. settled => RootFaithful' /\ WalkFaithful' /\ (spec.root => ev.match.st \notin {"ok", "quiet"})'
    BY <1>1 DEF Followed, RootFaithful, WalkFaithful
  <1>3. ParentFaithful'
    BY <1>1 DEF ProbeParent, Call, Types, Evidence, ParentFaithful, ParentStatus, Measurable
  <1>4. ~spec.exact => ExactFaithful'
    BY <1>1 DEF ExactFaithful
  <1> QED
    BY <1>1, <1>2, <1>3, <1>4 DEF Followed

LEMMA ExactFollowed == Types /\ Sane /\ Coherent /\ Measured /\ Followed /\ ProbeExact => Followed'
  <1> SUFFICES ASSUME Types, Sane, Coherent, Measured, Followed, ProbeExact PROVE Followed'
    OBVIOUS
  <1>1. /\ pc = "exact" /\ UNCHANGED <<spec, guest, settled>> /\ ev.alloy = guest.alloy
        /\ pc' = "files" /\ ev'.parent = ev.parent /\ ev'.exact = ExactRecord
        /\ ev'.root = ev.root /\ ev'.match = ev.match /\ ev'.short = ev.short /\ spec.exact
    BY DEF ProbeExact, Call, Types, Evidence, Measured, Coherent
  <1>2. settled => RootFaithful' /\ WalkFaithful' /\ (spec.root => ev.match.st \notin {"ok", "quiet"})'
    BY <1>1 DEF Followed, RootFaithful, WalkFaithful
  <1>3. settled => ParentFaithful'
    BY <1>1 DEF Followed, ParentFaithful
  <1>4. settled => ExactRecord.st = ExactStatus(guest) /\ ExactRecord.kind = guest.exact
    <2> SUFFICES ASSUME settled PROVE ExactRecord.st = ExactStatus(guest)
      BY DEF ExactRecord
    <2>1. ev.parent = ParentStatus(guest)
      BY <1>1 DEF Followed, ParentFaithful
    <2>2. guest.parent \in ParentKinds /\ guest.exact \in FileKinds \cup {"other"}
          /\ guest.alloy \in BOOLEAN /\ guest.meter \in BOOLEAN
      BY DEF Types, Guests
    <2> QED
      BY <1>1, <2>1, <2>2 DEF Sane, ExactRecord, ExactStatus, AbsentExactStatus, Measurable,
                              ParentStatus, ParentKinds
  <1>5. settled => ExactFaithful'
    BY <1>1, <1>4 DEF ExactFaithful
  <1> QED
    BY <1>1, <1>2, <1>3, <1>5 DEF Followed

LEMMA FilesFollowed == Types /\ Coherent /\ Measured /\ Followed /\ MeasureFiles => Followed'
  <1> SUFFICES ASSUME Types, Coherent, Measured, Followed, MeasureFiles, settled PROVE Followed'
    BY DEF MeasureFiles, Call, Followed
  <1>1. /\ pc = "files" /\ UNCHANGED <<spec, guest, settled>> /\ ev.alloy = guest.alloy
        /\ pc' = "reply" /\ ev'.parent = ev.parent /\ ev'.exact = ev.exact /\ ev'.root = ev.root
        /\ ev'.match.n = ev.match.n /\ ev'.match.files = ev.match.files /\ ev'.short = ev.short
    BY DEF MeasureFiles, Call, Types, Evidence, MatchPart, Measured
  <1>2. RootFaithful /\ WalkFaithful /\ (spec.root => ev.match.st \notin {"ok", "quiet"})
        /\ ParentFaithful /\ ExactFaithful
    BY <1>1 DEF Followed
  <1>3. RootFaithful' /\ ParentFaithful' /\ ExactFaithful'
    BY <1>1, <1>2 DEF RootFaithful, ParentFaithful, ExactFaithful
  <1>4. CASE ~spec.root
    BY <1>1, <1>3, <1>4 DEF Followed, Faithful, WalkFaithful, FilesFaithful
  <1>5. CASE spec.root
    <2>1. ev'.match.st = FileStatus(ReadableNow) /\ ev'.match.readable = ReadableNow
      BY <1>5 DEF MeasureFiles, Call, Types, Evidence, MatchPart
    <2>2. ev'.match.st # "none"
      BY <2>1 DEF FileStatus
    <2>3. RootStatus(guest) = "ok" => Measurable /\ guest.root = "dir" /\ Reachable(guest)
      BY <1>1 DEF RootStatus, Measurable
    <2>4. WalkFaithful'
      <3>1. ev.match.st # "none" => ev'.match.st = ev.match.st
        BY <2>1 DEF FileStatus
      <3>2. RootStatus(guest) = "ok" /\ ev.match.st = "none" => ev'.match.st \in {"ok", "quiet"}
        BY <2>1, <2>3 DEF FileStatus
      <3>3. RootStatus(guest) # "none"
        BY StatusOfRoot
      <3> QED
        BY <1>1, <1>2, <3>1, <3>2, <3>3 DEF WalkFaithful
    <2>5. FilesFaithful'
      <3>1. ev'.match.st \in {"ok", "quiet"} => ev.match.st = "none"
        BY <1>2, <1>5, <2>1 DEF FileStatus
      <3> QED
        BY <1>1, <2>1, <2>3, <3>1 DEF FilesFaithful, ReadableNow
    <2> QED
      BY <1>1, <1>3, <2>2, <2>4, <2>5 DEF Followed, Faithful
  <1> QED
    BY <1>4, <1>5

LEMMA ReplyFollowed == Types /\ Measured /\ Followed /\ SendReply => Followed'
  <1> SUFFICES ASSUME Types, Measured, Followed, SendReply PROVE Followed'
    OBVIOUS
  <1>1. PICK kind \in {"whole", "cut", "bare"} : Call("reply", "resolve", Reply(kind))
    BY DEF SendReply
  <1>2. /\ pc = "reply" /\ pc' = "resolve" /\ UNCHANGED <<spec, guest, settled>> /\ ev' = Reply(kind)
    BY <1>1 DEF Call
  <1>3. /\ ev'.reply = kind /\ ev'.mounts = ev.mounts /\ ev'.late = ev.late /\ ev'.short = ev.short
        /\ kind = "whole" /\ Looked => /\ ev'.root = ev.root /\ ev'.match = ev.match
                                       /\ ev'.exact = ev.exact /\ ev'.parent = ev.parent
    BY <1>2, ReplyParts DEF Looked
  <1>4. ASSUME settled, kind = "whole", Looked PROVE Faithful'
    <2>1. Faithful
      BY <1>2, <1>4 DEF Followed
    <2> QED
      BY <1>2, <1>3, <1>4, <2>1 DEF Faithful, RootFaithful, WalkFaithful, FilesFaithful,
                                    ParentFaithful, ExactFaithful
  <1> QED
    BY <1>2, <1>3, <1>4 DEF Followed, Looked

LEMMA FollowedKept == Types /\ Sane /\ Coherent /\ Measured /\ Followed /\ [Next]_vars => Followed'
  <1> SUFFICES ASSUME Types, Sane, Coherent, Measured, Followed, [Next]_vars PROVE Followed'
    OBVIOUS
  <1>1. CASE ChangeFile \/ ChangeRoot \/ ChangeExact
    BY <1>1, GuestType DEF Followed
  <1>2. CASE ReadEnv
    <2>1. PICK late \in BOOLEAN :
          Call("env", IF guest.mounts /\ ~late THEN "root" ELSE "reply",
               [NoEvidence EXCEPT !.alloy = guest.alloy, !.mounts = guest.mounts, !.late = late])
      BY <1>2 DEF ReadEnv
    <2>2. /\ ev'.mounts = guest.mounts /\ ev'.late = late
          /\ pc' = IF guest.mounts /\ ~late THEN "root" ELSE "reply"
      BY <2>1 DEF Call, NoEvidence
    <2> QED
      BY <2>2 DEF Followed, Looked
  <1>3. CASE StartRepair \/ RepairFails \/ GrantAbove \/ OpenRoot \/ GrantDir \/ GrantFiles \/ OpenExact
    BY <1>3, RepairType DEF Followed
  <1>4. CASE Resolve
    <2>1. pc' \in {"repair", "done"}
      BY <1>4 DEF Resolve
    <2> QED
      BY <2>1 DEF Followed
  <1>5. CASE FinishRepair
    BY <1>5 DEF FinishRepair, Followed
  <1>6. CASE Done \/ UNCHANGED vars
    BY <1>6 DEF Done, vars, Followed, Looked, Faithful, RootFaithful, WalkFaithful, FilesFaithful,
                ParentFaithful, ExactFaithful
  <1> QED
    BY <1>1, <1>2, <1>3, <1>4, <1>5, <1>6, ProbeRootFollowed, WalkFollowed, ParentFollowed,
       ExactFollowed, FilesFollowed, ReplyFollowed DEF Next

(***************************************************************************)
(* What an undisturbed repair grants.                                      *)
(***************************************************************************)
LEMMA GrantingKept == Types /\ Sane /\ Repairing /\ Granting /\ [Next]_vars => Granting'
  <1> SUFFICES ASSUME Types, Sane, Repairing, Granting, [Next]_vars PROVE Granting'
    OBVIOUS
  <1>1. CASE ChangeFile \/ ChangeRoot \/ ChangeExact
    BY <1>1, GuestType DEF Granting
  <1>2. CASE ReadEnv \/ ProbeRoot \/ WalkRoot \/ ProbeParent \/ ProbeExact \/ MeasureFiles \/ SendReply
    <2>1. pc' \notin {"open", "dir", "grant", "single", "finish"}
      BY <1>2 DEF ReadEnv, ProbeRoot, WalkRoot, ProbeParent, ProbeExact, MeasureFiles, SendReply, Call
    <2> QED
      BY <1>2, <2>1, MeasureStays DEF Granting, RootGranted, ExactGranted, Reachable
  <1>3. CASE Resolve
    <2>1. pc' \in {"repair", "done"} /\ UNCHANGED <<spec, guest, pass, settled>>
      BY <1>3 DEF Resolve
    <2> QED
      BY <2>1 DEF Granting, RootGranted, ExactGranted, Reachable
  <1>4. CASE StartRepair \/ RepairFails
    <2>1. pc' \in {"above", "failed"} /\ pass' = 1
      BY <1>4 DEF StartRepair, RepairFails, Give, Repair, Repairing
    <2> QED
      BY <2>1, RepairType DEF Granting
  <1>5. CASE GrantAbove
    <2>1. pass = 1 /\ pass' = 1 /\ spec' = spec
      BY <1>5 DEF GrantAbove, Give, Repair, Repairing
    <2>2. CASE UnsafeAbove
      BY <1>5, <2>1, <2>2 DEF GrantAbove, Give, Repair, Granting
    <2>3. CASE ~UnsafeAbove
      <3> DEFINE g == [guest EXCEPT !.anc = IF spec.root /\ @ = "closed" THEN "open" ELSE @,
                           !.parent = IF spec.exact /\ @ = "closed" THEN "open" ELSE @]
      <3>1. guest' = g /\ pc' = IF spec.root THEN "open" ELSE "single"
        BY <1>5, <2>3 DEF GrantAbove, Give, Repair
      <3>2. guest \in Guests
        BY DEF Types
      <3>3. AboveOpen'
        BY <2>1, <2>3, <3>1, <3>2 DEF AboveOpen, UnsafeAbove, Guests
      <3>4. ~spec.root => RootGranted(guest')
        BY DEF RootGranted
      <3> QED
        BY <2>1, <3>1, <3>3, <3>4 DEF Granting, RootGranted
    <2> QED
      BY <2>2, <2>3
  <1>6. CASE OpenRoot
    <2>1. pass = 1 /\ pass' = 1 /\ UNCHANGED <<spec, guest, settled>> /\ pc = "open"
      BY <1>6 DEF OpenRoot, Give, Repair, Repairing
    <2>2. settled => AboveOpen'
      BY <2>1 DEF Granting, AboveOpen
    <2>3. CASE guest.root = "absent"
      <3>1. pc' = (IF spec.exact THEN "single" ELSE "finish") /\ RootGranted(guest)'
        BY <1>6, <2>1, <2>3 DEF OpenRoot, Give, Repair, RootGranted
      <3> QED
        BY <2>1, <2>2, <3>1 DEF Granting
    <2>4. CASE guest.root # "absent" /\ (guest.root # "dir" \/ guest.anc = "unsafe")
      BY <1>6, <2>1, <2>4 DEF OpenRoot, Give, Repair, Granting
    <2>5. CASE guest.root # "absent" /\ ~(guest.root # "dir" \/ guest.anc = "unsafe")
      <3>1. pc' = "dir" /\ held' = {"root"} \cup There(guest)
        BY <1>6, <2>5 DEF OpenRoot, Give, Repair, There
      <3> QED
        BY <2>1, <2>2, <3>1 DEF Granting, There
    <2> QED
      BY <2>3, <2>4, <2>5
  <1>7. CASE GrantDir
    <2>1. pass = 1 /\ pass' = 1 /\ UNCHANGED <<spec, held, settled>> /\ pc = "dir" /\ pc' = "grant"
      BY <1>7 DEF GrantDir, Give, Repair, Repairing
    <2>2. settled => AboveOpen /\ There(guest) \subseteq held /\ "root" \in held
      BY <2>1 DEF Granting
    <2>3. settled => guest' = [guest EXCEPT !.acl = "full"]
      BY <1>7, <2>2 DEF GrantDir, Give, Repair
    <2>4. settled => /\ guest'.acl = "full" /\ guest'.anc = guest.anc
                     /\ guest'.parent = guest.parent /\ guest'.files = guest.files
      BY <2>3 DEF Types, Guests
    <2> QED
      BY <2>1, <2>2, <2>4 DEF Granting, AboveOpen, There
  <1>8. CASE GrantFiles
    <2>1. /\ pass = 1 /\ pass' = 1 /\ UNCHANGED <<spec, settled>> /\ pc = "grant"
          /\ pc' = IF spec.exact THEN "single" ELSE "finish"
      BY <1>8 DEF GrantFiles, Repair, Repairing
    <2>2. settled => AboveOpen /\ There(guest) \subseteq held /\ guest.acl = "full"
      BY <2>1 DEF Granting
    <2> DEFINE reached == UNION {Reached(f) : f \in Files}
    <2>3. held \cap Files \subseteq reached
      BY DEF Reached
    <2>4. guest' = [guest EXCEPT !.files = [f \in Files |->
                      IF f \in reached /\ @[f] = "denied" THEN "ok" ELSE @[f]]]
      BY <1>8 DEF GrantFiles, Repair
    <2> HIDE DEF reached
    <2>5. /\ guest'.acl = guest.acl /\ guest'.anc = guest.anc /\ guest'.parent = guest.parent
          /\ \A f \in Files : guest'.files[f] =
                IF f \in reached /\ guest.files[f] = "denied" THEN "ok" ELSE guest.files[f]
      BY <2>4 DEF Types, Guests
    <2>6. settled => \A f \in Files : guest'.files[f] # "denied"
      BY <2>2, <2>3, <2>5 DEF There
    <2>7. settled => RootGranted(guest)'
      BY <2>1, <2>2, <2>5, <2>6 DEF RootGranted, Reachable, AboveOpen
    <2>8. settled => AboveOpen'
      BY <2>1, <2>2, <2>5 DEF AboveOpen
    <2> QED
      BY <2>1, <2>7, <2>8 DEF Granting
  <1>9. CASE OpenExact
    <2>1. pass = 1 /\ pass' = 1 /\ UNCHANGED <<spec, guest, settled>> /\ pc = "single"
      BY <1>9 DEF OpenExact, Give, Repair, Repairing
    <2>2. settled => AboveOpen' /\ RootGranted(guest)'
      BY <2>1 DEF Granting, AboveOpen, RootGranted, Reachable
    <2>3. \/ pc' = "finish" /\ (guest.exact = "absent" \/ "exact" \in held')
          \/ pc' = "failed"
      BY <1>9 DEF OpenExact, Give, Repair, Sane
    <2> QED
      BY <2>1, <2>2, <2>3 DEF Granting
  <1>10. CASE FinishRepair
    <2>1. pc = "finish" /\ pc' = "env" /\ pass = 1 /\ pass' = 2 /\ UNCHANGED <<spec, settled>>
      BY <1>10 DEF FinishRepair, Repairing
    <2>2. settled => /\ AboveOpen /\ RootGranted(guest)
                     /\ spec.exact => guest.exact = "absent" \/ "exact" \in held
      BY <2>1 DEF Granting
    <2>3. guest' = IF "exact" \in held THEN [guest EXCEPT !.exact = "ok"] ELSE guest
      BY <1>10 DEF FinishRepair
    <2>4. /\ guest'.root = guest.root /\ guest'.anc = guest.anc /\ guest'.acl = guest.acl
          /\ guest'.files = guest.files /\ guest'.parent = guest.parent
          /\ guest'.exact = IF "exact" \in held THEN "ok" ELSE guest.exact
      BY <2>3 DEF Types, Guests
    <2>5. settled => RootGranted(guest)'
      BY <2>1, <2>2, <2>4 DEF RootGranted, Reachable
    <2>6. settled => ExactGranted(guest)'
      BY <2>1, <2>2, <2>4 DEF ExactGranted, AboveOpen
    <2> QED
      BY <2>1, <2>5, <2>6 DEF Granting
  <1>11. CASE Done \/ UNCHANGED vars
    BY <1>11 DEF Done, vars, Granting, RootGranted, ExactGranted, Reachable, AboveOpen, There
  <1> QED
    BY <1>1, <1>2, <1>3, <1>4, <1>5, <1>6, <1>7, <1>8, <1>9, <1>10, <1>11 DEF Next

(***************************************************************************)
(* The manager's verdict.                                                  *)
(***************************************************************************)
LEMMA Priority ==
    ASSUME NEW e
    PROVE  /\ Computed(e) = "blocked" => "blocked" \in Raised(e)
                                         \/ Raised(e) \cap {"unmeasurable", "partial", "acl-needed",
                                                            "active", "inactive"} = {}
           /\ "blocked" \in Raised(e) => Computed(e) = "blocked"
           /\ "unmeasurable" \in Raised(e) => Computed(e) \in {"blocked", "unmeasurable"}
           /\ "partial" \in Raised(e) => Computed(e) \in {"blocked", "unmeasurable", "partial"}
           /\ "acl-needed" \in Raised(e) =>
                Computed(e) \in {"blocked", "unmeasurable", "partial", "acl-needed"}
  BY DEF Computed

\* An honest summary never lowers what the manager computed from the evidence itself.
LEMMA Told ==
    ASSUME Types, Coherent, pc = "resolve"
    PROVE  Lowered(Computed(ev), Rollup(ev)) = Computed(ev)
  <1> DEFINE own == Computed(ev)
             told == Rollup(ev)
             all == (IF spec.root THEN {ev.root.st, ev.match.st} ELSE {})
                    \cup (IF spec.exact THEN {ev.exact.st} ELSE {})
  <1>1. /\ ev \in Evidence /\ RootCoherent(ev) /\ MatchCoherent(ev) /\ ExactCoherent(ev)
        /\ ev.match.readable \subseteq ev.match.files /\ (~spec.root => ev.match.files = {})
        /\ spec.root \/ spec.exact
    BY DEF Types, Coherent
  <1>2. told \in {"failed", "unavailable", "partial", "denied", "ok", "missing_root"}
    BY DEF Rollup
  <1>3. /\ told = "failed" => \/ "failed" \in all
                              \/ spec.required /\ spec.root /\ ev.root.st = "missing_root"
                              \/ spec.required /\ spec.exact /\ ev.exact.st = "missing_root"
                                   /\ ev.parent # "yes"
        /\ told = "unavailable" => "unavailable" \in all
        /\ told = "partial" => "partial" \in all
        /\ told = "denied" => /\ {"failed", "unavailable", "partial"} \cap all = {}
                              /\ "denied" \in all \/ ev.match.readable # ev.match.files
        /\ told = "missing_root" =>
             /\ {"failed", "unavailable", "partial", "denied"} \cap all = {}
             /\ ev.match.readable = ev.match.files
             /\ spec.required => /\ spec.root => ev.root.st # "missing_root"
                                 /\ spec.exact => ev.exact.st # "missing_root" \/ ev.parent = "yes"
             /\ spec.root => ev.root.st # "ok"
             /\ spec.exact => ev.exact.kind = "absent" /\ ev.parent # "yes"
    BY DEF Rollup
  <1>4. "failed" \in all => "blocked" \in Raised(ev)
    <2>1. spec.root /\ ev.root.st = "failed" => RootRaises(ev) = "blocked"
      BY DEF RootRaises
    <2>2. ev.match.st = "failed" => MatchRaises(ev) = "blocked"
      BY DEF MatchRaises
    <2>3. ev.exact.st = "failed" => ExactRaises(ev) = "blocked"
      BY DEF ExactRaises
    <2> QED
      BY <2>1, <2>2, <2>3, Flags
  <1>5. ASSUME NEW st, NEW flag,
               <<st, flag>> \in {<<"unavailable", "unmeasurable">>, <<"partial", "partial">>,
                                 <<"denied", "acl-needed">>},
               st \in all
        PROVE  flag \in Raised(ev)
    <2>1. \/ st = "unavailable" /\ flag = "unmeasurable"
          \/ st = "partial" /\ flag = "partial"
          \/ st = "denied" /\ flag = "acl-needed"
      BY <1>5
    <2>2. spec.root /\ ev.root.st = st => RootRaises(ev) = flag
      BY <1>1, <2>1 DEF RootRaises, RootCoherent
    <2>3. ev.match.st = st => MatchRaises(ev) = flag
      BY <2>1 DEF MatchRaises
    <2>4. spec.exact /\ ev.exact.st = st => ExactRaises(ev) = flag
      BY <1>1, <2>1 DEF ExactRaises, ExactCoherent
    <2> QED
      BY <1>5, <2>1, <2>2, <2>3, <2>4, Flags
  <1>6. CASE told = "failed"
    <2>1. spec.required /\ spec.root /\ ev.root.st = "missing_root" => RootRaises(ev) = "blocked"
      BY DEF RootRaises
    <2>2. spec.required /\ spec.exact /\ ev.exact.st = "missing_root" /\ ev.parent # "yes"
            => ExactRaises(ev) = "blocked"
      BY <1>1 DEF ExactRaises, ExactCoherent, ExactExists
    <2>3. own = "blocked"
      BY <1>3, <1>4, <1>6, <2>1, <2>2, Flags, Priority
    <2> QED
      BY <1>6, <2>3 DEF Lowered
  <1>7. CASE told = "unavailable"
    <2>1. own \in {"blocked", "unmeasurable"}
      BY <1>3, <1>5, <1>7, Priority
    <2> QED
      BY <1>7, <2>1 DEF Lowered
  <1>8. CASE told = "partial"
    <2>1. own \in {"blocked", "unmeasurable", "partial"}
      BY <1>3, <1>5, <1>8, Priority
    <2> QED
      BY <1>8, <2>1 DEF Lowered
  <1>9. CASE told = "denied"
    <2>1. "denied" \in all => "acl-needed" \in Raised(ev)
      BY <1>5
    <2>2. "denied" \notin all /\ ev.match.readable # ev.match.files => "acl-needed" \in Raised(ev)
      <3>1. ASSUME "denied" \notin all, ev.match.readable # ev.match.files
            PROVE  spec.root /\ MatchRaises(ev) = "acl-needed"
        BY <1>1, <1>3, <1>9, <3>1 DEF MatchRaises
      <3> QED
        BY <3>1, Flags
    <2>3. own \in {"blocked", "unmeasurable", "partial", "acl-needed"}
      BY <1>3, <1>9, <2>1, <2>2, Priority
    <2> QED
      BY <1>9, <2>3 DEF Lowered
  <1>10. CASE told = "missing_root"
    <2>1. spec.root => RootRaises(ev) = "inactive" /\ MatchRaises(ev) = "nothing" /\ ~spec.required
      <3> SUFFICES ASSUME spec.root
                   PROVE  RootRaises(ev) = "inactive" /\ MatchRaises(ev) = "nothing" /\ ~spec.required
        OBVIOUS
      <3>1. ev.root.st = "missing_root"
        BY <1>1, <1>3, <1>10 DEF RootCoherent, Evidence, RootPart, Probed
      <3>2. ~RootUnsafe(ev)
        BY <1>1, <3>1 DEF RootCoherent
      <3> QED
        BY <1>3, <1>10, <3>1, <3>2 DEF RootRaises, MatchRaises
    <2>2. spec.exact => ExactRaises(ev) = "inactive" /\ ~spec.required
      <3> SUFFICES ASSUME spec.exact PROVE ExactRaises(ev) = "inactive" /\ ~spec.required
        OBVIOUS
      <3>1. /\ ev.exact.kind = "absent" /\ ev.parent # "yes"
            /\ ev.exact.st \notin {"failed", "unavailable", "partial", "denied"}
        BY <1>3, <1>10
      <3>2. ev.exact.st = "missing_root"
        BY <1>1, <3>1 DEF ExactCoherent, Evidence, ExactPart, Probed
      <3>3. ~spec.required /\ ~ExactExists(ev) /\ ~ExactUnsafe(ev)
        BY <1>3, <1>10, <3>1, <3>2 DEF ExactExists, ExactUnsafe
      <3> QED
        BY <3>1, <3>2, <3>3 DEF ExactRaises
    <2>3. /\ "blocked" \notin Raised(ev) /\ "unmeasurable" \notin Raised(ev)
          /\ "partial" \notin Raised(ev) /\ "acl-needed" \notin Raised(ev)
          /\ "active" \notin Raised(ev) /\ "inactive" \in Raised(ev)
      BY <1>1, <2>1, <2>2, Flags
    <2>4. own = "inactive" /\ ~spec.required
      BY <1>1, <2>1, <2>2, <2>3 DEF Computed
    <2> QED
      BY <1>10, <2>4 DEF Lowered
  <1>11. CASE told = "ok"
    BY <1>11 DEF Lowered
  <1> QED
    BY <1>2, <1>6, <1>7, <1>8, <1>9, <1>10, <1>11

(***************************************************************************)
(* The verdict a guest deserves, condition by condition.                   *)
(***************************************************************************)
RootThere(g) == spec.root /\ g.root # "absent"
Seen(g)      == RootThere(g) /\ g.alloy /\ g.tools /\ g.meter /\ Reachable(g)
Unsafe(g)    == \/ RootThere(g) /\ (g.root # "dir" \/ g.anc = "unsafe")
                \/ Seen(g) /\ Tangled(g)
                \/ spec.exact /\ (g.parent = "unsafe" \/ g.exact \in {"link", "other", "mount"})
Missing(g)   == spec.required /\ \/ spec.root /\ ~RootThere(g)
                                 \/ spec.exact /\ g.parent = "absent" /\ g.alloy /\ g.meter
Closed(g)    == \/ RootThere(g) /\ (~Reachable(g) \/ \E f \in Files : g.files[f] = "denied")
                \/ spec.exact /\ (g.parent = "closed" \/ g.exact = "denied")
Blind(g)     == (RootThere(g) /\ ~g.tools) \/ ((RootThere(g) \/ spec.exact) /\ ~(g.alloy /\ g.meter))
Crowded(g)   == Seen(g) /\ Cardinality(There(g)) > MaxFiles
Gone(g)      == ~RootThere(g) /\ (~spec.exact \/ g.parent = "absent")
LiveFiles(g) == (IF RootThere(g) THEN Cardinality(There(g)) ELSE 0)
                + (IF spec.exact /\ g.exact # "absent" THEN 1 ELSE 0)

LEMMA DeservedParts ==
    ASSUME NEW g
    PROVE  Deserved(g) = IF ~g.mounts THEN "unmeasurable"
                         ELSE IF Unsafe(g) \/ Missing(g) THEN "blocked"
                         ELSE IF Blind(g) THEN "unmeasurable"
                         ELSE IF Crowded(g) THEN "partial"
                         ELSE IF Closed(g) THEN "acl-needed"
                         ELSE IF Gone(g) THEN "inactive"
                         ELSE IF LiveFiles(g) = 0 THEN "quiet" ELSE "active"
  BY DEF Deserved, Unsafe, Missing, Blind, Crowded, Closed, Gone, LiveFiles, Seen, Tangled,
         RootThere, There

\* What the root, the pattern and the exact file of an undisturbed guest raise.
Undisturbed ==
    /\ pc = "resolve" /\ settled /\ Looked /\ ev.reply = "whole" /\ ~ev.short
    /\ Types /\ Sane /\ Coherent /\ Measured /\ Followed

LEMMA RootOf ==
    ASSUME Undisturbed, spec.root
    PROVE  RootRaises(ev) =
             IF guest.root = "absent" THEN IF spec.required THEN "blocked" ELSE "inactive"
             ELSE IF guest.root # "dir" \/ guest.anc = "unsafe" THEN "blocked"
             ELSE IF ~guest.alloy \/ ~guest.tools \/ ~guest.meter THEN "unmeasurable"
             ELSE IF ~Reachable(guest) THEN "acl-needed"
             ELSE IF Tangled(guest) THEN "blocked" ELSE "active"
  <1>1. RootFaithful /\ WalkFaithful /\ RootCoherent(ev)
    BY DEF Undisturbed, Followed, Faithful, Coherent
  <1>2. /\ ev.root.kind = guest.root
        /\ ev.root.anc = (guest.root = "dir" /\ guest.anc = "unsafe")
        /\ ev.root.st = IF RootStatus(guest) = "ok" /\ Tangled(guest) THEN "failed"
                        ELSE RootStatus(guest)
    BY <1>1 DEF RootFaithful, WalkFaithful, Undisturbed
  <1>3. guest.root \in RootKinds
    BY DEF Undisturbed, Types, Guests
  <1>4. RootUnsafe(ev) <=> guest.root \in {"link", "other"} \/ (guest.root = "dir" /\ guest.anc = "unsafe")
    BY <1>2, <1>3 DEF RootUnsafe, RootExists, RootKinds
  <1> QED
    BY <1>2, <1>3, <1>4 DEF RootRaises, RootStatus, RootKinds

LEMMA MatchOf ==
    ASSUME Undisturbed, spec.root
    PROVE  /\ MatchRaises(ev) =
                IF guest.root = "absent" THEN "nothing"
                ELSE IF guest.root # "dir" \/ guest.anc = "unsafe" THEN "blocked"
                ELSE IF ~guest.alloy \/ ~guest.tools \/ ~guest.meter THEN "unmeasurable"
                ELSE IF ~Reachable(guest) THEN "acl-needed"
                ELSE IF Tangled(guest) THEN "blocked"
                ELSE IF Cardinality(There(guest)) > MaxFiles THEN "partial"
                ELSE IF \E f \in Files : guest.files[f] = "denied" THEN "acl-needed" ELSE "nothing"
           /\ guest.root = "absent" => ev.match.files = {}
           /\ RootStatus(guest) = "ok" /\ ~Tangled(guest) /\ ~(Cardinality(There(guest)) > MaxFiles) =>
                ev.match.files = There(guest)
  <1>1. /\ WalkFaithful /\ FilesFaithful /\ ev.match.st # "none"
        /\ ev.match.readable \subseteq ev.match.files /\ ~ev.short
    BY DEF Undisturbed, Followed, Faithful, Coherent
  <1>2. CASE RootStatus(guest) # "ok"
    <2>1. ev.match.st = RootStatus(guest) /\ ev.match.files = {} /\ ev.match.readable = {}
      BY <1>1, <1>2 DEF WalkFaithful
    <2> QED
      BY <1>2, <2>1 DEF RootStatus, MatchRaises
  <1>3. CASE RootStatus(guest) = "ok" /\ Tangled(guest)
    <2>1. ev.match.st = "failed"
      BY <1>1, <1>3 DEF WalkFaithful
    <2> QED
      BY <1>3, <2>1 DEF RootStatus, MatchRaises
  <1>4. CASE RootStatus(guest) = "ok" /\ ~Tangled(guest) /\ Cardinality(There(guest)) > MaxFiles
    <2>1. ev.match.st = "partial"
      BY <1>1, <1>4 DEF WalkFaithful
    <2> QED
      BY <1>4, <2>1 DEF RootStatus, MatchRaises
  <1>5. CASE RootStatus(guest) = "ok" /\ ~Tangled(guest) /\ ~(Cardinality(There(guest)) > MaxFiles)
    <2>1. ev.match.files = There(guest) /\ ev.match.st \in {"ok", "quiet"}
      BY <1>1, <1>5 DEF WalkFaithful
    <2>2. ev.match.readable = {f \in There(guest) : guest.files[f] = "ok"}
      BY <1>1, <1>5, <2>1 DEF FilesFaithful
    <2>3. ev.match.readable # ev.match.files <=> \E f \in Files : guest.files[f] = "denied"
      BY <2>1, <2>2 DEF There
    <2> QED
      BY <1>5, <2>1, <2>3 DEF RootStatus, MatchRaises
  <1> QED
    BY <1>2, <1>3, <1>4, <1>5

LEMMA ExactOf ==
    ASSUME Undisturbed, spec.exact
    PROVE  /\ ExactRaises(ev) =
                IF guest.parent = "absent"
                THEN IF ~(guest.alloy /\ guest.meter) THEN "unmeasurable"
                     ELSE IF spec.required THEN "blocked" ELSE "inactive"
                ELSE IF guest.parent = "unsafe" \/ guest.exact \in {"link", "other", "mount"}
                  THEN "blocked"
                ELSE IF ~(guest.alloy /\ guest.meter) THEN "unmeasurable"
                ELSE IF guest.parent = "closed" \/ guest.exact = "denied" THEN "acl-needed"
                ELSE "active"
           /\ ExactExists(ev) <=> guest.exact # "absent"
  <1>1. /\ ev.parent = ParentStatus(guest) /\ ev.exact.kind = guest.exact
        /\ ev.exact.st = ExactStatus(guest)
    BY DEF Undisturbed, Followed, Faithful, ParentFaithful, ExactFaithful
  <1>2. /\ guest.parent \in ParentKinds /\ guest.exact \in FileKinds \cup {"other"}
        /\ guest.alloy \in BOOLEAN /\ guest.meter \in BOOLEAN
        /\ guest.parent = "absent" => guest.exact = "absent"
    BY DEF Undisturbed, Types, Guests, Sane
  <1>3. ExactExists(ev) <=> guest.exact # "absent"
    BY <1>1 DEF ExactExists
  <1>4. ExactUnsafe(ev) <=> guest.exact \in {"link", "other", "mount"}
    BY <1>1 DEF ExactUnsafe
  <1>5. CASE guest.parent \in {"absent", "unsafe"}
    BY <1>1, <1>2, <1>3, <1>4, <1>5 DEF ExactRaises, ExactStatus, ParentStatus
  <1>6. CASE guest.parent \in {"closed", "open"}
    BY <1>1, <1>2, <1>3, <1>4, <1>6 DEF ExactRaises, ExactStatus, ParentStatus, FileKinds
  <1> QED
    BY <1>2, <1>3, <1>5, <1>6 DEF ParentKinds

\* Undisturbed, the manager computes the verdict the guest deserves.
LEMMA ComputedIsDeserved == ASSUME Undisturbed PROVE Computed(ev) = Deserved(guest)
  <1>1. guest.mounts /\ (spec.root \/ spec.exact) /\ guest \in Guests
    BY DEF Undisturbed, Measured, Looked, Types
  <1>2. "blocked" \in Raised(ev) <=> Unsafe(guest) \/ Missing(guest)
    BY RootOf, MatchOf, ExactOf, Flags
       DEF Unsafe, Missing, Seen, RootThere, Undisturbed, Sane
  <1>3. ~(Unsafe(guest) \/ Missing(guest)) => ("unmeasurable" \in Raised(ev) <=> Blind(guest))
    BY RootOf, MatchOf, ExactOf, Flags
       DEF Unsafe, Missing, Seen, RootThere, Blind, Undisturbed
  <1>4. ~(Unsafe(guest) \/ Missing(guest) \/ Blind(guest)) =>
          ("partial" \in Raised(ev) <=> Crowded(guest))
    BY RootOf, MatchOf, ExactOf, Flags
       DEF Unsafe, Missing, Seen, RootThere, Blind, Crowded, Undisturbed
  <1>5. ~(Unsafe(guest) \/ Missing(guest) \/ Blind(guest) \/ Crowded(guest)) =>
          ("acl-needed" \in Raised(ev) <=> Closed(guest))
    BY RootOf, MatchOf, ExactOf, Flags
       DEF Unsafe, Missing, Seen, RootThere, Blind, Crowded, Closed, Undisturbed, Sane
  <1>6. ~(Unsafe(guest) \/ Missing(guest) \/ Blind(guest) \/ Crowded(guest) \/ Closed(guest)) =>
          /\ "active" \in Raised(ev) <=> ~Gone(guest)
          /\ Gone(guest) => "inactive" \in Raised(ev)
    BY <1>1, RootOf, MatchOf, ExactOf, Flags
       DEF Unsafe, Missing, Seen, RootThere, Blind, Crowded, Closed, Gone, Undisturbed
  <1>7. ~(Unsafe(guest) \/ Missing(guest) \/ Blind(guest) \/ Crowded(guest) \/ Closed(guest)) =>
          Live(ev) = LiveFiles(guest)
    <2> SUFFICES ASSUME ~(Unsafe(guest) \/ Missing(guest) \/ Blind(guest) \/ Crowded(guest)
                          \/ Closed(guest))
                 PROVE  Live(ev) = LiveFiles(guest)
      OBVIOUS
    <2>1. Cardinality({}) = 0
      BY CountOfNone
    <2>2. CASE RootThere(guest)
      <3>1. RootStatus(guest) = "ok" /\ ~Tangled(guest) /\ ~(Cardinality(There(guest)) > MaxFiles)
        BY <2>2 DEF Unsafe, Blind, Crowded, Closed, Seen, RootThere, RootStatus
      <3>2. ev.match.files = There(guest)
        BY <2>2, <3>1, MatchOf DEF RootThere
      <3> QED
        BY <2>2, <3>2, ExactOf DEF Live, LiveFiles
    <2>3. CASE ~RootThere(guest)
      <3>1. ev.match.files = {}
        BY <2>3, MatchOf DEF RootThere, Undisturbed, Coherent
      <3> QED
        BY <2>1, <2>3, <3>1, ExactOf DEF Live, LiveFiles
    <2> QED
      BY <2>2, <2>3
  <1> QED
    BY <1>1, <1>2, <1>3, <1>4, <1>5, <1>6, <1>7, DeservedParts DEF Computed

\* The same without a mount table: the account of what is there is refused as a whole.
LEMMA NoTableIsDeserved ==
    ASSUME Types, Measured, pc = "resolve", ev.reply = "whole", ~ev.mounts
    PROVE  Lowered(Computed(ev), Rollup(ev)) = "unmeasurable" /\ Deserved(guest) = "unmeasurable"
  <1>1. Blank("unavailable") /\ ~guest.mounts /\ (spec.root \/ spec.exact)
    BY DEF Measured, Looked, Types
  <1>2. /\ RootRaises(ev) = "unmeasurable" /\ MatchRaises(ev) = "unmeasurable"
        /\ ExactRaises(ev) = "unmeasurable"
    BY <1>1 DEF Blank, RootRaises, MatchRaises, ExactRaises, RootUnsafe, RootExists, ExactUnsafe
  <1>3. "blocked" \notin Raised(ev) /\ "unmeasurable" \in Raised(ev)
    BY <1>1, <1>2, Flags
  <1>4. Rollup(ev) = "unavailable"
    BY <1>1 DEF Rollup, Blank
  <1> QED
    BY <1>1, <1>3, <1>4, DeservedParts DEF Computed, Lowered

\* A measurement cut short never claims to have seen everything.
LEMMA CutShort ==
    ASSUME Types, Measured, pc = "resolve", ev.late \/ ev.short \/ ev.reply # "whole"
    PROVE  Lowered(Computed(ev), Supplied(ev)) \in {"blocked", "unmeasurable", "partial"}
  <1>1. Supplied(ev) \in {"failed", "unavailable", "partial"}
    <2>1. CASE ev.reply # "whole"
      BY <2>1 DEF Supplied
    <2>2. CASE ev.reply = "whole" /\ ~Looked
      <3>1. Blank(IF ev.mounts THEN "partial" ELSE "unavailable") /\ (spec.root \/ spec.exact)
        BY <2>2 DEF Measured, Types
      <3> QED
        BY <2>2, <3>1 DEF Supplied, Rollup, Blank
    <2>3. CASE ev.reply = "whole" /\ Looked
      <3>1. spec.root /\ ev.match.st = "partial"
        BY <2>3 DEF Measured, Looked
      <3> QED
        BY <2>3, <3>1 DEF Supplied, Rollup
    <2> QED
      BY <2>1, <2>2, <2>3
  <1> QED
    BY <1>1 DEF Lowered

LEMMA VerdictMatchesGuestKept == IInv /\ [Next]_vars => VerdictMatchesGuest'
  <1> SUFFICES ASSUME IInv, [Next]_vars PROVE VerdictMatchesGuest'
    OBVIOUS
  <1>0. Types /\ Sane /\ Coherent /\ Measured /\ Followed /\ Granting /\ VerdictMatchesGuest
    BY DEF IInv
  <1>1. CASE ChangeFile \/ ChangeRoot \/ ChangeExact
    BY <1>0, <1>1, GuestType DEF VerdictMatchesGuest
  <1>2. CASE ReadEnv \/ ProbeRoot \/ WalkRoot \/ ProbeParent \/ ProbeExact \/ MeasureFiles \/ SendReply
    <2>1. pc' \notin {"repair", "done"}
      BY <1>2 DEF ReadEnv, ProbeRoot, WalkRoot, ProbeParent, ProbeExact, MeasureFiles, SendReply, Call
    <2> QED
      BY <2>1 DEF VerdictMatchesGuest
  <1>3. CASE StartRepair \/ RepairFails \/ GrantAbove \/ OpenRoot \/ GrantDir \/ GrantFiles \/ OpenExact
    BY <1>0, <1>3, RepairType DEF VerdictMatchesGuest
  <1>4. CASE Resolve
    <2> SUFFICES ASSUME settled
                 PROVE  /\ IF ev.late \/ ev.short \/ ev.reply # "whole"
                           THEN verdict' \notin {"active", "quiet"}
                           ELSE verdict' = Deserved(guest)
                        /\ pass = 2 => verdict' # "acl-needed"
      <3>1. UNCHANGED <<spec, guest, pass, ev, settled>>
        BY <1>4 DEF Resolve
      <3>2. (Deserved(guest))' = Deserved(guest)
        BY <3>1 DEF Deserved, Reachable
      <3> QED
        BY <3>1, <3>2 DEF VerdictMatchesGuest
    <2>1. pc = "resolve" /\ verdict' = Lowered(Computed(ev), Supplied(ev))
      BY <1>0, <1>4, HonestEvidence DEF Resolve, Resolved
    <2>2. CASE ev.late \/ ev.short \/ ev.reply # "whole"
      BY <1>0, <2>1, <2>2, CutShort
    <2>3. CASE ~(ev.late \/ ev.short \/ ev.reply # "whole")
      <3>1. verdict' = Deserved(guest)
        <4>1. CASE ~ev.mounts
          BY <1>0, <2>1, <2>3, <4>1, NoTableIsDeserved DEF Supplied
        <4>2. CASE ev.mounts
          <5>1. Undisturbed
            BY <1>0, <2>1, <2>3, <4>2 DEF Undisturbed, Looked
          <5> QED
            BY <1>0, <2>1, <2>3, <5>1, Told, ComputedIsDeserved DEF Supplied
        <4> QED
          BY <4>1, <4>2
      <3>2. ASSUME pass = 2 PROVE Deserved(guest) # "acl-needed"
        <4>1. RootGranted(guest) /\ ExactGranted(guest)
          BY <1>0, <3>2 DEF Granting
        <4>2. ~Closed(guest)
          BY <4>1 DEF RootGranted, ExactGranted, Closed, RootThere
        <4> QED
          BY <4>2, DeservedParts
      <3> QED
        BY <2>3, <3>1, <3>2
    <2> QED
      BY <2>2, <2>3
  <1>5. CASE FinishRepair
    BY <1>5 DEF FinishRepair, VerdictMatchesGuest
  <1>6. CASE Done \/ UNCHANGED vars
    <2>1. UNCHANGED vars
      BY <1>6 DEF Done
    <2>2. (Deserved(guest))' = Deserved(guest)
      BY <2>1 DEF vars, Deserved, Reachable
    <2> QED
      BY <1>0, <2>1, <2>2 DEF vars, VerdictMatchesGuest
  <1> QED
    BY <1>1, <1>2, <1>3, <1>4, <1>5, <1>6 DEF Next

(***************************************************************************)
(* The theorems.                                                           *)
(***************************************************************************)
LEMMA InitInv == Init => IInv
  <1> SUFFICES ASSUME Init PROVE IInv
    OBVIOUS
  <1>1. Types
    <2>1. spec \in [root : BOOLEAN, exact : BOOLEAN, required : BOOLEAN] /\ (spec.root \/ spec.exact)
      BY DEF Init
    <2>2. guest \in Guests
      BY DEF Init
    <2>3. changes \in 0 .. MaxChanges /\ pass \in 1 .. 2
      BY AccessAssumption DEF Init
    <2>4. pc \in Steps /\ verdict = "none" /\ held = {} /\ outside = FALSE /\ settled = TRUE
      BY DEF Init, Steps
    <2>5. ev \in Evidence
      BY NoEvidenceType DEF Init
    <2> QED
      BY <2>1, <2>2, <2>3, <2>4, <2>5 DEF Types
  <1>2. Sane /\ Descriptors
    BY DEF Init, Sane, Descriptors, Possible
  <1>3. Coherent
    BY EmptyCoherent DEF Init, Coherent
  <1>4. Measured /\ Followed /\ Granting /\ Repairing
    BY DEF Init, Measured, Followed, Granting, Repairing, NoEvidence, Looked
  <1>5. NeverContradicts /\ VerdictMatchesGuest
    BY DEF Init, NeverContradicts, VerdictMatchesGuest
  <1> QED
    BY <1>1, <1>2, <1>3, <1>4, <1>5 DEF IInv

LEMMA Invariance == Spec => []IInv
  <1>1. IInv /\ [Next]_vars => IInv'
    BY TypesKept, SaneKept, DescriptorsKept, CoherentKept, MeasuredKept, FollowedKept, GrantingKept,
       RepairingKept, NeverContradictsKept, VerdictMatchesGuestKept DEF IInv
  <1> QED
    BY <1>1, InitInv, PTL DEF Spec

\* Every variable keeps its type, in particular the evidence of a helper that is
\* interrupted between any two of its system calls.
THEOREM TypeCorrect == Spec => []TypeOK
  <1>1. IInv => TypeOK
    BY DEF IInv, Types, TypeOK, Steps, Evidence, RootPart, MatchPart, ExactPart, Coherent
  <1> QED
    BY <1>1, Invariance, PTL

\* The manager's cross-checks refuse no evidence of an honest helper, whatever the
\* guest creates, rotates, removes or relinks between two of its system calls.
THEOREM HonestHelperAccepted == Spec => []NeverContradicts
  <1>1. IInv => NeverContradicts
    BY DEF IInv
  <1> QED
    BY <1>1, Invariance, PTL

\* The verdict on a guest that held still is the one its files deserve; a measurement
\* cut short never claims to have seen everything; after a completed repair access is
\* no longer what is missing.
THEOREM VerdictIsDeserved == Spec => []VerdictMatchesGuest
  <1>1. IInv => VerdictMatchesGuest
    BY DEF IInv
  <1> QED
    BY <1>1, Invariance, PTL

\* No grant reaches a file outside the declared root: a descriptor of the repair stays
\* one of a regular file below the root until it is used, whatever takes its name.
THEOREM GrantsInsideRoot == Spec => []GrantsStayInside
  <1>1. IInv => GrantsStayInside
    BY DEF IInv, Descriptors, GrantsStayInside
  <1> QED
    BY <1>1, Invariance, PTL
=============================================================================
