--------------------------- MODULE ArchiveImport ---------------------------
(***************************************************************************)
(* The archive import of one guest's logs: the initial capture into the    *)
(* node spool, planning against the checkpoint's source rows, prefix       *)
(* verification, batches to Loki, completion, coverage for deletion and    *)
(* blob release.  The guest writes and rotates its logs in between, the    *)
(* push may fail or lose its answer, and the manager may die at any point; *)
(* each checkpoint transaction is one step.                                *)
(*                                                                         *)
(* A plain log is a sequence of distinct units (its log entries): a prefix *)
(* is its own digest, a size is a length.  Path 1 is the live log, path p  *)
(* rotates to p + 1.  A unit is one fragment, so every batch is a range.   *)
(* Not modelled: compression, PBS task identities, plugin sources.         *)
(*                                                                         *)
(* An operator named Name_Variant before Name is a plausible wrong form of *)
(* Name; nothing uses it, and the properties below are known to reject it. *)
(***************************************************************************)
EXTENDS Integers, Sequences, FiniteSets

CONSTANTS NPaths,     \* paths of the rotation family
          NInodes,    \* inodes of the log filesystem, reused once free
          NSlots,     \* source rows the checkpoint can hold
          MaxClock,   \* bound on writes and creations
          Rewrites,   \* TRUE: writers may overwrite or truncate a log in place
          Interfere   \* TRUE: also while an import runs, when the guest may then
                      \* reuse an inode it has freed, too

ASSUME ImportAssumption ==
    /\ NPaths \in Nat \ {0} /\ NInodes \in Nat \ {0} /\ NSlots \in Nat \ {0}
    /\ MaxClock \in Nat /\ Rewrites \in BOOLEAN /\ Interfere \in BOOLEAN

VARIABLES
    \* the guest's log filesystem
    at,       \* at[p]: inode linked at path p, or 0
    data,     \* data[i]: units of inode i
    mtime,    \* mtime[i]: clock of its last write
    open,     \* open[i]: a writer holds a descriptor on i
    clock,
    loki,     \* units Loki has accepted
    \* the checkpoint store and the node spool (durable)
    rows,     \* rows[s]: a source row, or NoRow
    cap,      \* the capture intent: none, pending or complete
    blob,     \* blob[p]: the frozen prefix of the manifest entry for path p
    pend,     \* the saved batch, or NoBatch
    \* the manager's run (volatile)
    mpc, todo, recs, plans, cur, got, covered

guest == <<at, data, mtime, open, clock>>
vars  == <<at, data, mtime, open, clock, loki, rows, cap, blob, pend,
           mpc, todo, recs, plans, cur, got, covered>>

Paths  == 1 .. NPaths
Inodes == 1 .. NInodes
Slots  == 1 .. NSlots
Live   == 1                      \* current_log_name: the live log's path

Unknown == <<0>>                 \* no digest recorded; unit 0 is never written
NoRow == [id |-> <<>>, path |-> 0, ino |-> 0, n |-> 0, m |-> 0, act |-> FALSE,
          off |-> 0, digest |-> Unknown, ack |-> FALSE, done |-> FALSE, csize |-> 0,
          vsize |-> 0, conf |-> FALSE, man |-> FALSE, blob |-> 0, frozen |-> FALSE,
          upd |-> 0]
NoBatch == [src |-> 0, from |-> 0, to |-> 0, units |-> <<>>, done |-> FALSE,
            digest |-> Unknown]
NoWire  == [path |-> 0, ino |-> 0, n |-> 0, m |-> 0, act |-> FALSE]
NoBlob  == [wire |-> NoWire, st |-> "none", units |-> <<>>]
NoPlan  == [src |-> 0, wire |-> NoWire, read |-> "none", blob |-> 0, raw |-> 0,
            pos |-> 0, cfc |-> FALSE, vn |-> 0, vs |-> Unknown, man |-> FALSE]

Units     == Seq(Nat)
Elems(q)  == {q[k] : k \in 1 .. Len(q)}
First(q, k) == SubSeq(q, 1, IF k <= Len(q) THEN k ELSE Len(q))
Linked(i) == \E p \in Paths : at[p] = i

Wire == [path : Nat, ino : Nat, n : Nat, m : Nat, act : BOOLEAN]
Row  == [id : Units, path : Nat, ino : Nat, n : Nat, m : Nat, act : BOOLEAN,
         off : Nat, digest : Units, ack : BOOLEAN, done : BOOLEAN, csize : Nat,
         vsize : Nat, conf : BOOLEAN, man : BOOLEAN, blob : Nat, frozen : BOOLEAN,
         upd : Nat]
Blob == [wire : Wire, units : Units,
         st : {"none", "expected", "spooled", "captured", "released"}]
Batch == [src : Nat, from : Nat, to : Nat, units : Units, done : BOOLEAN,
          digest : Units]
Plan == [src : Nat, wire : Wire, read : {"none", "blob", "live"}, blob : Nat,
         raw : Nat, pos : Nat, cfc : BOOLEAN, vn : Nat, vs : Units, man : BOOLEAN]
Coverage == [path : Nat, ino : Nat, n : Nat, m : Nat, src : Slots, digest : Units]

\* Type invariant: source ids are a key of rows, and a blob holds no more than
\* the prefix its manifest entry froze, however far the file has grown since.
TypeOK ==
    /\ at \in [Paths -> Inodes \cup {0}]
    /\ data \in [Inodes -> Units] /\ mtime \in [Inodes -> Nat]
    /\ open \in [Inodes -> BOOLEAN] /\ clock \in Nat
    /\ loki \subseteq Nat
    /\ rows \in [Slots -> Row]
    /\ \A s, t \in Slots : rows[s].id = rows[t].id => s = t \/ rows[s].id = <<>>
    /\ cap \in {"none", "pending", "complete"}
    /\ blob \in [Paths -> Blob]
    /\ \A p \in Paths : Len(blob[p].units) <= blob[p].wire.n
    /\ pend \in Batch
    /\ mpc \in {"idle", "capture", "flush", "push", "ack", "plan", "next", "prepare",
                "digest", "read", "save", "mark", "markdigest", "markack", "release"}
    /\ \A w \in todo : w \in Wire
    /\ recs \in [Slots -> Row]
    /\ \A l \in plans : l \in Plan
    /\ cur \in Plan
    /\ got \in Units
    /\ \A c \in covered : c \in Coverage

Init ==
    /\ at = [p \in Paths |-> 0]
    /\ data = [i \in Inodes |-> <<>>] /\ mtime = [i \in Inodes |-> 0]
    /\ open = [i \in Inodes |-> FALSE] /\ clock = 0
    /\ loki = {}
    /\ rows = [s \in Slots |-> NoRow] /\ cap = "none"
    /\ blob = [p \in Paths |-> NoBlob] /\ pend = NoBatch
    /\ mpc = "idle" /\ todo = {} /\ recs = [s \in Slots |-> NoRow] /\ plans = {}
    /\ cur = NoPlan /\ got = <<>> /\ covered = {}

-----------------------------------------------------------------------------
(***************************************************************************)
(* The guest.                                                              *)
(***************************************************************************)
GuestOnly == UNCHANGED <<loki, rows, cap, blob, pend, mpc, todo, recs, plans, cur,
                         got, covered>>
Calm      == Interfere \/ mpc = "idle"

\* The program creates its live log; a freed inode may come back.
Create(i) ==
    /\ at[Live] = 0 /\ ~ Linked(i) /\ clock < MaxClock
    /\ mtime[i] = 0 \/ Calm
    /\ clock' = clock + 1
    /\ at' = [at EXCEPT ![Live] = i]
    /\ data' = [data EXCEPT ![i] = <<>>]
    /\ mtime' = [mtime EXCEPT ![i] = clock + 1]
    /\ open' = [open EXCEPT ![i] = TRUE]
    /\ GuestOnly

AppendLog(i) ==
    /\ open[i] /\ Linked(i) /\ clock < MaxClock
    /\ clock' = clock + 1
    /\ data' = [data EXCEPT ![i] = Append(@, clock + 1)]
    /\ mtime' = [mtime EXCEPT ![i] = clock + 1]
    /\ UNCHANGED <<at, open>> /\ GuestOnly

\* A write below the end or a truncation (copytruncate), by the writer or by a
\* tool that opens and closes the log.  A rewrite inside one timestamp tick, or
\* one that restores the mtime, keeps the stat.
RewriteLog(i) ==
    /\ Linked(i) /\ clock < MaxClock /\ data[i] # <<>>
    /\ Rewrites /\ Calm
    /\ clock' = clock + 1
    /\ \/ /\ data' = [data EXCEPT ![i][1] = clock + 1]
          /\ \E t \in {mtime[i], clock + 1} : mtime' = [mtime EXCEPT ![i] = t]
       \/ /\ data' = [data EXCEPT ![i] = <<>>]
          /\ mtime' = [mtime EXCEPT ![i] = clock + 1]
    /\ UNCHANGED <<at, open>> /\ GuestOnly

CloseLog(i) ==
    /\ open[i]
    /\ open' = [open EXCEPT ![i] = FALSE]
    /\ UNCHANGED <<at, data, mtime, clock>> /\ GuestOnly

RotateLog(p) ==
    /\ p + 1 \in Paths /\ at[p] # 0 /\ at[p + 1] = 0
    /\ at' = [at EXCEPT ![p] = 0, ![p + 1] = at[p]]
    /\ UNCHANGED <<data, mtime, open, clock>> /\ GuestOnly

RemoveLog(p) ==
    /\ at[p] # 0
    /\ at' = [at EXCEPT ![p] = 0]
    /\ open' = [open EXCEPT ![at[p]] = FALSE]
    /\ data' = [data EXCEPT ![at[p]] = <<>>]
    /\ UNCHANGED <<mtime, clock>> /\ GuestOnly

Guest ==
    \/ \E i \in Inodes : Create(i) \/ AppendLog(i) \/ RewriteLog(i) \/ CloseLog(i)
    \/ \E p \in Paths : RotateLog(p) \/ RemoveLog(p)

-----------------------------------------------------------------------------
(***************************************************************************)
(* A run starts: the probe, the initial capture, the batch left behind.    *)
(***************************************************************************)
\* The probe is taken as one observation; it lists no inode twice.
Probe == {[path |-> p, ino |-> at[p], n |-> Len(data[at[p]]), m |-> mtime[at[p]],
           act |-> open[at[p]]] : p \in {q \in Paths : at[q] # 0}}

StartRun ==
    /\ mpc = "idle"
    /\ todo' = Probe
    /\ mpc' = IF cap = "complete" THEN "flush" ELSE "capture"
    /\ UNCHANGED <<at, data, mtime, open, clock, loki, rows, cap, blob, pend, recs,
                   plans, cur, got, covered>>

\* begin_capture: the manifest is frozen once and never replaced.
BeginCapture ==
    /\ mpc = "capture" /\ cap = "none"
    /\ cap' = "pending"
    /\ blob' = [p \in Paths |->
                  IF \A w \in todo : w.path # p THEN NoBlob
                  ELSE [wire |-> CHOOSE w \in todo : w.path = p,
                        st |-> "expected", units |-> <<>>]]
    /\ UNCHANGED <<at, data, mtime, open, clock, loki, rows, pend, mpc, todo, recs,
                   plans, cur, got, covered>>

Reachable(w) == \E p \in Paths : at[p] = w.ino /\ Len(data[w.ino]) >= w.n

\* capture copies one prefix and writes its receipt; the file is found by its
\* inode wherever it is linked.  A receipt survives a call that dies.
SpoolBlob(p) ==
    /\ mpc = "capture" /\ cap = "pending"
    /\ blob[p].st = "expected" /\ Reachable(blob[p].wire)
    /\ blob' = [blob EXCEPT ![p].st = "spooled",
                            ![p].units = First(data[blob[p].wire.ino], blob[p].wire.n)]
    /\ UNCHANGED <<at, data, mtime, open, clock, loki, rows, cap, pend, mpc, todo,
                   recs, plans, cur, got, covered>>

\* A manifest entry whose file is gone fails the whole call.
CaptureFails(p) ==
    /\ mpc = "capture" /\ cap = "pending"
    /\ blob[p].st = "expected" /\ ~ Reachable(blob[p].wire)
    /\ mpc' = "idle" /\ todo' = {}
    /\ UNCHANGED <<at, data, mtime, open, clock, loki, rows, cap, blob, pend, recs,
                   plans, cur, got, covered>>

\* mark_blob_captured per blob, then finish_capture: the marks repeat without
\* effect, and nothing reads them before the intent is complete.
FinishCapture ==
    /\ mpc = "capture" /\ cap = "pending"
    /\ \A p \in Paths : blob[p].st # "expected"
    /\ cap' = "complete" /\ mpc' = "flush"
    /\ blob' = [p \in Paths |-> IF blob[p].st = "spooled"
                                THEN [blob[p] EXCEPT !.st = "captured"] ELSE blob[p]]
    /\ UNCHANGED <<at, data, mtime, open, clock, loki, rows, pend, todo, recs, plans,
                   cur, got, covered>>

\* The run is over, returned, stopped or dead: nothing volatile is left.
Forget ==
    /\ mpc' = "idle" /\ todo' = {} /\ recs' = [s \in Slots |-> NoRow] /\ plans' = {}
    /\ cur' = NoPlan /\ got' = <<>> /\ covered' = {}

\* rows after a transaction has written r to slot s; upd ranks the rows by
\* their last write (updated_ns).
Used == {s \in Slots : rows[s].id # <<>>}
Put(s, r) ==
    [x \in Slots |->
        IF x = s THEN [r EXCEPT !.upd = Cardinality(Used \cup {s})]
        ELSE IF rows[s].upd > 0 /\ rows[x].upd > rows[s].upd
             THEN [rows[x] EXCEPT !.upd = @ - 1] ELSE rows[x]]

\* push_batch: a saved body is sent as it was saved.  Loki answers 204, takes
\* the body but the answer is lost, or refuses; only a 204 lets the run go on.
PushBatch ==
    /\ mpc \in {"flush", "push"} /\ pend # NoBatch
    /\ \/ /\ loki' = loki \cup Elems(pend.units)
          /\ mpc' = "ack"
       \/ /\ loki' \in {loki, loki \cup Elems(pend.units)}
          /\ mpc' = IF mpc = "flush" THEN "idle" ELSE "release"
    /\ todo' = IF mpc' = "idle" THEN {} ELSE todo
    /\ UNCHANGED <<at, data, mtime, open, clock, rows, cap, blob, pend, recs, plans,
                   cur, got, covered>>

\* acknowledge_batch: offset, acknowledgement and digest advance and the batch
\* goes, in one transaction.  A resumed batch is followed by planning, a batch
\* of this run by the rest of its source.
AckBatch_KeepsOffset ==
    /\ mpc = "ack"
    /\ rows' = Put(pend.src, [rows[pend.src] EXCEPT !.ack = pend.done])
    /\ pend' = NoBatch
    /\ IF cur = NoPlan
       THEN mpc' = "plan" /\ recs' = rows' /\ UNCHANGED cur
       ELSE /\ mpc' = IF pend.done THEN "mark"
                     ELSE IF pend.to < Len(got) THEN "save" ELSE "release"
            /\ cur' = [cur EXCEPT !.pos = pend.to]
            /\ UNCHANGED recs
    /\ UNCHANGED <<at, data, mtime, open, clock, loki, cap, blob, todo, plans, got,
                   covered>>

AckBatch ==
    /\ mpc = "ack"
    /\ rows' = Put(pend.src, [rows[pend.src] EXCEPT
                  !.off = pend.to,
                  !.ack = pend.done,
                  !.digest = IF pend.done THEN pend.digest ELSE @])
    /\ pend' = NoBatch
    /\ IF cur = NoPlan
       THEN mpc' = "plan" /\ recs' = rows' /\ UNCHANGED cur
       ELSE /\ mpc' = IF pend.done THEN "mark"
                     ELSE IF pend.to < Len(got) THEN "save" ELSE "release"
            /\ cur' = [cur EXCEPT !.pos = pend.to]
            /\ UNCHANGED recs
    /\ UNCHANGED <<at, data, mtime, open, clock, loki, cap, blob, todo, plans, got,
                   covered>>

\* A batch saved more than a day ago is rebuilt with fresh timestamps from its
\* row: from the row's blob if it has one, or else at the row's recorded path.
HasFile(path, ino, n) ==
    path \in Paths /\ ino \in Inodes /\ at[path] = ino /\ Len(data[ino]) >= n

RebuildSource(r) ==
    IF r.blob # 0
    THEN IF blob[r.blob].st = "captured" THEN {blob[r.blob].units} ELSE {}
    ELSE IF HasFile(r.path, r.ino, r.n) THEN {First(data[r.ino], r.n)} ELSE {}

RebuildRange(r) == {q \in RebuildSource(r) : Len(q) >= pend.to}

RebuildBatch ==
    /\ mpc = "flush" /\ pend # NoBatch
    /\ \E q \in RebuildRange(rows[pend.src]) :
         pend' = [pend EXCEPT !.units = SubSeq(q, pend.from + 1, pend.to)]
    /\ UNCHANGED <<at, data, mtime, open, clock, loki, rows, cap, blob, mpc, todo,
                   recs, plans, cur, got, covered>>

RebuildFails ==
    /\ mpc = "flush" /\ pend # NoBatch
    /\ RebuildRange(rows[pend.src]) = {}
    /\ Forget
    /\ UNCHANGED <<at, data, mtime, open, clock, loki, rows, cap, blob, pend>>

BeginPlan ==
    /\ mpc = "flush" /\ pend = NoBatch
    /\ mpc' = "plan" /\ recs' = rows
    /\ UNCHANGED <<at, data, mtime, open, clock, loki, rows, cap, blob, pend, todo,
                   plans, cur, got, covered>>

-----------------------------------------------------------------------------
(***************************************************************************)
(* Planning: every wire is matched against the rows as they were when      *)
(* planning began (recs), one transaction per wire.                        *)
(***************************************************************************)
\* <<p>> is the base id of path p; a replaced identity appends a generation.
Gen(r) == IF Len(r.id) <= 1 THEN 1 ELSE r.id[Len(r.id)]

Newest(S) ==
    {s \in S : \A t \in S \ {s} :
        \/ Gen(recs[s]) > Gen(recs[t])
        \/ Gen(recs[s]) = Gen(recs[t]) /\ recs[s].upd > recs[t].upd}

\* _match_record: this very path and inode, or that inode, or that path, or
\* the base id of the path.
MatchRecord(w) ==
    LET known == {s \in Slots : recs[s].id # <<>>}
        here  == Newest({s \in known : recs[s].path = w.path})
        exact == {s \in here : recs[s].ino = w.ino}
        own   == Newest({s \in known : recs[s].ino = w.ino})
        base  == {s \in known : recs[s].id = <<w.path>>}
    IN  IF exact # {} THEN exact ELSE IF own # {} THEN own
        ELSE IF here # {} THEN here ELSE base

NextGeneration(id) ==
    LET k    == Len(id) + 1
        gens == {recs[s].id[k] : s \in {t \in Slots : Len(recs[t].id) = k
                                                   /\ First(recs[t].id, k - 1) = id}}
    IN  Append(id, 1 + CHOOSE g \in gens \cup {1} : \A h \in gens : h <= g)

\* An inode is listed once, so a wire at another path than its row's has been
\* renamed: same inode and either the same stat or an append.
SameGeneration(r, w) ==
    /\ r.ino = w.ino
    /\ (r.n = w.n /\ r.m = w.m) \/ w.n > r.n

PrefixComplete(r) == r.digest # Unknown /\ r.done
CompleteFor(r, w) == PrefixComplete(r) /\ r.ino = w.ino /\ r.csize = w.n

\* _select_read_wire, for a wire or (NoWire) for a manifest entry without one.
SelectRead(r, b, w) ==
    IF w # NoWire /\ CompleteFor(r, w) THEN "none"
    ELSE IF b # 0 /\ r.blob # 0
    THEN IF PrefixComplete(r) /\ (w = NoWire \/ w.act) THEN "none"
         ELSE IF PrefixComplete(r) /\ w.n > r.csize THEN "live" ELSE "blob"
    ELSE IF w = NoWire THEN "none" ELSE "live"

PlanFor(s, r, b, w) ==
    LET read == SelectRead(r, b, w) IN
    [src |-> s, wire |-> w, read |-> read, blob |-> b,
     raw |-> IF read = "blob" THEN blob[b].wire.n ELSE IF read = "live" THEN w.n ELSE 0,
     pos |-> r.off, cfc |-> w # NoWire /\ CompleteFor(r, w), vn |-> 0,
     vs |-> Unknown, man |-> r.man]

\* The prefix a reused row must still show: the last verified size, or the
\* completed prefix, or (before any completion) the recorded size.
MustVerify(r, w) ==
    r.digest # Unknown /\ (r.path # w.path \/ w.n > r.csize \/ r.conf \/ ~ r.done)
VerifySize(r) == IF r.vsize # 0 THEN r.vsize ELSE IF r.done THEN r.csize ELSE r.n

FreeSlot == {s \in Slots : rows[s].id = <<>> /\ \A t \in Slots : t < s => rows[t].id # <<>>}
SlotOf(id) == LET old == {s \in Slots : rows[s].id = id}
              IN  IF old # {} THEN old ELSE FreeSlot

\* _build_plan for another generation: record_source with reset_progress; the
\* digest of a row that already has this id survives (COALESCE).
PlanFresh(id, w, b, wire) ==
    \E s \in SlotOf(id) :
        LET r == [NoRow EXCEPT !.id = id, !.path = w.path, !.ino = w.ino, !.n = w.n,
                    !.m = w.m, !.act = w.act, !.digest = rows[s].digest,
                    !.man = (b # 0 \/ rows[s].man),
                    !.blob = IF b # 0 THEN b ELSE rows[s].blob]
        IN  /\ rows' = Put(s, r)
            /\ plans' = plans \cup {PlanFor(s, r, b, wire)}

\* _build_plan for the same generation: the identity is refreshed, progress kept.
Refreshed(s, w, b) ==
    [rows[s] EXCEPT !.path = w.path, !.ino = w.ino, !.n = w.n, !.m = w.m, !.act = w.act,
                    !.man = (b # 0 \/ @), !.blob = IF b # 0 THEN b ELSE @]

Unchanged(r, w) == [path |-> r.path, ino |-> r.ino, n |-> r.n, m |-> r.m, act |-> r.act] = w

PlanSame_Unverified(s, old, w, b, wire) ==
    LET r == IF Unchanged(old, w) THEN old ELSE Refreshed(s, w, b)
    IN  /\ rows' = IF Unchanged(old, w) THEN rows ELSE Put(s, r)
        /\ plans' = plans \cup {PlanFor(s, r, b, wire)}

PlanSame(s, old, w, b, wire) ==
    LET r == IF Unchanged(old, w) THEN old ELSE Refreshed(s, w, b)
        p == PlanFor(s, r, b, wire)
    IN  /\ rows' = IF Unchanged(old, w) THEN rows ELSE Put(s, r)
        /\ plans' = plans \cup
             {IF wire # NoWire /\ MustVerify(old, w)
              THEN [p EXCEPT !.vn = VerifySize(old), !.vs = old.digest] ELSE p}

\* The blob that belongs to a base id: the manifest's, or the row's own.
BlobOf(id, r) ==
    IF Len(id) = 1 /\ id[1] \in Paths /\ blob[id[1]].st # "none" THEN id[1] ELSE r.blob

\* A file the rows do not know may still be a manifest entry under a new name.
ManifestOf(w) == {p \in Paths : blob[p].st # "none" /\ blob[p].wire.ino = w.ino}

\* A new or replaced live tail is left to the live reader until rotation.
PlanWire(w) ==
    /\ mpc = "plan" /\ w \in todo
    /\ todo' = todo \ {w}
    /\ \/ \E s \in MatchRecord(w) :
            LET b == BlobOf(recs[s].id, recs[s])
                frozen == b # 0 /\ blob[b].wire.ino = w.ino
            IN  IF SameGeneration(recs[s], w) THEN PlanSame(s, recs[s], w, b, w)
                ELSE IF frozen \/ (~ w.act /\ w.path # Live)
                THEN PlanFresh(NextGeneration(recs[s].id), w, 0, w)
                ELSE UNCHANGED <<rows, plans>>
       \/ /\ MatchRecord(w) = {}
          /\ \E p \in IF ManifestOf(w) # {} THEN ManifestOf(w) ELSE {w.path} :
               LET b == BlobOf(<<p>>, NoRow)
                   frozen == b # 0 /\ blob[b].wire.ino = w.ino
               IN  IF frozen \/ (~ w.act /\ w.path # Live)
                   THEN PlanFresh(<<p>>, w, b, w)
                   ELSE UNCHANGED <<rows, plans>>
    /\ UNCHANGED <<at, data, mtime, open, clock, loki, cap, blob, pend, mpc, recs, cur,
                   got, covered>>

\* A manifest entry no wire has claimed is read from its blob alone; its row is
\* given the manifest's identity (the wire of the capture).
Unclaimed ==
    {p \in Paths : /\ blob[p].st # "none"
                   /\ \A l \in plans : rows[l.src].id # <<p>>
                   /\ \A s \in Slots : rows[s].id = <<p>> => ~ PrefixComplete(rows[s])}

PlanBlob(p) ==
    /\ mpc = "plan" /\ todo = {} /\ p \in Unclaimed
    /\ IF \E s \in Slots : rows[s].id = <<p>>
       THEN \E s \in SlotOf(<<p>>) : PlanSame(s, rows[s], blob[p].wire, p, NoWire)
       ELSE PlanFresh(<<p>>, blob[p].wire, p, NoWire)
    /\ UNCHANGED <<at, data, mtime, open, clock, loki, cap, blob, pend, mpc, todo, recs,
                   cur, got, covered>>

EndPlan ==
    /\ mpc = "plan" /\ todo = {} /\ Unclaimed = {}
    /\ mpc' = "next" /\ recs' = [s \in Slots |-> NoRow]
    /\ UNCHANGED <<at, data, mtime, open, clock, loki, rows, cap, blob, pend, todo, plans,
                   cur, got, covered>>

-----------------------------------------------------------------------------
(***************************************************************************)
(* Importing one planned source after another, manifest entries first.     *)
(***************************************************************************)
\* current_coverage: the whole current file, closed and under an archive name,
\* is acknowledged.  Only such a file may be deleted.
Covers(r, w) ==
    /\ w # NoWire /\ r.digest # Unknown /\ r.ack
    /\ ~ r.act /\ r.path # Live /\ CompleteFor(r, w)

CoveredBy(l, r) ==
    covered \cup
      IF Covers(r, l.wire) /\ \A c \in covered : c.src # l.src
      THEN {[path |-> l.wire.path, ino |-> l.wire.ino, n |-> l.wire.n, m |-> l.wire.m,
             src |-> l.src, digest |-> r.digest]}
      ELSE {}

\* A complete and undisturbed file is covered as it is; the rest is verified
\* if it is read live, and read.
PickPlan(l) ==
    /\ mpc = "next" /\ l \in plans
    /\ l.man \/ \A k \in plans : ~ k.man
    /\ plans' = plans \ {l}
    /\ \/ /\ l.cfc /\ l.vs = Unknown
          /\ covered' = CoveredBy(l, rows[l.src])
          /\ UNCHANGED <<mpc, cur>>
       \/ /\ ~ l.cfc /\ l.read = "none"
          /\ UNCHANGED <<mpc, cur, covered>>
       \/ /\ l.read = "live" \/ (l.cfc /\ l.vs # Unknown)
          /\ mpc' = "prepare" /\ cur' = l /\ UNCHANGED covered
       \/ /\ l.read = "blob"
          /\ mpc' = "read" /\ cur' = l /\ UNCHANGED covered
    /\ UNCHANGED <<at, data, mtime, open, clock, loki, rows, cap, blob, pend, todo, recs,
                   got>>

\* _prepare_live_input: read the file and compare the prefix already vouched
\* for.  A mismatch is recorded and stops the run.
Readable(w) == HasFile(w.path, w.ino, w.n)

VerifyPrefix ==
    /\ mpc = "prepare"
    /\ LET w == cur.wire
           r == rows[cur.src]
           content == First(data[w.ino], w.n)
       IN  \/ /\ ~ Readable(w)
              /\ mpc' = "release" /\ cur' = NoPlan /\ UNCHANGED <<rows, got>>
           \/ /\ Readable(w)
              /\ cur.vs # Unknown /\ (w.n < cur.vn \/ First(content, cur.vn) # cur.vs)
              /\ rows' = Put(cur.src, [r EXCEPT !.conf = TRUE])
              /\ mpc' = "release" /\ cur' = NoPlan /\ UNCHANGED got
           \/ /\ Readable(w)
              /\ cur.vs = Unknown \/ (w.n >= cur.vn /\ First(content, cur.vn) = cur.vs)
              /\ rows' = Put(cur.src, [r EXCEPT !.vsize = w.n, !.conf = FALSE])
              /\ mpc' = "digest" /\ got' = content /\ UNCHANGED cur
    /\ UNCHANGED <<at, data, mtime, open, clock, loki, cap, blob, pend, todo, recs, plans,
                   covered>>

\* set_source_digest: the digest of the whole file as it was verified.
SaveDigest ==
    /\ mpc = "digest"
    /\ rows' = Put(cur.src, [rows[cur.src] EXCEPT !.digest = got])
    /\ got' = <<>>
    /\ IF cur.cfc
       THEN mpc' = "next" /\ cur' = NoPlan /\ covered' = CoveredBy(cur, rows'[cur.src])
       ELSE mpc' = "read" /\ UNCHANGED <<cur, covered>>
    /\ UNCHANGED <<at, data, mtime, open, clock, loki, cap, blob, pend, todo, recs, plans>>

\* _import_source reads the source again, from its start; one that has moved
\* or gone is left for the next run.
ReadSource ==
    /\ mpc = "read"
    /\ LET b == cur.blob
           w == cur.wire
       IN  \/ /\ cur.read = "blob" /\ blob[b].st = "captured"
              /\ got' = blob[b].units /\ mpc' = "save" /\ UNCHANGED cur
           \/ /\ cur.read = "live" /\ Readable(w)
              /\ got' = First(data[w.ino], w.n) /\ mpc' = "save" /\ UNCHANGED cur
           \/ /\ \/ cur.read = "blob" /\ blob[b].st # "captured"
                 \/ cur.read = "live" /\ ~ Readable(w)
              /\ mpc' = "next" /\ cur' = NoPlan /\ UNCHANGED got
    /\ UNCHANGED <<at, data, mtime, open, clock, loki, rows, cap, blob, pend, todo, recs,
                   plans, covered>>

\* _flush_values saves the exact body before it is sent.  Body and run limits
\* cut it anywhere; only one that reaches the end of the source completes it.
SaveBatch_FromStart(k, done) ==
    /\ mpc = "save" /\ cur.pos + k <= Len(got)
    /\ done => cur.pos + k = Len(got)
    /\ pend' = [src |-> cur.src, from |-> cur.pos, to |-> cur.pos + k,
                units |-> First(got, k), done |-> done,
                digest |-> IF done THEN got ELSE Unknown]
    /\ mpc' = "push"
    /\ UNCHANGED <<at, data, mtime, open, clock, loki, rows, cap, blob, todo, recs, plans,
                   cur, got, covered>>

SaveBatch(k, done) ==
    /\ mpc = "save" /\ cur.pos + k <= Len(got)
    /\ done => cur.pos + k = Len(got)
    /\ pend' = [src |-> cur.src, from |-> cur.pos, to |-> cur.pos + k,
                units |-> SubSeq(got, cur.pos + 1, cur.pos + k), done |-> done,
                digest |-> IF done THEN got ELSE Unknown]
    /\ mpc' = "push"
    /\ UNCHANGED <<at, data, mtime, open, clock, loki, rows, cap, blob, todo, recs, plans,
                   cur, got, covered>>

\* The run's archive budget is spent.
StopOnBudget ==
    /\ mpc = "save"
    /\ mpc' = "release"
    /\ UNCHANGED <<at, data, mtime, open, clock, loki, rows, cap, blob, pend, todo, recs,
                   plans, cur, got, covered>>

\* Nothing is left to send: an empty file, or one whose units are all
\* acknowledged.
NothingToSend ==
    /\ mpc = "save" /\ cur.pos >= Len(got)
    /\ mpc' = "mark"
    /\ UNCHANGED <<at, data, mtime, open, clock, loki, rows, cap, blob, pend, todo, recs,
                   plans, cur, got, covered>>

\* _mark_complete: completion, digest and acknowledgement, one transaction each.
MarkComplete ==
    /\ mpc = "mark"
    /\ LET r == rows[cur.src]
           w == cur.wire
           now == IF w = NoWire THEN r
                  ELSE [r EXCEPT !.path = w.path, !.ino = w.ino, !.n = w.n, !.m = w.m,
                                 !.act = w.act]
       IN  rows' = Put(cur.src, [now EXCEPT !.done = TRUE, !.csize = cur.raw,
                                            !.frozen = (cur.read = "blob" \/ @)])
    /\ mpc' = "markdigest"
    /\ UNCHANGED <<at, data, mtime, open, clock, loki, cap, blob, pend, todo, recs, plans,
                   cur, got, covered>>

MarkDigest ==
    /\ mpc = "markdigest"
    /\ rows' = Put(cur.src, [rows[cur.src] EXCEPT !.digest = got])
    /\ mpc' = "markack"
    /\ UNCHANGED <<at, data, mtime, open, clock, loki, cap, blob, pend, todo, recs, plans,
                   cur, got, covered>>

MarkAcknowledged ==
    /\ mpc = "markack"
    /\ rows' = Put(cur.src, [rows[cur.src] EXCEPT !.ack = TRUE])
    /\ covered' = CoveredBy(cur, rows'[cur.src])
    /\ mpc' = "next" /\ cur' = NoPlan /\ got' = <<>>
    /\ UNCHANGED <<at, data, mtime, open, clock, loki, cap, blob, pend, todo, recs, plans>>

EndImport ==
    /\ mpc = "next" /\ plans = {}
    /\ mpc' = "release"
    /\ UNCHANGED <<at, data, mtime, open, clock, loki, rows, cap, blob, pend, todo, recs,
                   plans, cur, got, covered>>

\* _maybe_release: a blob goes once its source's prefix is complete and no
\* batch is pending.  Releasing it on the node twice has no effect, so the
\* node's deletion and the store's mark are one step.
ReleaseBlob_Early(p) ==
    /\ mpc = "release" /\ pend = NoBatch /\ blob[p].st = "captured"
    /\ \E s \in Slots : rows[s].id = <<p>>
    /\ blob' = [blob EXCEPT ![p].st = "released"]
    /\ UNCHANGED <<at, data, mtime, open, clock, loki, rows, cap, pend, mpc, todo, recs,
                   plans, cur, got, covered>>

ReleaseBlob(p) ==
    /\ mpc = "release" /\ pend = NoBatch /\ blob[p].st = "captured"
    /\ \E s \in Slots : /\ rows[s].id = <<p>> /\ PrefixComplete(rows[s])
                        /\ rows[s].frozen \/ rows[s].digest = blob[p].units
    /\ blob' = [blob EXCEPT ![p].st = "released"]
    /\ UNCHANGED <<at, data, mtime, open, clock, loki, rows, cap, pend, mpc, todo, recs,
                   plans, cur, got, covered>>

EndRun ==
    /\ mpc = "release" /\ Forget
    /\ UNCHANGED <<at, data, mtime, open, clock, loki, rows, cap, blob, pend>>

Crash ==
    /\ mpc \notin {"idle", "release"} /\ Forget
    /\ UNCHANGED <<at, data, mtime, open, clock, loki, rows, cap, blob, pend>>

Manager ==
    \/ StartRun \/ BeginCapture \/ FinishCapture
    \/ \E p \in Paths : SpoolBlob(p) \/ CaptureFails(p)
    \/ PushBatch \/ AckBatch \/ RebuildBatch \/ RebuildFails
    \/ BeginPlan \/ EndPlan
    \/ \E w \in todo : PlanWire(w)
    \/ \E p \in Paths : PlanBlob(p) \/ ReleaseBlob(p)
    \/ \E l \in plans : PickPlan(l)
    \/ VerifyPrefix \/ SaveDigest \/ ReadSource \/ NothingToSend \/ StopOnBudget
    \/ \E k \in 1 .. MaxClock, done \in BOOLEAN : SaveBatch(k, done)
    \/ MarkComplete \/ MarkDigest \/ MarkAcknowledged
    \/ EndImport \/ EndRun \/ Crash

Next == Guest \/ Manager

Spec == Init /\ [][Next]_vars

-----------------------------------------------------------------------------
(***************************************************************************)
(* Properties.                                                             *)
(***************************************************************************)
\* Every file of a plan is imported into a source row of its own.  Planning picks
\* ids from the rows it began with (existing_ids, by_id), so that two files can be
\* given one new id; what follows is kept as long as that does not happen.
OwnRows == \A k, l \in plans \cup {cur} : k.src = l.src => k = l

\* A file is offered for deletion only with a digest of its own size, all of whose
\* units Loki has accepted, whatever pushes were lost and wherever earlier runs
\* died (import_guest_logs: "each entry proves complete archive coverage").
CoveredMeansArchived ==
    \A c \in covered : Elems(c.digest) \subseteq loki /\ Len(c.digest) = c.n

\* What the node helper would delete (path, inode, stat and digest as covered,
\* no writer) is archived in full.
DeletableMeansArchived ==
    \A c \in covered :
        /\ at[c.path] = c.ino /\ ~ open[c.ino] /\ mtime[c.ino] = c.m
        /\ data[c.ino] = c.digest
        => Elems(data[c.ino]) \subseteq loki

\* A completed prefix is archived for good: no crash between the completion's
\* transactions and no later planning makes a row vouch for unsent units.
CompleteMeansArchived ==
    \A s \in Slots : PrefixComplete(rows[s]) =>
        Elems(First(rows[s].digest, rows[s].csize)) \subseteq loki

\* The node's frozen copy of a pre-existing log is given up only after every
\* unit of it is in Loki; rotation may have removed the original by then.
ReleasedMeansArchived ==
    \A p \in Paths : blob[p].st = "released" => Elems(blob[p].units) \subseteq loki

\* A saved batch starts exactly where its row's acknowledged progress ends, so
\* that resuming it neither skips nor repeats a unit.
PendingContinues ==
    pend # NoBatch => /\ pend.from = rows[pend.src].off
                      /\ Len(pend.units) = pend.to - pend.from

\* No unit is skipped: with the batch about to be sent, Loki has everything up to
\* the batch's end, and the whole source when the batch completes it, however
\* many runs, resumed batches and refreshed rows its progress has come through.
NothingSkipped ==
    mpc = "push" =>
        Elems(IF pend.done THEN got ELSE First(got, pend.to)) \subseteq
            loki \cup Elems(pend.units)

\* A completed prefix that the file still starts with never raises the
\* verification conflict that blocks the guest: it stays coverage after an
\* append, a rotation or a crash between two transactions.
KeptPrefixNoConflict ==
    \A s \in Slots :
        LET prefix == First(rows[s].digest, rows[s].csize)
            kept   == rows[s].ino \in Inodes
                      /\ First(data[rows[s].ino], rows[s].csize) = prefix
        IN  PrefixComplete(rows[s]) /\ kept => ~ rows[s].conf

\* A run that has been through every planned source leaves no completed initial
\* source unacknowledged: the initial-manifest gate advances.
CompletedGateAdvances ==
    mpc = "release" /\ plans = {} /\ cur = NoPlan /\ pend = NoBatch =>
        \A s \in Slots : rows[s].man /\ PrefixComplete(rows[s]) => rows[s].ack

\* A batch too old to send can be rebuilt as long as the bytes of its range are
\* still in the guest.
StaleBatchRebuilds ==
    mpc = "flush" /\ pend # NoBatch =>
        LET i == rows[pend.src].ino IN
        Linked(i) /\ Len(data[i]) >= pend.to => RebuildRange(rows[pend.src]) # {}
=============================================================================
