----------------------- MODULE ArchiveImport_proofs -----------------------
(***************************************************************************)
(* Theorems about ArchiveImport, for every number of paths, inodes and     *)
(* source rows.                                                            *)
(***************************************************************************)
EXTENDS ArchiveImport, SequenceTheorems, FiniteSetTheorems, WellFoundedInduction, TLAPS

(***************************************************************************)
(* Sequences and rows.                                                     *)
(***************************************************************************)
\* A prefix of a sequence of units.
LEMMA FirstIs ==
  ASSUME NEW q \in Units, NEW k \in Nat
  PROVE  /\ First(q, k) \in Units
         /\ Len(First(q, k)) = IF k <= Len(q) THEN k ELSE Len(q)
         /\ \A j \in 1 .. Len(First(q, k)) : First(q, k)[j] = q[j]
  <1> DEFINE n == IF k <= Len(q) THEN k ELSE Len(q)
  <1>1. Len(q) \in Nat /\ n \in 0 .. Len(q)
    BY DEF Units
  <1>2. \A j \in 1 .. n : q[j] \in Nat
    BY <1>1 DEF Units
  <1> HIDE DEF n
  <1>3. /\ SubSeq(q, 1, n) \in Units
        /\ Len(SubSeq(q, 1, n)) = IF 1 <= n THEN n - 1 + 1 ELSE 0
        /\ \A j \in 1 .. n - 1 + 1 : SubSeq(q, 1, n)[j] = q[1 + j - 1]
    BY <1>1, <1>2, SubSeqProperties DEF Units
  <1> QED
    BY <1>1, <1>3 DEF First, n
-----------------------------------------------------------------------------
(***************************************************************************)
(* What the types of ArchiveImport leave out: the slots and paths that     *)
(* rows, plans and batches refer to, and a bound on generations.           *)
(***************************************************************************)
Importing == {"prepare", "digest", "read", "save", "push", "mark", "markdigest", "markack"}
Planned   == {"plan", "next"} \cup Importing
Reading   == {"save", "push", "ack", "mark", "markdigest", "markack"}

Same(r, q) ==    \* equal but for the time of their last write
    /\ r.id = q.id /\ r.path = q.path /\ r.ino = q.ino /\ r.n = q.n /\ r.m = q.m
    /\ r.act = q.act /\ r.off = q.off /\ r.digest = q.digest /\ r.ack = q.ack
    /\ r.done = q.done /\ r.csize = q.csize /\ r.vsize = q.vsize /\ r.conf = q.conf
    /\ r.man = q.man /\ r.blob = q.blob /\ r.frozen = q.frozen

RefOK(r)   == /\ r.id # <<>> => r.id[1] \in Paths
              /\ r.blob \in Paths \cup {0}
PlanSrc(l) == /\ l.src \in Slots
              /\ l.blob \in Paths \cup {0} /\ (l.read = "blob" => l.blob # 0)
RefInv ==
    /\ \A s \in Slots : RefOK(rows[s])
    /\ mpc = "plan" => \A s \in Slots : /\ RefOK(recs[s])
                                        /\ recs[s].id # <<>> => recs[s].id = rows[s].id
    /\ \A l \in plans : PlanSrc(l)
    /\ cur = NoPlan \/ PlanSrc(cur)
    /\ pend # NoBatch => pend.src \in Slots
    /\ mpc \in {"push", "ack"} => pend # NoBatch
    /\ mpc \in Importing => cur # NoPlan
    /\ \A w \in todo : w.path \in Paths /\ w.ino \in Inodes
    /\ \A p \in Paths : blob[p].st # "none" => blob[p].wire.ino \in Inodes
Below(r, g) == \A j \in 1 .. Len(r.id) : r.id[j] <= g
GenInv ==
    \E g \in Nat : \A s \in Slots : /\ Below(rows[s], g)
                                    /\ mpc = "plan" => Below(recs[s], g)
TypeInv == TypeOK /\ RefInv /\ GenInv
-----------------------------------------------------------------------------
\* The empty values have their types.
LEMMA Empties ==
  /\ Unknown \in Units /\ <<>> \in Units /\ NoRow \in Row /\ NoBatch \in Batch
  /\ NoWire \in Wire /\ NoBlob \in Blob /\ NoPlan \in Plan
  <1>1. Unknown \in Units /\ <<>> \in Units
    BY DEF Unknown, Units
  <1>2. NoWire \in Wire
    BY DEF NoWire, Wire
  <1> QED
    BY <1>1, <1>2 DEF NoRow, Row, NoBatch, Batch, NoBlob, Blob, NoPlan, Plan

\* A transaction writes one row and may move the others in time.
LEMMA PutIs ==
  ASSUME rows \in [Slots -> Row], NEW s \in Slots, NEW r \in Row
  PROVE  /\ Put(s, r) \in [Slots -> Row]
         /\ Same(Put(s, r)[s], r)
         /\ \A x \in Slots : x # s => Same(Put(s, r)[x], rows[x])
  <1>1. Cardinality(Used \cup {s}) \in Nat
    <2>1. 1 \in Int /\ NSlots \in Int
      BY ImportAssumption
    <2>2. IsFiniteSet(Slots)
      BY <2>1, FS_Interval DEF Slots
    <2>3. Used \cup {s} \in SUBSET Slots
      BY DEF Used
    <2> QED
      BY <2>2, <2>3, FS_Subset, FS_CardinalityType
  <1> DEFINE c == Cardinality(Used \cup {s})
             new == [r EXCEPT !.upd = c]
  <1>2. new \in Row /\ Same(new, r)
    BY <1>1 DEF Row, Same
  <1> HIDE DEF c
  <1>3. ASSUME NEW x \in Slots, x # s
        PROVE  Put(s, r)[x] \in Row /\ Same(Put(s, r)[x], rows[x])
    <2> DEFINE old == [rows[x] EXCEPT !.upd = @ - 1]
    <2>1. rows[x] \in Row /\ rows[s] \in Row
      BY <1>3
    <2>2. ASSUME rows[s].upd > 0, rows[x].upd > rows[s].upd
          PROVE  old \in Row /\ Same(old, rows[x])
      BY <2>1, <2>2 DEF Row, Same
    <2>3. Put(s, r)[x] = IF rows[s].upd > 0 /\ rows[x].upd > rows[s].upd
                         THEN old ELSE rows[x]
      BY <1>3 DEF Put
    <2>4. Same(rows[x], rows[x])
      BY DEF Same
    <2> QED
      BY <2>1, <2>2, <2>3, <2>4
  <1>4. Put(s, r)[s] = new
    BY DEF Put, c
  <1>5. DOMAIN Put(s, r) = Slots /\ Put(s, r) = [x \in Slots |-> Put(s, r)[x]]
    BY DEF Put
  <1>6. \A x \in Slots : Put(s, r)[x] \in Row
    BY <1>2, <1>3, <1>4
  <1> HIDE DEF new
  <1> QED
    BY <1>2, <1>3, <1>4, <1>5, <1>6

\* A bounded set of numbers that has one has a greatest.
LEMMA Greatest ==
  ASSUME NEW S \in SUBSET Nat, S # {}, NEW g \in Nat, \A h \in S : h <= g
  PROVE  \E m \in S : \A h \in S : h <= m
  <1> DEFINE U == {n \in Nat : \A h \in S : h <= n}
  <1>1. PICK m \in U : \A y \in U : ~ (<<y, m>> \in OpToRel(<, Nat))
    <2>1. U \subseteq Nat /\ U # {}
      OBVIOUS
    <2> HIDE DEF U
    <2> QED
      BY <2>1, NatLessThanWellFounded, WFMin
  <1>2. \A y \in U : ~ (y < m)
    BY <1>1 DEF OpToRel
  <1>3. m \in S
    <2> SUFFICES ASSUME m \notin S PROVE FALSE
      OBVIOUS
    <2>1. PICK h \in S : TRUE
      OBVIOUS
    <2>2. \A k \in S : k <= m - 1 /\ m - 1 \in Nat
      BY DEF U
    <2>3. m - 1 \in U
      BY <2>1, <2>2
    <2> QED
      BY <1>2, <2>3
  <1> QED
    BY <1>3
-----------------------------------------------------------------------------
(***************************************************************************)
(* Every action keeps the types.                                           *)
(***************************************************************************)
LEMMA TypeInit == Init => TypeInv
  <1> SUFFICES ASSUME Init PROVE TypeInv
    OBVIOUS
  <1>1. TypeOK
    <2>1. rows \in [Slots -> Row] /\ recs \in [Slots -> Row]
      BY Empties DEF Init
    <2>2. \A s, t \in Slots : rows[s].id = rows[t].id => s = t \/ rows[s].id = <<>>
      BY DEF Init, NoRow
    <2>3. blob \in [Paths -> Blob] /\ \A p \in Paths : Len(blob[p].units) <= blob[p].wire.n
      BY Empties DEF Init, NoBlob, NoWire
    <2>4. at \in [Paths -> Inodes \cup {0}] /\ data \in [Inodes -> Units]
      BY Empties DEF Init
    <2> QED
      BY <2>1, <2>2, <2>3, <2>4, Empties DEF Init, TypeOK
  <1>2. RefInv
    BY DEF Init, RefInv, RefOK, NoRow, Importing, NoBlob
  <1>3. GenInv
    BY DEF Init, GenInv, Below, NoRow
  <1> QED
    BY <1>1, <1>2, <1>3 DEF TypeInv

LEMMA GuestTypes == TypeInv /\ Guest => TypeInv'
  <1> SUFFICES ASSUME TypeInv, Guest PROVE TypeInv'
    OBVIOUS
  <1>1. RefInv' /\ GenInv'
    BY DEF TypeInv, Guest, GuestOnly, Create, AppendLog, RewriteLog, CloseLog, RotateLog,
           RemoveLog, RefInv, RefOK, GenInv, Below, PlanSrc
  <1>2. TypeOK'
    <2> USE DEF TypeOK, GuestOnly
    <2> TypeOK
      BY DEF TypeInv
    <2>1. clock + 1 \in Nat /\ <<>> \in Units
      BY Empties
    <2>2. ASSUME NEW i \in Inodes, Create(i) PROVE TypeOK'
      BY <2>1, <2>2 DEF Create
    <2>3. ASSUME NEW i \in Inodes, AppendLog(i) PROVE TypeOK'
      <3>1. Append(data[i], clock + 1) \in Units
        BY <2>1, AppendProperties DEF Units
      <3> QED
        BY <2>1, <2>3, <3>1 DEF AppendLog
    <2>4. ASSUME NEW i \in Inodes, RewriteLog(i) PROVE TypeOK'
      <3>1. [data EXCEPT ![i][1] = clock + 1] \in [Inodes -> Units]
        <4>1. 1 \in 1 .. Len(data[i])
          BY <2>4, EmptySeq DEF RewriteLog, Units
        <4>2. [data[i] EXCEPT ![1] = clock + 1] \in Units
          BY <2>1, <4>1, ExceptSeq DEF Units
        <4> QED
          BY <4>2
      <3>2. \A t \in {mtime[i], clock + 1} : [mtime EXCEPT ![i] = t] \in [Inodes -> Nat]
        BY <2>1
      <3>3. [data EXCEPT ![i] = <<>>] \in [Inodes -> Units]
        BY <2>1
      <3>4. mtime' \in [Inodes -> Nat] /\ data' \in [Inodes -> Units] /\ clock' \in Nat
        BY <2>1, <2>4, <3>1, <3>2, <3>3 DEF RewriteLog
      <3> QED
        BY <2>4, <3>4 DEF RewriteLog
    <2>5. ASSUME NEW i \in Inodes, CloseLog(i) PROVE TypeOK'
      BY <2>5 DEF CloseLog
    <2>6. ASSUME NEW p \in Paths, RotateLog(p) PROVE TypeOK'
      BY <2>6 DEF RotateLog
    <2>7. ASSUME NEW p \in Paths, RemoveLog(p) PROVE TypeOK'
      BY <2>1, <2>7 DEF RemoveLog
    <2> QED
      BY <2>2, <2>3, <2>4, <2>5, <2>6, <2>7 DEF Guest
  <1> QED
    BY <1>1, <1>2 DEF TypeInv

\* A transaction that keeps the row's id.
LEMMA PutKeeps ==
  ASSUME TypeOK, \A x \in Slots : RefOK(rows[x]),
         NEW s \in Slots, NEW r \in Row, rows' = Put(s, r),
         r.id = rows[s].id, RefOK(r)
  PROVE  /\ rows' \in [Slots -> Row]
         /\ \A x, t \in Slots : rows'[x].id = rows'[t].id => x = t \/ rows'[x].id = <<>>
         /\ \A x \in Slots : rows'[x].id = rows[x].id /\ RefOK(rows'[x])
  <1>1. rows \in [Slots -> Row]
    BY DEF TypeOK
  <1>2. /\ Put(s, r) \in [Slots -> Row]
        /\ Same(Put(s, r)[s], r)
        /\ \A x \in Slots : x # s => Same(Put(s, r)[x], rows[x])
    BY <1>1, PutIs
  <1>3. \A x \in Slots : rows'[x].id = rows[x].id
    BY <1>2 DEF Same
  <1>4. \A x \in Slots : RefOK(rows'[x])
    BY <1>2 DEF RefOK, Same
  <1>5. \A x, t \in Slots : rows[x].id = rows[t].id => x = t \/ rows[x].id = <<>>
    BY DEF TypeOK
  <1> QED
    BY <1>2, <1>3, <1>4, <1>5

\* A step that leaves the ids of the rows leaves the bound on their generations.
LEMMA GenKept ==
  ASSUME GenInv, \A x \in Slots : rows'[x].id = rows[x].id,
         mpc' = "plan" => recs' = rows' \/ (mpc = "plan" /\ recs' = recs)
  PROVE  GenInv'
  BY DEF GenInv, Below
-----------------------------------------------------------------------------
LEMMA ForgetTypes ==
  ASSUME TypeInv, Forget, UNCHANGED <<at, data, mtime, open, clock, loki, rows, cap, blob, pend>>
  PROVE  TypeInv'
  <1>1. TypeOK'
    BY Empties DEF TypeInv, TypeOK, Forget
  <1>2. RefInv'
    BY DEF TypeInv, RefInv, Forget, Importing
  <1>3. GenInv'
    BY GenKept DEF Forget, TypeInv
  <1> QED
    BY <1>1, <1>2, <1>3 DEF TypeInv

LEMMA CaptureTypes ==
  ASSUME TypeInv,
         \/ StartRun \/ BeginCapture \/ FinishCapture
         \/ \E p \in Paths : SpoolBlob(p) \/ CaptureFails(p)
  PROVE  TypeInv'
  <1> TypeOK /\ RefInv /\ GenInv
    BY DEF TypeInv
  <1>1. CASE StartRun
    <2>1. \A w \in Probe : w \in Wire /\ w.path \in Paths /\ w.ino \in Inodes
      BY DEF Probe, TypeOK, Wire, Paths, Inodes, Units
    <2>2. TypeOK'
      BY <1>1, <2>1 DEF StartRun, TypeOK
    <2>3. RefInv'
      BY <1>1, <2>1 DEF StartRun, RefInv, RefOK, PlanSrc, Importing
    <2> QED
      BY <1>1, <2>2, <2>3, GenKept DEF StartRun, TypeInv
  <1>2. CASE BeginCapture
    <2>1. ASSUME NEW p \in Paths
          PROVE  /\ blob'[p] \in Blob
                 /\ Len(blob'[p].units) <= blob'[p].wire.n
                 /\ blob'[p].st # "none" => blob'[p].wire.ino \in Inodes
      <3>1. CASE \A w \in todo : w.path # p
        BY <1>2, <3>1, Empties DEF BeginCapture, NoBlob, NoWire
      <3>2. CASE \E w \in todo : w.path = p
        <4> DEFINE v == CHOOSE w \in todo : w.path = p
        <4>1. v \in todo /\ v.path = p
          BY <3>2
        <4>2. v \in Wire /\ v.ino \in Inodes /\ v.n \in Nat
          BY <4>1 DEF TypeOK, RefInv, Wire
        <4>3. blob'[p] = [wire |-> v, st |-> "expected", units |-> <<>>]
          BY <1>2, <3>2 DEF BeginCapture
        <4> HIDE DEF v
        <4> QED
          BY <4>2, <4>3, Empties DEF Blob
      <3> QED
        BY <3>1, <3>2
    <2>2. blob' \in [Paths -> Blob]
      <3>1. blob' = [p \in Paths |-> blob'[p]]
        BY <1>2 DEF BeginCapture
      <3> QED
        BY <2>1, <3>1
    <2>3. TypeOK'
      BY <1>2, <2>1, <2>2 DEF BeginCapture, TypeOK
    <2>4. RefInv'
      BY <1>2, <2>1 DEF BeginCapture, RefInv, RefOK, PlanSrc, Importing
    <2> QED
      BY <1>2, <2>3, <2>4, GenKept DEF BeginCapture, TypeInv
  <1>3. CASE FinishCapture
    <2>1. ASSUME NEW p \in Paths
          PROVE  /\ blob'[p] \in Blob
                 /\ blob'[p].units = blob[p].units /\ blob'[p].wire = blob[p].wire
                 /\ blob[p].st = "none" => blob'[p].st = "none"
      BY <1>3 DEF FinishCapture, TypeOK, Blob
    <2>2. blob' \in [Paths -> Blob]
      <3>1. blob' = [p \in Paths |-> blob'[p]]
        BY <1>3 DEF FinishCapture
      <3> QED
        BY <2>1, <3>1
    <2>3. TypeOK'
      BY <1>3, <2>1, <2>2 DEF FinishCapture, TypeOK
    <2>4. RefInv'
      BY <1>3, <2>1 DEF FinishCapture, RefInv, RefOK, PlanSrc, Importing
    <2> QED
      BY <1>3, <2>3, <2>4, GenKept DEF FinishCapture, TypeInv
  <1>4. ASSUME NEW p \in Paths, SpoolBlob(p) PROVE TypeInv'
    <2> DEFINE u == First(data[blob[p].wire.ino], blob[p].wire.n)
    <2>1. blob[p].wire.ino \in Inodes /\ blob[p].wire.n \in Nat /\ blob[p] \in Blob
      BY <1>4 DEF SpoolBlob, RefInv, TypeOK, Blob, Wire
    <2>2. data[blob[p].wire.ino] \in Units /\ Len(data[blob[p].wire.ino]) \in Nat
      BY <2>1 DEF TypeOK, Units
    <2>3. u \in Units /\ Len(u) <= blob[p].wire.n
      BY <2>1, <2>2, FirstIs
    <2> HIDE DEF u
    <2>4. /\ [blob[p] EXCEPT !.st = "spooled", !.units = u] \in Blob
          /\ [blob[p] EXCEPT !.st = "spooled", !.units = u].wire = blob[p].wire
          /\ [blob[p] EXCEPT !.st = "spooled", !.units = u].units = u
      BY <2>1, <2>3 DEF Blob
    <2>5. blob' = [blob EXCEPT ![p] = [blob[p] EXCEPT !.st = "spooled", !.units = u]]
      BY <1>4 DEF SpoolBlob, u, TypeOK
    <2>6. blob' \in [Paths -> Blob] /\ \A q \in Paths : Len(blob'[q].units) <= blob'[q].wire.n
      BY <2>3, <2>4, <2>5 DEF TypeOK
    <2>7. \A q \in Paths : blob'[q].wire = blob[q].wire /\ (q = p \/ blob'[q].st = blob[q].st)
      BY <2>4, <2>5 DEF TypeOK
    <2>8. TypeOK'
      BY <1>4, <2>6 DEF SpoolBlob, TypeOK
    <2>9. RefInv'
      BY <1>4, <2>1, <2>7 DEF SpoolBlob, RefInv, RefOK, PlanSrc, Importing
    <2> QED
      BY <1>4, <2>8, <2>9, GenKept DEF SpoolBlob, TypeInv
  <1>5. ASSUME NEW p \in Paths, CaptureFails(p) PROVE TypeInv'
    <2>1. TypeOK' /\ RefInv'
      BY <1>5 DEF CaptureFails, TypeOK, RefInv, RefOK, PlanSrc, Importing
    <2> QED
      BY <1>5, <2>1, GenKept DEF CaptureFails, TypeInv
  <1> QED
    BY <1>1, <1>2, <1>3, <1>4, <1>5

LEMMA PushTypes == TypeInv /\ PushBatch => TypeInv'
  <1> SUFFICES ASSUME TypeInv, PushBatch PROVE TypeInv'
    OBVIOUS
  <1> TypeOK /\ RefInv /\ GenInv
    BY DEF TypeInv
  <1>1. Elems(pend.units) \subseteq Nat
    BY DEF TypeOK, Batch, Units, Elems
  <1>2. loki' \subseteq Nat
    BY <1>1 DEF PushBatch, TypeOK
  <1>3. TypeOK'
    BY <1>2 DEF PushBatch, TypeOK
  <1>4. RefInv'
    BY DEF PushBatch, RefInv, RefOK, PlanSrc, Importing
  <1> QED
    BY <1>3, <1>4, GenKept DEF PushBatch, TypeInv

LEMMA AckTypes == TypeInv /\ AckBatch => TypeInv'
  <1> SUFFICES ASSUME TypeInv, AckBatch PROVE TypeInv'
    OBVIOUS
  <1> TypeOK /\ RefInv /\ GenInv
    BY DEF TypeInv
  <1> DEFINE r == [rows[pend.src] EXCEPT
                  !.off = pend.to,
                  !.ack = pend.done,
                  !.digest = IF pend.done THEN pend.digest ELSE @]
  <1>1. pend.src \in Slots /\ rows[pend.src] \in Row /\ pend \in Batch
    BY DEF AckBatch, RefInv, TypeOK
  <1>2. r \in Row /\ r.id = rows[pend.src].id /\ r.blob = rows[pend.src].blob
    BY <1>1 DEF Row, Batch
  <1>10. RefOK(r)
    BY <1>1, <1>2 DEF RefInv, RefOK
  <1>3. rows' = Put(pend.src, r)
    BY DEF AckBatch
  <1> HIDE DEF r
  <1>4. /\ rows' \in [Slots -> Row]
        /\ \A x, t \in Slots : rows'[x].id = rows'[t].id => x = t \/ rows'[x].id = <<>>
        /\ \A x \in Slots : rows'[x].id = rows[x].id /\ RefOK(rows'[x])
    BY <1>1, <1>2, <1>10, <1>3, PutKeeps DEF RefInv
  <1>5. cur' \in Plan /\ (cur # NoPlan => PlanSrc(cur')) /\ (cur = NoPlan => cur' = NoPlan)
        /\ (cur # NoPlan => cur' # NoPlan)
    <2>1. pend.to \in Nat
      BY <1>1 DEF Batch
    <2>2. CASE cur = NoPlan
      BY <2>2 DEF AckBatch, TypeOK
    <2>3. CASE cur # NoPlan
      <3>1. cur' = [cur EXCEPT !.pos = pend.to] /\ cur \in Plan /\ PlanSrc(cur)
        BY <2>3 DEF AckBatch, TypeOK, RefInv
      <3>2. cur' \in Plan /\ cur'.src = cur.src /\ cur'.blob = cur.blob
            /\ cur'.read = cur.read
        BY <2>1, <3>1 DEF Plan
      <3>3. NoPlan.src = 0 /\ cur.src # 0
        BY <3>1, ImportAssumption DEF PlanSrc, NoPlan, Slots
      <3> QED
        BY <2>3, <3>1, <3>2, <3>3 DEF PlanSrc
    <2> QED
      BY <2>2, <2>3
  <1>6. recs' \in [Slots -> Row] /\ mpc' \in {"plan", "mark", "save", "release"}
        /\ (mpc' = "plan" => recs' = rows') /\ (mpc' # "plan" => cur # NoPlan)
    BY <1>4 DEF AckBatch, TypeOK
  <1>7. TypeOK'
    BY <1>4, <1>5, <1>6, Empties DEF AckBatch, TypeOK
  <1>8. RefInv'
    BY <1>4, <1>5, <1>6 DEF AckBatch, RefInv, PlanSrc, Importing
  <1>9. GenInv'
    BY <1>4, <1>6, GenKept
  <1> QED
    BY <1>7, <1>8, <1>9 DEF TypeInv
-----------------------------------------------------------------------------
LEMMA RebuildTypes == TypeInv /\ (RebuildBatch \/ RebuildFails) => TypeInv'
  <1> SUFFICES ASSUME TypeInv, RebuildBatch \/ RebuildFails PROVE TypeInv'
    OBVIOUS
  <1> TypeOK /\ RefInv /\ GenInv
    BY DEF TypeInv
  <1>1. CASE RebuildFails
    BY <1>1, ForgetTypes DEF RebuildFails
  <1>2. CASE RebuildBatch
    <2>1. pend \in Batch /\ pend.src \in Slots /\ rows[pend.src] \in Row
      BY <1>2 DEF RebuildBatch, TypeOK, RefInv
    <2>2. PICK q \in RebuildRange(rows[pend.src]) :
            pend' = [pend EXCEPT !.units = SubSeq(q, pend.from + 1, pend.to)]
      BY <1>2 DEF RebuildBatch
    <2>3. q \in Units /\ Len(q) >= pend.to
      <3> DEFINE r == rows[pend.src]
      <3>1. r.blob \in Paths \cup {0} /\ r.n \in Nat
        BY <2>1 DEF RefInv, RefOK, Row
      <3>2. \A p \in Paths : blob[p].units \in Units
        BY DEF TypeOK, Blob
      <3>3. \A i \in Inodes : First(data[i], r.n) \in Units
        BY <3>1, FirstIs DEF TypeOK
      <3>4. q \in RebuildSource(r) /\ Len(q) >= pend.to
        BY <2>2 DEF RebuildRange
      <3> HIDE DEF r
      <3> QED
        BY <3>1, <3>2, <3>3, <3>4 DEF RebuildSource, HasFile
    <2>4. SubSeq(q, pend.from + 1, pend.to) \in Units
      <3>1. pend.from + 1 \in Int /\ pend.to \in Int /\ pend.from \in Nat
        BY <2>1 DEF Batch
      <3>2. \A j \in pend.from + 1 .. pend.to : q[j] \in Nat
        BY <2>3, <3>1 DEF Units
      <3> QED
        BY <3>1, <3>2, SubSeqProperties DEF Units
    <2>5. pend' \in Batch /\ pend'.src = pend.src
      BY <2>1, <2>2, <2>4 DEF Batch
    <2>6. TypeOK'
      BY <1>2, <2>5 DEF RebuildBatch, TypeOK
    <2>7. RefInv'
      BY <1>2, <2>1, <2>5 DEF RebuildBatch, RefInv, RefOK, PlanSrc, Importing
    <2> QED
      BY <1>2, <2>6, <2>7, GenKept DEF RebuildBatch, TypeInv
  <1> QED
    BY <1>1, <1>2

LEMMA PlanEdgeTypes == TypeInv /\ (BeginPlan \/ EndPlan) => TypeInv'
  <1> SUFFICES ASSUME TypeInv, BeginPlan \/ EndPlan PROVE TypeInv'
    OBVIOUS
  <1>1. TypeOK'
    BY Empties DEF TypeInv, BeginPlan, EndPlan, TypeOK
  <1>2. RefInv'
    BY DEF TypeInv, BeginPlan, EndPlan, RefInv, RefOK, PlanSrc, Importing
  <1> QED
    BY <1>1, <1>2, GenKept DEF BeginPlan, EndPlan, TypeInv

-----------------------------------------------------------------------------
(***************************************************************************)
(* Planning.                                                               *)
(***************************************************************************)
\* A plan's types.
LEMMA PlanForTypes ==
  ASSUME TypeInv, NEW s \in Slots, NEW r \in Row, NEW b \in Paths \cup {0}, NEW w \in Wire
  PROVE  PlanFor(s, r, b, w) \in Plan /\ PlanSrc(PlanFor(s, r, b, w))
  <1>1. SelectRead(r, b, w) \in {"none", "blob", "live"}
    BY DEF SelectRead
  <1>2. SelectRead(r, b, w) = "blob" => b # 0
    BY DEF SelectRead
  <1>3. b # 0 => blob[b].wire.n \in Nat
    BY DEF TypeInv, TypeOK, Blob, Wire
  <1>4. s \in Nat /\ b \in Nat /\ w.n \in Nat /\ r.off \in Nat /\ r.man \in BOOLEAN
    BY DEF Slots, Paths, Wire, Row
  <1> QED
    BY <1>1, <1>2, <1>3, <1>4, Empties DEF PlanFor, Plan, PlanSrc

\* A row taken for id has it already, or is free and no other row has it.
LEMMA SlotIs ==
  ASSUME TypeOK, NEW id \in Units, id # <<>>, NEW s \in SlotOf(id)
  PROVE  /\ s \in Slots
         /\ rows[s].id \in {<<>>, id}
         /\ \A t \in Slots : t # s => rows[t].id # id
  BY DEF SlotOf, FreeSlot, TypeOK

\* The id of the next generation extends its base and is no row's yet.
LEMMA NextGenerationIs ==
  ASSUME TypeInv, mpc = "plan", NEW id \in Units
  PROVE  /\ NextGeneration(id) \in Units
         /\ Len(NextGeneration(id)) = Len(id) + 1
         /\ \A j \in 1 .. Len(id) : NextGeneration(id)[j] = id[j]
         /\ \A s \in Slots : recs[s].id # NextGeneration(id)
         /\ NextGeneration(id)[Len(id) + 1] \in Nat
  <1> DEFINE k    == Len(id) + 1
             gens == {recs[s].id[k] : s \in {t \in Slots : Len(recs[t].id) = k
                                                 /\ First(recs[t].id, k - 1) = id}}
             g    == CHOOSE m \in gens \cup {1} : \A h \in gens : h <= m
  <1>1. \A s \in Slots : recs[s].id \in Units
    BY DEF TypeInv, TypeOK, Row
  <1>2. k \in Nat \ {0}
    BY DEF Units
  <1>3. PICK b \in Nat : \A s \in Slots : Below(recs[s], b)
    BY DEF TypeInv, GenInv
  <1>4. gens \subseteq Nat /\ \A h \in gens : h <= b
    BY <1>1, <1>2, <1>3 DEF Below, Units
  <1>5. \E m \in gens \cup {1} : \A h \in gens : h <= m
    <2> HIDE DEF gens
    <2>1. gens \cup {1} \in SUBSET Nat /\ gens \cup {1} # {} /\ b + 1 \in Nat
          /\ \A h \in gens \cup {1} : h <= b + 1
      BY <1>4
    <2> QED
      BY <2>1, Greatest
  <1>6. g \in Nat /\ \A h \in gens : h <= g
    <2> HIDE DEF gens
    <2>1. g \in gens \cup {1} /\ \A h \in gens : h <= g
      BY <1>5
    <2> HIDE DEF g
    <2> QED
      BY <1>4, <2>1
  <1>7. NextGeneration(id) = Append(id, 1 + g)
    BY DEF NextGeneration
  <1> HIDE DEF g
  <1>8. /\ NextGeneration(id) \in Units
        /\ Len(NextGeneration(id)) = k
        /\ \A j \in 1 .. Len(id) : NextGeneration(id)[j] = id[j]
        /\ NextGeneration(id)[k] = 1 + g
    <2>1. 1 + g \in Nat
      BY <1>6
    <2>2. /\ Append(id, 1 + g) \in Seq(Nat)
          /\ Len(Append(id, 1 + g)) = Len(id) + 1
          /\ \A j \in 1 .. Len(id) : Append(id, 1 + g)[j] = id[j]
          /\ Append(id, 1 + g)[Len(id) + 1] = 1 + g
      BY <2>1, AppendProperties DEF Units
    <2> QED
      BY <1>7, <2>2 DEF Units
  <1>9. ASSUME NEW s \in Slots, recs[s].id = NextGeneration(id) PROVE FALSE
    <2>1. recs[s].id \in Units /\ Len(recs[s].id) = k
      BY <1>1, <1>8, <1>9
    <2>2. First(recs[s].id, k - 1) = id
      <3>1. /\ First(recs[s].id, k - 1) \in Units
            /\ Len(First(recs[s].id, k - 1)) = k - 1
            /\ \A j \in 1 .. k - 1 : First(recs[s].id, k - 1)[j] = recs[s].id[j]
        BY <1>2, <2>1, FirstIs
      <3>2. k - 1 = Len(id)
        BY DEF Units
      <3>3. \A j \in 1 .. Len(id) : First(recs[s].id, k - 1)[j] = id[j]
        BY <1>8, <1>9, <3>1, <3>2
      <3> HIDE DEF k
      <3> QED
        BY <3>1, <3>2, <3>3, SeqEqual DEF Units
    <2>3. recs[s].id[k] \in gens
      BY <2>1, <2>2
    <2> HIDE DEF gens
    <2>4. 1 + g <= g
      BY <1>6, <1>8, <1>9, <2>3
    <2> QED
      BY <1>6, <2>4
  <1> QED
    BY <1>6, <1>8, <1>9
-----------------------------------------------------------------------------
\* What a planning step leaves of rows and plans.
RowsOK ==
    /\ rows \in [Slots -> Row]
    /\ \A x, t \in Slots : rows[x].id = rows[t].id => x = t \/ rows[x].id = <<>>
    /\ \A x \in Slots : RefOK(rows[x]) /\ (recs[x].id # <<>> => recs[x].id = rows[x].id)
PlansOK == \A l \in plans : l \in Plan /\ PlanSrc(l)

\* A refreshed row has a new identity and the old progress.
LEMMA RefreshedIs ==
  ASSUME TypeInv, NEW s \in Slots, NEW w \in Wire, NEW b \in Paths \cup {0}
  PROVE  LET r == Refreshed(s, w, b)  old == rows[s] IN
         /\ r \in Row /\ r.id = old.id /\ r.blob = IF b # 0 THEN b ELSE old.blob
         /\ Unchanged(r, w)
         /\ r.off = old.off /\ r.digest = old.digest /\ r.ack = old.ack
         /\ r.done = old.done /\ r.csize = old.csize
  <1> DEFINE old == rows[s]
             m == b # 0 \/ old.man
             k == IF b # 0 THEN b ELSE old.blob
             r == [old EXCEPT !.path = w.path, !.ino = w.ino, !.n = w.n, !.m = w.m,
                              !.act = w.act, !.man = m, !.blob = k]
  <1>1. old \in Row /\ b \in Nat
    BY DEF TypeInv, TypeOK, Paths
  <1>2. m \in BOOLEAN /\ k \in Nat
    BY <1>1 DEF Row
  <1>3. r = Refreshed(s, w, b)
    BY DEF Refreshed
  <1> HIDE DEF old, m, k
  <1>4. r \in Row
    BY <1>1, <1>2 DEF Row, Wire
  <1>5. /\ r.path = w.path /\ r.ino = w.ino /\ r.n = w.n /\ r.m = w.m /\ r.act = w.act
        /\ r.id = old.id /\ r.blob = k
    BY <1>1 DEF Row
  <1>6. /\ r.off = old.off /\ r.digest = old.digest /\ r.ack = old.ack
        /\ r.done = old.done /\ r.csize = old.csize
    BY <1>1 DEF Row
  <1> HIDE DEF r
  <1>7. Unchanged(r, w)
    BY <1>5 DEF Unchanged, Wire
  <1> QED
    BY <1>3, <1>4, <1>5, <1>6, <1>7 DEF k, old

\* Planning a wire of a generation that is known.
LEMMA PlanSameTypes ==
  ASSUME TypeInv, mpc = "plan", UNCHANGED <<mpc, recs>>,
         NEW s \in Slots, NEW old \in Row, NEW w \in Wire, NEW wire \in Wire,
         NEW b \in Paths \cup {0}, PlanSame(s, old, w, b, wire)
  PROVE  RowsOK' /\ GenInv' /\ PlansOK'
  <1> TypeOK /\ RefInv /\ GenInv
    BY DEF TypeInv
  <1> DEFINE r == IF Unchanged(old, w) THEN old ELSE Refreshed(s, w, b)
             p == PlanFor(s, r, b, wire)
             q == [p EXCEPT !.vn = VerifySize(old), !.vs = old.digest]
  <1>1. /\ Refreshed(s, w, b) \in Row
        /\ Refreshed(s, w, b).id = rows[s].id
        /\ Refreshed(s, w, b).blob \in {b, rows[s].blob}
    BY RefreshedIs
  <1>2. r \in Row
    BY <1>1
  <1>3. /\ rows' \in [Slots -> Row]
        /\ \A x, t \in Slots : rows'[x].id = rows'[t].id => x = t \/ rows'[x].id = <<>>
        /\ \A x \in Slots : rows'[x].id = rows[x].id /\ RefOK(rows'[x])
    <2>1. CASE Unchanged(old, w)
      <3>1. rows' = rows
        BY <2>1 DEF PlanSame
      <3> QED
        BY <3>1 DEF TypeOK, RefInv
    <2>2. CASE ~ Unchanged(old, w)
      <3>1. rows' = Put(s, Refreshed(s, w, b))
        BY <2>2 DEF PlanSame
      <3>2. RefOK(rows[s])
        BY DEF RefInv
      <3>3. RefOK(Refreshed(s, w, b))
        BY <1>1, <3>2 DEF RefOK
      <3> QED
        BY <1>1, <3>1, <3>3, PutKeeps DEF RefInv
    <2> QED
      BY <2>1, <2>2
  <1> HIDE DEF r
  <1>4. p \in Plan /\ PlanSrc(p)
    BY <1>2, PlanForTypes
  <1>5. VerifySize(old) \in Nat /\ old.digest \in Units
    BY DEF VerifySize, Row
  <1> HIDE DEF p
  <1>6. q \in Plan /\ PlanSrc(q)
    BY <1>4, <1>5 DEF Plan, PlanSrc
  <1>7. plans' \subseteq plans \cup {p, q}
    BY DEF PlanSame, p, r
  <1>8. PlansOK'
    <2>1. \A l \in plans : l \in Plan /\ PlanSrc(l)
      BY DEF TypeOK, RefInv
    <2> QED
      BY <1>4, <1>6, <1>7, <2>1 DEF PlansOK, PlanSrc
  <1>9. RowsOK'
    BY <1>3 DEF RowsOK, RefInv
  <1> QED
    BY <1>3, <1>8, <1>9, GenKept

\* The row of another generation, as PlanFresh writes it.
FreshRow(id, w, b, s) ==
    [NoRow EXCEPT !.id = id, !.path = w.path, !.ino = w.ino, !.n = w.n, !.m = w.m,
                  !.act = w.act, !.digest = rows[s].digest, !.man = (b # 0 \/ rows[s].man),
                  !.blob = IF b # 0 THEN b ELSE rows[s].blob]

\* A row that starts over for a new generation.
LEMMA FreshRowIs ==
  ASSUME NEW id \in Units, NEW w \in Wire, NEW b \in Paths \cup {0}, NEW s, rows[s] \in Row
  PROVE  LET r == FreshRow(id, w, b, s)  old == rows[s] IN
         /\ r \in Row /\ r.id = id /\ r.blob = IF b # 0 THEN b ELSE old.blob
         /\ Unchanged(r, w)
         /\ r.off = 0 /\ r.digest = old.digest /\ ~ r.ack /\ ~ r.done
  <1> DEFINE old == rows[s]
             d == old.digest
             m == b # 0 \/ old.man
             k == IF b # 0 THEN b ELSE old.blob
             r == [NoRow EXCEPT !.id = id, !.path = w.path, !.ino = w.ino, !.n = w.n,
                                !.m = w.m, !.act = w.act, !.digest = d, !.man = m, !.blob = k]
  <1>1. m \in BOOLEAN /\ k \in Nat /\ d \in Units
    BY DEF Row, Paths
  <1>2. FreshRow(id, w, b, s) = r
    BY DEF FreshRow
  <1>3. NoRow \in Row /\ NoRow.off = 0 /\ ~ NoRow.ack /\ ~ NoRow.done
    BY DEF NoRow, Row, Units, Unknown
  <1>4. k = IF b # 0 THEN b ELSE old.blob
    OBVIOUS
  <1> HIDE DEF d, m, k
  <1>5. r \in Row
    BY <1>1, <1>3 DEF Row, Wire
  <1>6. /\ r.path = w.path /\ r.ino = w.ino /\ r.n = w.n /\ r.m = w.m /\ r.act = w.act
        /\ r.id = id /\ r.blob = k /\ r.digest = d
    BY <1>3 DEF Row
  <1>7. r.off = NoRow.off /\ r.ack = NoRow.ack /\ r.done = NoRow.done
    BY <1>3 DEF Row
  <1>8. d = rows[s].digest
    BY DEF d
  <1> HIDE DEF r
  <1>9. Unchanged(r, w)
    BY <1>6 DEF Unchanged, Wire
  <1> QED
    BY <1>2, <1>3, <1>4, <1>5, <1>6, <1>7, <1>8, <1>9

\* Planning a wire as a new generation.
LEMMA PlanFreshTypes ==
  ASSUME TypeInv, mpc = "plan", UNCHANGED <<mpc, recs>>,
         NEW id \in Units, id # <<>>, id[1] \in Paths, NEW h \in Nat,
         \A j \in 1 .. Len(id) : id[j] <= h,
         NEW w \in Wire, NEW wire \in Wire,
         NEW b \in Paths \cup {0}, PlanFresh(id, w, b, wire)
  PROVE  RowsOK' /\ GenInv' /\ PlansOK'
  <1> TypeOK /\ RefInv /\ GenInv
    BY DEF TypeInv
  <1>0. PICK s \in SlotOf(id) :
          /\ rows' = Put(s, FreshRow(id, w, b, s))
          /\ plans' = plans \cup {PlanFor(s, FreshRow(id, w, b, s), b, wire)}
    BY DEF PlanFresh, FreshRow
  <1> DEFINE r == FreshRow(id, w, b, s)
  <1>1. rows' = Put(s, r) /\ plans' = plans \cup {PlanFor(s, r, b, wire)}
    BY <1>0
  <1>2. s \in Slots /\ rows[s].id \in {<<>>, id} /\ \A t \in Slots : t # s => rows[t].id # id
    BY SlotIs
  <1>3. rows[s] \in Row /\ b \in Nat /\ RefOK(rows[s])
    BY <1>2 DEF TypeOK, RefInv, Paths
  <1>4. r \in Row /\ r.id = id /\ r.blob \in {b, rows[s].blob}
    BY <1>3, FreshRowIs
  <1> HIDE DEF r
  <1>5. RefOK(r)
    BY <1>3, <1>4 DEF RefOK
  <1>6. /\ rows' \in [Slots -> Row]
        /\ Same(rows'[s], r)
        /\ \A x \in Slots : x # s => Same(rows'[x], rows[x])
    BY <1>1, <1>2, <1>4, PutIs DEF TypeOK
  <1>7. rows'[s].id = id /\ \A x \in Slots : x # s => rows'[x].id = rows[x].id
    BY <1>4, <1>6 DEF Same
  <1>8. RowsOK'
    <2>1. \A x, t \in Slots : rows'[x].id = rows'[t].id => x = t \/ rows'[x].id = <<>>
      BY <1>2, <1>7 DEF TypeOK
    <2>2. \A x \in Slots : RefOK(rows'[x])
      BY <1>5, <1>6 DEF RefInv, RefOK, Same
    <2>3. \A x \in Slots : recs[x].id # <<>> => recs[x].id = rows'[x].id
      BY <1>2, <1>7 DEF RefInv
    <2> QED
      BY <1>6, <2>1, <2>2, <2>3 DEF RowsOK
  <1>9. GenInv'
    <2>1. PICK g \in Nat : \A x \in Slots : Below(rows[x], g) /\ Below(recs[x], g)
      BY DEF GenInv
    <2>2. PICK k \in Nat : g <= k /\ h <= k
      <3>1. CASE g <= h
        BY <3>1
      <3>2. CASE h <= g
        BY <3>2
      <3> QED
        BY <3>1, <3>2
    <2>3. \A x \in Slots : rows[x].id \in Units /\ recs[x].id \in Units
      BY DEF TypeOK, Row
    <2>4. \A x \in Slots : Below(recs[x], k)
      <3> TAKE x \in Slots
      <3> SUFFICES ASSUME NEW j \in 1 .. Len(recs[x].id) PROVE recs[x].id[j] <= k
        BY DEF Below
      <3>1. recs[x].id[j] <= g /\ recs[x].id[j] \in Nat
        BY <2>1, <2>3 DEF Below, Units
      <3> QED
        BY <2>2, <3>1
    <2>5. \A x \in Slots : Below(rows'[x], k)
      <3> TAKE x \in Slots
      <3> SUFFICES ASSUME NEW j \in 1 .. Len(rows'[x].id) PROVE rows'[x].id[j] <= k
        BY DEF Below
      <3>1. CASE x = s
        <4>1. rows'[x].id = id
          BY <1>7, <3>1
        <4>2. id[j] <= h /\ id[j] \in Nat
          BY <4>1 DEF Units
        <4>3. id[j] <= k
          BY <2>2, <4>2
        <4> QED
          BY <4>1, <4>3
      <3>2. CASE x # s
        <4>1. rows'[x].id = rows[x].id
          BY <1>7, <3>2
        <4>2. j \in 1 .. Len(rows[x].id)
          BY <4>1
        <4>3. rows[x].id[j] <= g
          BY <2>1, <4>2 DEF Below
        <4>4. rows[x].id[j] \in Nat
          BY <2>3, <4>2 DEF Units
        <4> QED
          BY <2>2, <4>1, <4>3, <4>4
      <3> QED
        BY <3>1, <3>2
    <2> QED
      BY <2>4, <2>5 DEF GenInv, Below
  <1>10. PlansOK'
    <2>1. PlanFor(s, r, b, wire) \in Plan /\ PlanSrc(PlanFor(s, r, b, wire))
      BY <1>2, <1>4, PlanForTypes
    <2>2. \A l \in plans : l \in Plan /\ PlanSrc(l)
      BY DEF TypeOK, RefInv
    <2> QED
      BY <1>1, <2>1, <2>2 DEF PlansOK, PlanSrc
  <1> QED
    BY <1>8, <1>9, <1>10
\* The four ways to plan a wire.
LEMMA PlanWireIs ==
  ASSUME TypeInv, NEW w \in todo, PlanWire(w)
  PROVE  /\ mpc = "plan" /\ todo' = todo \ {w}
         /\ UNCHANGED <<at, data, mtime, open, clock, loki, cap, blob, pend, mpc, recs, cur,
                        got, covered>>
         /\ w \in Wire /\ w.path \in Paths /\ w.ino \in Inodes
         /\ \/ \E s \in Slots :
                 /\ recs[s].id # <<>> /\ SameGeneration(recs[s], w)
                 /\ PlanSame(s, recs[s], w, BlobOf(recs[s].id, recs[s]), w)
            \/ \E s \in Slots :
                 /\ recs[s].id # <<>>
                 /\ PlanFresh(NextGeneration(recs[s].id), w, 0, w)
            \/ \E p \in Paths :
                 /\ MatchRecord(w) = {}
                 /\ ManifestOf(w) # {} => p \in ManifestOf(w)
                 /\ ManifestOf(w) = {} => p = w.path
                 /\ PlanFresh(<<p>>, w, BlobOf(<<p>>, NoRow), w)
            \/ UNCHANGED <<rows, plans>>
  <1>1. w \in Wire /\ w.path \in Paths /\ w.ino \in Inodes
    BY DEF TypeInv, TypeOK, RefInv
  <1>2. \A s \in MatchRecord(w) : s \in Slots /\ recs[s].id # <<>>
    BY DEF MatchRecord, Newest
  <1>3. \A p \in ManifestOf(w) : p \in Paths
    BY DEF ManifestOf
  <1>4. CASE \E s \in MatchRecord(w) :
            LET b == BlobOf(recs[s].id, recs[s])
                frozen == b # 0 /\ blob[b].wire.ino = w.ino
            IN  IF SameGeneration(recs[s], w) THEN PlanSame(s, recs[s], w, b, w)
                ELSE IF frozen \/ (~ w.act /\ w.path # Live)
                THEN PlanFresh(NextGeneration(recs[s].id), w, 0, w)
                ELSE UNCHANGED <<rows, plans>>
    <2>1. PICK s \in MatchRecord(w) :
            \/ SameGeneration(recs[s], w) /\ PlanSame(s, recs[s], w, BlobOf(recs[s].id, recs[s]), w)
            \/ PlanFresh(NextGeneration(recs[s].id), w, 0, w)
            \/ UNCHANGED <<rows, plans>>
      BY <1>4
    <2> QED
      BY <1>1, <1>2, <2>1 DEF PlanWire
  <1>5. CASE /\ MatchRecord(w) = {}
             /\ \E p \in IF ManifestOf(w) # {} THEN ManifestOf(w) ELSE {w.path} :
               LET b == BlobOf(<<p>>, NoRow)
                   frozen == b # 0 /\ blob[b].wire.ino = w.ino
               IN  IF frozen \/ (~ w.act /\ w.path # Live)
                   THEN PlanFresh(<<p>>, w, b, w)
                   ELSE UNCHANGED <<rows, plans>>
    <2>1. PICK p \in IF ManifestOf(w) # {} THEN ManifestOf(w) ELSE {w.path} :
               \/ PlanFresh(<<p>>, w, BlobOf(<<p>>, NoRow), w)
               \/ UNCHANGED <<rows, plans>>
      BY <1>5
    <2>2. /\ p \in Paths
          /\ ManifestOf(w) # {} => p \in ManifestOf(w)
          /\ ManifestOf(w) = {} => p = w.path
      BY <1>1, <1>3
    <2> QED
      BY <1>1, <1>5, <2>1, <2>2 DEF PlanWire
  <1> QED
    BY <1>4, <1>5 DEF PlanWire

\* What planning a manifest entry without a wire may do.
LEMMA PlanBlobIs ==
  ASSUME TypeInv, NEW p \in Paths, PlanBlob(p)
  PROVE  /\ mpc = "plan" /\ todo = {} /\ p \in Unclaimed
         /\ UNCHANGED <<at, data, mtime, open, clock, loki, cap, blob, pend, mpc, todo, recs,
                        cur, got, covered>>
         /\ \/ \E s \in Slots : /\ rows[s].id = <<p>>
                                /\ PlanSame(s, rows[s], blob[p].wire, p, NoWire)
            \/ /\ \A s \in Slots : rows[s].id # <<p>>
               /\ PlanFresh(<<p>>, blob[p].wire, p, NoWire)
  <1>1. CASE \E s \in Slots : rows[s].id = <<p>>
    <2>1. PICK s \in SlotOf(<<p>>) : PlanSame(s, rows[s], blob[p].wire, p, NoWire)
      BY <1>1 DEF PlanBlob
    <2>2. s \in Slots /\ rows[s].id = <<p>>
      BY <1>1 DEF SlotOf
    <2> QED
      BY <2>1, <2>2 DEF PlanBlob
  <1>2. CASE \A s \in Slots : rows[s].id # <<p>>
    BY <1>2 DEF PlanBlob
  <1> QED
    BY <1>1, <1>2

\* A planning step, whichever row it writes.
LEMMA PlanStepTypes ==
  ASSUME TypeInv, mpc = "plan", RowsOK', GenInv', PlansOK',
         todo' \subseteq todo,
         UNCHANGED <<at, data, mtime, open, clock, loki, cap, blob, pend, mpc, recs, cur,
                     got, covered>>
  PROVE  TypeInv'
  <1>1. TypeOK'
    BY DEF TypeInv, TypeOK, RowsOK, PlansOK
  <1>2. RefInv'
    BY DEF TypeInv, RefInv, RowsOK, PlansOK, RefOK, PlanSrc, Importing
  <1> QED
    BY <1>1, <1>2 DEF TypeInv

\* A base id is a sequence of units.
LEMMA BaseId ==
  ASSUME NEW p \in Paths
  PROVE  /\ <<p>> \in Units /\ <<p>> # <<>> /\ Len(<<p>>) = 1 /\ <<p>>[1] = p
         /\ p \in Nat /\ \A j \in 1 .. Len(<<p>>) : <<p>>[j] <= p
  BY DEF Units, Paths

\* The parts of the next generation's id.
LEMMA NextIdIs ==
  ASSUME TypeInv, mpc = "plan", NEW s \in Slots, recs[s].id # <<>>
  PROVE  LET id == NextGeneration(recs[s].id) IN
         /\ id \in Units /\ id # <<>> /\ id[1] \in Paths /\ Len(id) # 1
         /\ \A t \in Slots : recs[t].id # id
         /\ \E h \in Nat : \A j \in 1 .. Len(id) : id[j] <= h
  <1> DEFINE old == recs[s].id
             id  == NextGeneration(old)
  <1>1. old \in Units /\ old[1] \in Paths
    BY DEF TypeInv, TypeOK, RefInv, RefOK, Row
  <1>2. Len(old) \in Nat \ {0}
    BY <1>1, EmptySeq DEF Units
  <1>3. /\ id \in Units /\ Len(id) = Len(old) + 1
        /\ \A j \in 1 .. Len(old) : id[j] = old[j]
        /\ \A t \in Slots : recs[t].id # id
        /\ id[Len(old) + 1] \in Nat
    BY <1>1, NextGenerationIs
  <1>4. PICK g \in Nat : \A j \in 1 .. Len(old) : old[j] <= g
    BY DEF TypeInv, GenInv, Below
  <1> HIDE DEF id
  <1>5. g + id[Len(old) + 1] \in Nat
    BY <1>3, <1>4
  <1>6. \A j \in 1 .. Len(id) : id[j] <= g + id[Len(old) + 1]
    <2> TAKE j \in 1 .. Len(id)
    <2>1. CASE j = Len(old) + 1
      BY <1>3, <1>4, <2>1
    <2>2. CASE j \in 1 .. Len(old)
      <3> HIDE DEF old
      <3>1. id[j] = old[j]
        BY <1>3, <2>2
      <3>2. old[j] <= g
        BY <1>4, <2>2
      <3>3. old[j] \in Nat
        BY <1>1, <2>2 DEF Units
      <3> QED
        BY <1>3, <1>4, <3>1, <3>2, <3>3
    <2> QED
      BY <1>2, <1>3, <2>1, <2>2
  <1> HIDE DEF old
  <1>7. id # <<>> /\ id[1] \in Paths /\ Len(id) # 1
    BY <1>1, <1>2, <1>3
  <1> QED
    BY <1>3, <1>5, <1>6, <1>7 DEF id, old

LEMMA PlanWireTypes ==
  ASSUME TypeInv, NEW w \in todo, PlanWire(w)
  PROVE  TypeInv'
  <1>1. /\ mpc = "plan" /\ todo' = todo \ {w}
        /\ UNCHANGED <<at, data, mtime, open, clock, loki, cap, blob, pend, mpc, recs, cur,
                       got, covered>>
        /\ w \in Wire /\ w.path \in Paths /\ w.ino \in Inodes
    BY PlanWireIs
  <1>2. RowsOK' /\ GenInv' /\ PlansOK'
    <2>1. ASSUME NEW s \in Slots, recs[s].id # <<>>,
                 PlanSame(s, recs[s], w, BlobOf(recs[s].id, recs[s]), w)
          PROVE  RowsOK' /\ GenInv' /\ PlansOK'
      <3>1. recs[s] \in Row /\ RefOK(recs[s])
        BY <1>1 DEF TypeInv, TypeOK, RefInv
      <3>2. BlobOf(recs[s].id, recs[s]) \in Paths \cup {0}
        BY <3>1 DEF BlobOf, RefOK
      <3> QED
        BY <1>1, <2>1, <3>1, <3>2, PlanSameTypes
    <2>2. ASSUME NEW s \in Slots, recs[s].id # <<>>,
                 PlanFresh(NextGeneration(recs[s].id), w, 0, w)
          PROVE  RowsOK' /\ GenInv' /\ PlansOK'
      <3>1. PICK h \in Nat : \A j \in 1 .. Len(NextGeneration(recs[s].id)) :
                                NextGeneration(recs[s].id)[j] <= h
        BY <1>1, <2>2, NextIdIs
      <3>2. /\ NextGeneration(recs[s].id) \in Units /\ NextGeneration(recs[s].id) # <<>>
            /\ NextGeneration(recs[s].id)[1] \in Paths
        BY <1>1, <2>2, NextIdIs
      <3> QED
        BY <1>1, <2>2, <3>1, <3>2, PlanFreshTypes
    <2>3. ASSUME NEW p \in Paths, PlanFresh(<<p>>, w, BlobOf(<<p>>, NoRow), w)
          PROVE  RowsOK' /\ GenInv' /\ PlansOK'
      <3>1. BlobOf(<<p>>, NoRow) \in Paths \cup {0}
        BY DEF BlobOf, NoRow
      <3>2. /\ <<p>> \in Units /\ <<p>> # <<>> /\ <<p>>[1] \in Paths /\ p \in Nat
            /\ \A j \in 1 .. Len(<<p>>) : <<p>>[j] <= p
        BY BaseId
      <3> QED
        BY <1>1, <2>3, <3>1, <3>2, PlanFreshTypes
    <2>4. CASE UNCHANGED <<rows, plans>>
      <3>1. RowsOK' /\ PlansOK'
        BY <1>1, <2>4 DEF TypeInv, TypeOK, RefInv, RowsOK, PlansOK, RefOK, PlanSrc
      <3>2. GenInv'
        BY <1>1, <2>4, GenKept DEF TypeInv
      <3> QED
        BY <3>1, <3>2
    <2> QED
      BY <2>1, <2>2, <2>3, <2>4, PlanWireIs
  <1> QED
    BY <1>1, <1>2, PlanStepTypes

LEMMA PlanBlobTypes ==
  ASSUME TypeInv, NEW p \in Paths, PlanBlob(p)
  PROVE  TypeInv'
  <1>1. /\ mpc = "plan" /\ todo = {} /\ p \in Unclaimed
        /\ UNCHANGED <<at, data, mtime, open, clock, loki, cap, blob, pend, mpc, todo, recs,
                       cur, got, covered>>
    BY PlanBlobIs
  <1>2. blob[p].wire \in Wire /\ p \in Paths \cup {0} /\ NoWire \in Wire
    BY Empties DEF TypeInv, TypeOK, Blob
  <1>3. RowsOK' /\ GenInv' /\ PlansOK'
    <2>1. ASSUME NEW s \in Slots, PlanSame(s, rows[s], blob[p].wire, p, NoWire)
          PROVE  RowsOK' /\ GenInv' /\ PlansOK'
      <3>1. rows[s] \in Row
        BY DEF TypeInv, TypeOK
      <3> QED
        BY <1>1, <1>2, <2>1, <3>1, PlanSameTypes
    <2>2. CASE PlanFresh(<<p>>, blob[p].wire, p, NoWire)
      <3>1. /\ <<p>> \in Units /\ <<p>> # <<>> /\ <<p>>[1] \in Paths /\ p \in Nat
            /\ \A j \in 1 .. Len(<<p>>) : <<p>>[j] <= p
        BY BaseId
      <3> QED
        BY <1>1, <1>2, <2>2, <3>1, PlanFreshTypes
    <2> QED
      BY <2>1, <2>2, PlanBlobIs
  <1> QED
    BY <1>1, <1>3, PlanStepTypes
-----------------------------------------------------------------------------
(***************************************************************************)
(* Importing.                                                              *)
(***************************************************************************)
LEMMA CoveredByTypes ==
  ASSUME TypeOK, NEW l \in Plan, l.src \in Slots, NEW r \in Row
  PROVE  \A c \in CoveredBy(l, r) : c \in Coverage
  <1>1. l.wire \in Wire /\ r.digest \in Units
    BY DEF Plan, Row
  <1>2. [path |-> l.wire.path, ino |-> l.wire.ino, n |-> l.wire.n, m |-> l.wire.m,
         src |-> l.src, digest |-> r.digest] \in Coverage
    BY <1>1 DEF Wire, Coverage
  <1>3. \A c \in covered : c \in Coverage
    BY DEF TypeOK
  <1> QED
    BY <1>2, <1>3 DEF CoveredBy

\* The empty plan imports nothing.
LEMMA RealPlan == \A l : PlanSrc(l) => l # NoPlan
  BY ImportAssumption DEF PlanSrc, NoPlan, Slots

LEMMA PickTypes ==
  ASSUME TypeInv, NEW l \in plans, PickPlan(l)
  PROVE  TypeInv'
  <1>1. l \in Plan /\ PlanSrc(l) /\ l # NoPlan /\ rows[l.src] \in Row
    BY RealPlan DEF TypeInv, TypeOK, RefInv, PlanSrc
  <1>2. \A c \in CoveredBy(l, rows[l.src]) : c \in Coverage
    BY <1>1, CoveredByTypes DEF TypeInv, PlanSrc
  <1>3. TypeOK'
    BY <1>1, <1>2 DEF TypeInv, PickPlan, TypeOK
  <1>4. RefInv'
    BY <1>1 DEF TypeInv, PickPlan, RefInv, RefOK, PlanSrc, Importing
  <1> QED
    BY <1>3, <1>4, GenKept DEF PickPlan, TypeInv

\* The frame of a transaction on the row of the source being imported.
LEMMA SourceRowTypes ==
  ASSUME TypeInv, mpc \in Importing, NEW r \in Row, rows' = Put(cur.src, r),
         r.id = rows[cur.src].id, r.blob = rows[cur.src].blob,
         UNCHANGED <<at, data, mtime, open, clock, loki, cap, blob, pend, todo, recs, plans>>,
         \A c \in covered' : c \in Coverage, got' \in Units,
         \/ cur' = cur
         \/ cur' = NoPlan /\ mpc' \notin Importing,
         mpc' \in (Importing \ {"push"}) \cup {"next", "release"}
  PROVE  TypeInv'
  <1> TypeOK /\ RefInv /\ GenInv
    BY DEF TypeInv
  <1>1. cur.src \in Slots
    BY DEF RefInv, PlanSrc
  <1>2. RefOK(r)
    BY <1>1 DEF RefInv, RefOK
  <1>3. /\ rows' \in [Slots -> Row]
        /\ \A x, t \in Slots : rows'[x].id = rows'[t].id => x = t \/ rows'[x].id = <<>>
        /\ \A x \in Slots : rows'[x].id = rows[x].id /\ RefOK(rows'[x])
    BY <1>1, <1>2, PutKeeps DEF RefInv
  <1>4. TypeOK'
    BY <1>3, Empties DEF TypeOK, Importing
  <1>5. RefInv'
    BY <1>3 DEF RefInv, PlanSrc, Importing
  <1> QED
    BY <1>3, <1>4, <1>5, GenKept DEF TypeInv, Importing

\* A step that writes no row.
LEMMA QuietTypes ==
  ASSUME TypeInv, mpc \in Importing \cup {"next"},
         UNCHANGED <<at, data, mtime, open, clock, loki, rows, cap, blob, todo, recs, plans,
                     covered>>,
         got' \in Units, pend' \in Batch, pend' # NoBatch => pend'.src \in Slots,
         mpc' = "push" => pend' # NoBatch,
         \/ cur' = cur
         \/ cur' = NoPlan /\ mpc' \notin Importing,
         mpc' \in (IF mpc = "next" THEN {} ELSE Importing) \cup {"next", "release"}
  PROVE  TypeInv'
  <1>1. TypeOK'
    BY Empties DEF TypeInv, TypeOK, Importing
  <1>2. RefInv'
    BY DEF TypeInv, RefInv, RefOK, PlanSrc, Importing
  <1> QED
    BY <1>1, <1>2, GenKept DEF TypeInv, Importing

LEMMA VerifyTypes == TypeInv /\ (VerifyPrefix \/ SaveDigest) => TypeInv'
  <1> SUFFICES ASSUME TypeInv, VerifyPrefix \/ SaveDigest PROVE TypeInv'
    OBVIOUS
  <1>1. mpc \in Importing
    BY DEF VerifyPrefix, SaveDigest, Importing
  <1>2. cur \in Plan /\ PlanSrc(cur) /\ rows[cur.src] \in Row /\ got \in Units
    BY <1>1 DEF TypeInv, TypeOK, RefInv, PlanSrc
  <1>3. cur.wire \in Wire /\ cur.wire.n \in Nat /\ \A c \in covered : c \in Coverage
    BY <1>2 DEF Plan, Wire, TypeInv, TypeOK
  <1>4. CASE SaveDigest
    <2> DEFINE r == [rows[cur.src] EXCEPT !.digest = got]
    <2>1. r \in Row /\ r.id = rows[cur.src].id /\ r.blob = rows[cur.src].blob
      BY <1>2 DEF Row
    <2>2. rows' = Put(cur.src, r)
      BY <1>4 DEF SaveDigest
    <2> HIDE DEF r
    <2>3. Put(cur.src, r) \in [Slots -> Row]
      BY <1>2, <2>1, PutIs DEF TypeInv, TypeOK, PlanSrc
    <2>4. \A c \in CoveredBy(cur, rows'[cur.src]) : c \in Coverage
      BY <1>2, <2>2, <2>3, CoveredByTypes DEF TypeInv, PlanSrc
    <2>5. /\ got' \in Units /\ \A c \in covered' : c \in Coverage
          /\ \/ cur' = cur /\ mpc' = "read"
             \/ cur' = NoPlan /\ mpc' = "next"
      BY <1>3, <1>4, <2>4, Empties DEF SaveDigest
    <2>6. UNCHANGED <<at, data, mtime, open, clock, loki, cap, blob, pend, todo, recs, plans>>
      BY <1>4 DEF SaveDigest
    <2> QED
      BY <1>1, <2>1, <2>2, <2>5, <2>6, SourceRowTypes DEF Importing
  <1>5. CASE VerifyPrefix
    <2> DEFINE w == cur.wire
               content == First(data[w.ino], w.n)
               r == rows[cur.src]
               no == [r EXCEPT !.conf = TRUE]
               yes == [r EXCEPT !.vsize = w.n, !.conf = FALSE]
    <2>1. /\ no \in Row /\ no.id = r.id /\ no.blob = r.blob
          /\ yes \in Row /\ yes.id = r.id /\ yes.blob = r.blob
      BY <1>2, <1>3 DEF Row
    <2>2. Readable(w) => content \in Units
      BY <1>3, FirstIs DEF Readable, HasFile, TypeInv, TypeOK
    <2>3. UNCHANGED <<at, data, mtime, open, clock, loki, cap, blob, pend, todo, recs, plans,
                      covered>>
      BY <1>5 DEF VerifyPrefix
    <2>4. \/ mpc' = "release" /\ cur' = NoPlan /\ UNCHANGED <<rows, got>>
          \/ rows' = Put(cur.src, no) /\ mpc' = "release" /\ cur' = NoPlan /\ UNCHANGED got
          \/ /\ Readable(w) /\ rows' = Put(cur.src, yes)
             /\ mpc' = "digest" /\ got' = content /\ UNCHANGED cur
      BY <1>5 DEF VerifyPrefix
    <2> HIDE DEF w, content, r, no, yes
    <2>5. CASE mpc' = "release" /\ cur' = NoPlan /\ UNCHANGED <<rows, got>>
      <3>1. pend' \in Batch /\ (pend' # NoBatch => pend'.src \in Slots)
        BY <2>3 DEF TypeInv, TypeOK, RefInv
      <3> QED
        BY <1>1, <1>2, <2>3, <2>5, <3>1, QuietTypes DEF Importing
    <2>6. CASE rows' = Put(cur.src, no) /\ mpc' = "release" /\ cur' = NoPlan /\ UNCHANGED got
      BY <1>1, <1>2, <1>3, <2>1, <2>3, <2>6, SourceRowTypes DEF Importing, r
    <2>7. CASE Readable(w) /\ rows' = Put(cur.src, yes)
               /\ mpc' = "digest" /\ got' = content /\ UNCHANGED cur
      BY <1>1, <1>2, <1>3, <2>1, <2>2, <2>3, <2>7, SourceRowTypes DEF Importing, r
    <2> QED
      BY <2>4, <2>5, <2>6, <2>7
  <1> QED
    BY <1>4, <1>5

LEMMA ReadTypes == TypeInv /\ (ReadSource \/ NothingToSend \/ StopOnBudget \/ EndImport) => TypeInv'
  <1> SUFFICES ASSUME TypeInv, ReadSource \/ NothingToSend \/ StopOnBudget \/ EndImport
               PROVE  TypeInv'
    OBVIOUS
  <1>1. mpc \in Importing \cup {"next"} /\ mpc' \in (Importing \ {"push"}) \cup {"next", "release"}
        /\ (mpc = "next" => mpc' = "release")
    BY DEF ReadSource, NothingToSend, StopOnBudget, EndImport, Importing
  <1>2. UNCHANGED <<at, data, mtime, open, clock, loki, rows, cap, blob, pend, todo, recs, plans,
                    covered>>
    BY DEF ReadSource, NothingToSend, StopOnBudget, EndImport
  <1>3. cur' = cur \/ (cur' = NoPlan /\ mpc' \notin Importing)
    BY DEF ReadSource, NothingToSend, StopOnBudget, EndImport, Importing
  <1>4. pend' \in Batch /\ (pend' # NoBatch => pend'.src \in Slots)
    BY <1>2 DEF TypeInv, TypeOK, RefInv
  <1>5. got' \in Units
    <2>1. CASE ReadSource
      <3>1. cur \in Plan /\ PlanSrc(cur) /\ cur.wire.n \in Nat /\ got \in Units
        BY <2>1 DEF TypeInv, TypeOK, RefInv, ReadSource, Importing, Plan, Wire
      <3>2. cur.blob # 0 => blob[cur.blob].units \in Units
        BY <3>1 DEF TypeInv, TypeOK, PlanSrc, Blob
      <3>3. Readable(cur.wire) => First(data[cur.wire.ino], cur.wire.n) \in Units
        BY <3>1, FirstIs DEF Readable, HasFile, TypeInv, TypeOK
      <3>4. CASE cur.read = "blob" /\ blob[cur.blob].st = "captured" /\ got' = blob[cur.blob].units
        <4>1. cur.blob # 0
          BY <3>1, <3>4 DEF PlanSrc
        <4> QED
          BY <3>2, <3>4, <4>1
      <3> QED
        BY <2>1, <3>1, <3>3, <3>4 DEF ReadSource
    <2>2. CASE NothingToSend \/ StopOnBudget \/ EndImport
      BY <2>2 DEF NothingToSend, StopOnBudget, EndImport, TypeInv, TypeOK
    <2> QED
      BY <2>1, <2>2
  <1> QED
    BY <1>1, <1>2, <1>3, <1>4, <1>5, QuietTypes DEF Importing
LEMMA SaveTypes ==
  ASSUME TypeInv, NEW k \in 1 .. MaxClock, NEW done \in BOOLEAN, SaveBatch(k, done)
  PROVE  TypeInv'
  <1>1. mpc = "save" /\ mpc' = "push" /\ cur.pos + k <= Len(got)
        /\ UNCHANGED <<at, data, mtime, open, clock, loki, rows, cap, blob, todo, recs, plans,
                       cur, got, covered>>
    BY DEF SaveBatch
  <1>2. cur \in Plan /\ PlanSrc(cur) /\ got \in Units
    BY <1>1 DEF TypeInv, TypeOK, RefInv, Importing
  <1>3. k \in Nat /\ k > 0 /\ cur.pos \in Nat /\ cur.src \in Nat /\ cur.src # 0
    BY <1>2, ImportAssumption DEF Plan, PlanSrc, Slots
  <1> DEFINE u == SubSeq(got, cur.pos + 1, cur.pos + k)
             d == IF done THEN got ELSE Unknown
  <1>4. u \in Units
    <2>1. \A j \in cur.pos + 1 .. cur.pos + k : got[j] \in Nat
      BY <1>1, <1>2, <1>3 DEF Units
    <2>2. cur.pos + 1 \in Int /\ cur.pos + k \in Int
      BY <1>3
    <2> QED
      BY <2>1, <2>2, SubSeqProperties DEF Units
  <1>5. d \in Units
    BY <1>2, Empties
  <1>6. pend' = [src |-> cur.src, from |-> cur.pos, to |-> cur.pos + k, units |-> u,
                 done |-> done, digest |-> d]
    BY DEF SaveBatch
  <1> HIDE DEF u, d
  <1>7. pend' \in Batch /\ pend'.src = cur.src /\ pend' # NoBatch
    <2>1. cur.pos + k \in Nat
      BY <1>3
    <2>2. pend' \in Batch /\ pend'.src = cur.src
      BY <1>3, <1>4, <1>5, <1>6, <2>1 DEF Batch
    <2> QED
      BY <1>3, <2>2 DEF NoBatch
  <1>8. pend' # NoBatch => pend'.src \in Slots
    BY <1>2, <1>7 DEF PlanSrc
  <1> QED
    BY <1>1, <1>2, <1>7, <1>8, QuietTypes DEF Importing

LEMMA MarkTypes == TypeInv /\ (MarkComplete \/ MarkDigest \/ MarkAcknowledged) => TypeInv'
  <1> SUFFICES ASSUME TypeInv, MarkComplete \/ MarkDigest \/ MarkAcknowledged PROVE TypeInv'
    OBVIOUS
  <1>1. mpc \in Importing
    BY DEF MarkComplete, MarkDigest, MarkAcknowledged, Importing
  <1>2. cur \in Plan /\ PlanSrc(cur) /\ rows[cur.src] \in Row /\ got \in Units
    BY <1>1 DEF TypeInv, TypeOK, RefInv, PlanSrc
  <1>3. \A c \in covered : c \in Coverage
    BY DEF TypeInv, TypeOK
  <1> DEFINE r == rows[cur.src]
             w == cur.wire
             now == IF w = NoWire THEN r
                    ELSE [r EXCEPT !.path = w.path, !.ino = w.ino, !.n = w.n, !.m = w.m,
                                   !.act = w.act]
             frz == (cur.read = "blob" \/ r.frozen)
             r1 == [now EXCEPT !.done = TRUE, !.csize = cur.raw, !.frozen = frz]
             r2 == [r EXCEPT !.digest = got]
             r3 == [r EXCEPT !.ack = TRUE]
  <1>4. CASE MarkComplete
    <2>1. now \in Row /\ now.id = r.id /\ now.blob = r.blob /\ now.frozen = r.frozen
      BY <1>2 DEF Plan, Row, Wire
    <2>2. frz \in BOOLEAN /\ cur.raw \in Nat
      BY <1>2 DEF Plan, Row
    <2>3. rows' = Put(cur.src, r1)
      BY <1>4, <2>1 DEF MarkComplete
    <2> HIDE DEF now, frz
    <2>4. r1 \in Row /\ r1.id = r.id /\ r1.blob = r.blob
      BY <2>1, <2>2 DEF Row
    <2>5. /\ UNCHANGED <<at, data, mtime, open, clock, loki, cap, blob, pend, todo, recs, plans>>
          /\ covered' = covered /\ got' = got /\ cur' = cur /\ mpc' = "markdigest"
      BY <1>4 DEF MarkComplete
    <2> HIDE DEF r1
    <2> QED
      BY <1>1, <1>2, <1>3, <2>3, <2>4, <2>5, SourceRowTypes DEF Importing
  <1>5. CASE MarkDigest
    <2>1. r2 \in Row /\ r2.id = r.id /\ r2.blob = r.blob
      BY <1>2 DEF Row
    <2>2. rows' = Put(cur.src, r2)
      BY <1>5 DEF MarkDigest
    <2>3. /\ UNCHANGED <<at, data, mtime, open, clock, loki, cap, blob, pend, todo, recs, plans>>
          /\ covered' = covered /\ got' = got /\ cur' = cur /\ mpc' = "markack"
      BY <1>5 DEF MarkDigest
    <2> HIDE DEF r2
    <2> QED
      BY <1>1, <1>2, <1>3, <2>1, <2>2, <2>3, SourceRowTypes DEF Importing
  <1>6. CASE MarkAcknowledged
    <2>1. r3 \in Row /\ r3.id = r.id /\ r3.blob = r.blob
      BY <1>2 DEF Row
    <2>2. rows' = Put(cur.src, r3)
      BY <1>6 DEF MarkAcknowledged
    <2>3. /\ UNCHANGED <<at, data, mtime, open, clock, loki, cap, blob, pend, todo, recs, plans>>
          /\ covered' = CoveredBy(cur, rows'[cur.src]) /\ got' = <<>> /\ cur' = NoPlan
          /\ mpc' = "next"
      BY <1>6 DEF MarkAcknowledged
    <2> HIDE DEF r3
    <2>4. Put(cur.src, r3) \in [Slots -> Row]
      BY <1>2, <2>1, PutIs DEF TypeInv, TypeOK, PlanSrc
    <2>5. \A c \in covered' : c \in Coverage
      BY <1>2, <2>2, <2>3, <2>4, CoveredByTypes DEF TypeInv, PlanSrc
    <2> QED
      BY <1>1, <1>2, <2>1, <2>2, <2>3, <2>5, Empties, SourceRowTypes DEF Importing
  <1> QED
    BY <1>4, <1>5, <1>6

LEMMA ReleaseTypes == TypeInv /\ ((\E p \in Paths : ReleaseBlob(p)) \/ EndRun \/ Crash) => TypeInv'
  <1> SUFFICES ASSUME TypeInv, (\E p \in Paths : ReleaseBlob(p)) \/ EndRun \/ Crash PROVE TypeInv'
    OBVIOUS
  <1>1. CASE EndRun \/ Crash
    BY <1>1, ForgetTypes DEF EndRun, Crash
  <1>2. ASSUME NEW p \in Paths, ReleaseBlob(p) PROVE TypeInv'
    <2>1. /\ blob' \in [Paths -> Blob]
          /\ \A q \in Paths : /\ blob'[q].units = blob[q].units
                              /\ blob'[q].wire = blob[q].wire
                              /\ blob[q].st = "none" => blob'[q].st = "none"
      BY <1>2 DEF ReleaseBlob, TypeInv, TypeOK, Blob
    <2>2. TypeOK'
      BY <1>2, <2>1 DEF ReleaseBlob, TypeInv, TypeOK
    <2>3. RefInv'
      BY <1>2, <2>1 DEF ReleaseBlob, TypeInv, RefInv, RefOK, PlanSrc, Importing
    <2> QED
      BY <1>2, <2>2, <2>3, GenKept DEF ReleaseBlob, TypeInv
  <1> QED
    BY <1>1, <1>2

LEMMA TypeStep == TypeInv /\ [Next]_vars => TypeInv'
  <1> SUFFICES ASSUME TypeInv, [Next]_vars PROVE TypeInv'
    OBVIOUS
  <1>1. CASE UNCHANGED vars
    <2>1. TypeOK' /\ RefInv'
      BY <1>1 DEF TypeInv, vars, TypeOK, RefInv, RefOK, PlanSrc, Importing
    <2> QED
      BY <1>1, <2>1, GenKept DEF TypeInv, vars
  <1> QED
    BY <1>1, GuestTypes, CaptureTypes, PushTypes, AckTypes, RebuildTypes, PlanEdgeTypes,
       PlanWireTypes, PlanBlobTypes, PickTypes, VerifyTypes, ReadTypes, SaveTypes, MarkTypes,
       ReleaseTypes DEF Next, Manager

\* TypeOK holds for any number of paths, inodes and rows: two rows never come to
\* have one source id, and no blob grows beyond what the manifest froze.
THEOREM TypeCorrect == Spec => []TypeOK
  <1>1. TypeInv => TypeOK
    BY DEF TypeInv
  <1> QED
    BY TypeInit, TypeStep, <1>1, PTL DEF Spec
-----------------------------------------------------------------------------
(***************************************************************************)
(* The frozen blobs: progress recorded for one never skips a unit of it.   *)
(***************************************************************************)
\* The phases of the capture and of the run.
PhaseInv ==
    /\ cap # "complete" => /\ mpc \in {"idle", "capture"}
                           /\ \A s \in Slots : rows[s].id = <<>>
                           /\ pend = NoBatch
    /\ cap = "none" => \A p \in Paths : blob[p].st = "none"
    /\ cap = "pending" => \A p \in Paths : blob[p].st \in {"none", "expected", "spooled"}
    /\ cap = "complete" => \A p \in Paths : blob[p].st \in {"none", "captured", "released"}
    /\ mpc \in {"idle", "capture", "flush"} => plans = {} /\ cur = NoPlan
    /\ mpc = "ack" /\ cur = NoPlan => plans = {}
    /\ mpc \in {"plan", "next"} => cur = NoPlan
    /\ mpc \in Planned \ {"push"} => pend = NoBatch

\* The first k units of q are in L.
Sent(L, q, k) == \A j \in 1 .. Len(q) : j <= k => q[j] \in L

\* A row has the blob of its base id, and an unused slot nothing.
BlobIx(B, id) == IF Len(id) = 1 /\ B[id[1]].st # "none" THEN id[1] ELSE 0
RowShape(B, r) ==
    IF r.id = <<>> THEN r.digest = Unknown /\ r.off = 0 /\ ~ r.done /\ r.blob = 0
                   ELSE r.blob = BlobIx(B, r.id)

\* With blobs B and units L in Loki: a row's offset, and its completion, never
\* run ahead of what Loki has of its blob; nor does a plan l for it, nor a batch
\* d of it once it is accepted.
RowSent(B, L, r) ==
    r.blob # 0 => LET u == B[r.blob].units
                  IN  Sent(L, u, r.off) /\ (r.done => Sent(L, u, Len(u)))
GoodRow(B, L, r) == RowShape(B, r) /\ RowSent(B, L, r)
GoodPlan(B, L, r, l) ==
    LET u == B[r.blob].units IN
    /\ r.id # <<>>
    /\ l.read = "blob" => r.blob # 0 /\ r.blob = l.blob /\ Sent(L, u, l.pos)
    /\ l.read = "live" /\ r.blob # 0 => Sent(L, u, Len(u))
GoodBatch(B, L, r, d) ==
    LET u == B[r.blob].units IN
    /\ r.id # <<>>
    /\ r.blob # 0 =>
        \/ Sent(L, u, Len(u))
        \/ /\ Sent(L, u, d.from)
           /\ \A j \in 1 .. Len(u) : d.from < j /\ j <= d.to =>
                                        u[j] \in L \cup Elems(d.units)

RowsBlob  == \A s \in Slots : GoodRow(blob, loki, rows[s])
RecsBlob  == mpc = "plan" => \A s \in Slots : GoodRow(blob, loki, recs[s])
PlansBlob == mpc \in Planned \cup {"ack"} =>
                 \A l \in plans : GoodPlan(blob, loki, rows[l.src], l)
CurBlob   == mpc \in Importing \cup {"ack"} /\ cur # NoPlan =>
                 GoodPlan(blob, loki, rows[cur.src], cur)
PendBlob  == pend # NoBatch => GoodBatch(blob, loki, rows[pend.src], pend)
GotBlob   ==
    /\ mpc = "ack" => Elems(pend.units) \subseteq loki
    /\ mpc \in Reading /\ cur # NoPlan =>
         /\ cur.read \in {"blob", "live"}
         /\ cur.read = "blob" => got = blob[cur.blob].units
    /\ mpc = "mark" => cur.pos >= Len(got)
    /\ mpc \in {"push", "ack"} /\ cur # NoPlan =>
         pend.src = cur.src /\ (pend.done => pend.to = Len(got))
Released  == \A p \in Paths : blob[p].st = "released" =>
                 Sent(loki, blob[p].units, Len(blob[p].units))
BlobInv == PhaseInv /\ RowsBlob /\ RecsBlob /\ PlansBlob /\ CurBlob /\ PendBlob
           /\ GotBlob /\ Released

LEMMA PhaseStep == TypeInv /\ PhaseInv /\ [Next]_vars => PhaseInv'
  <1> SUFFICES ASSUME TypeInv, PhaseInv, [Next]_vars PROVE PhaseInv'
    OBVIOUS
  <1> USE DEF PhaseInv, Planned, Importing
  <1> RefInv
    BY DEF TypeInv
  <1>1. CASE Guest
    BY <1>1 DEF Guest, GuestOnly, Create, AppendLog, RewriteLog, CloseLog, RotateLog, RemoveLog
  <1>2. CASE StartRun \/ BeginCapture \/ FinishCapture
    <2>1. CASE StartRun
      BY <2>1 DEF StartRun
    <2>2. CASE BeginCapture
      <3>1. \A p \in Paths : blob'[p].st \in {"none", "expected"}
        BY <2>2 DEF BeginCapture, NoBlob
      <3> QED
        BY <2>2, <3>1 DEF BeginCapture
    <2>3. CASE FinishCapture
      <3>1. \A p \in Paths : blob'[p].st \in {"none", "captured", "released"}
        BY <2>3 DEF FinishCapture, TypeInv, TypeOK, Blob
      <3> QED
        BY <2>3, <3>1 DEF FinishCapture
    <2> QED
      BY <1>2, <2>1, <2>2, <2>3
  <1>3. ASSUME NEW p \in Paths, SpoolBlob(p) \/ CaptureFails(p) \/ ReleaseBlob(p) PROVE PhaseInv'
    <2>1. CASE SpoolBlob(p)
      <3>1. \A q \in Paths : blob'[q].st \in {"none", "expected", "spooled"}
        BY <2>1 DEF SpoolBlob, TypeInv, TypeOK, Blob
      <3> QED
        BY <2>1, <3>1 DEF SpoolBlob
    <2>2. CASE CaptureFails(p)
      BY <2>2 DEF CaptureFails
    <2>3. CASE ReleaseBlob(p)
      <3>1. cap = "complete" => \A q \in Paths : blob'[q].st \in {"none", "captured", "released"}
        BY <2>3 DEF ReleaseBlob, TypeInv, TypeOK, Blob
      <3> QED
        BY <2>3, <3>1 DEF ReleaseBlob
    <2> QED
      BY <1>3, <2>1, <2>2, <2>3
  <1>4. CASE PushBatch \/ AckBatch \/ RebuildBatch \/ RebuildFails \/ BeginPlan \/ EndPlan
    BY <1>4 DEF PushBatch, AckBatch, RebuildBatch, RebuildFails, BeginPlan, EndPlan, RefInv, Forget
  <1>5. CASE (\E w \in todo : PlanWire(w)) \/ \E p \in Paths : PlanBlob(p)
    BY <1>5 DEF PlanWire, PlanBlob
  <1>6. CASE \E l \in plans : PickPlan(l)
    BY <1>6 DEF PickPlan
  <1>7. CASE VerifyPrefix \/ SaveDigest \/ ReadSource \/ NothingToSend \/ StopOnBudget
    BY <1>7 DEF VerifyPrefix, SaveDigest, ReadSource, NothingToSend, StopOnBudget
  <1>8. CASE \E k \in 1 .. MaxClock, done \in BOOLEAN : SaveBatch(k, done)
    BY <1>8 DEF SaveBatch
  <1>9. CASE MarkComplete \/ MarkDigest \/ MarkAcknowledged \/ EndImport
    BY <1>9 DEF MarkComplete, MarkDigest, MarkAcknowledged, EndImport
  <1>10. CASE EndRun \/ Crash
    BY <1>10 DEF EndRun, Crash, Forget
  <1>11. CASE UNCHANGED vars
    BY <1>11 DEF vars
  <1> QED
    BY <1>1, <1>2, <1>3, <1>4, <1>5, <1>6, <1>7, <1>8, <1>9, <1>10, <1>11 DEF Next, Manager
\* A slice of a sequence of units.
LEMMA SliceIs ==
  ASSUME NEW q \in Units, NEW a \in Nat, NEW b \in Nat, a <= b, b <= Len(q)
  PROVE  LET v == SubSeq(q, a + 1, b) IN
         /\ v \in Units /\ Len(v) = b - a
         /\ \A k \in 1 .. b - a : v[k] = q[a + k]
         /\ \A j \in 1 .. Len(q) : a < j /\ j <= b => q[j] \in Elems(v)
  <1> DEFINE v == SubSeq(q, a + 1, b)
  <1>1. Len(q) \in Nat /\ \A k \in 1 .. Len(q) : q[k] \in Nat
    BY DEF Units
  <1>2. a + 1 \in Int /\ b \in Int /\ \A k \in a + 1 .. b : q[k] \in Nat
    BY <1>1
  <1>3. /\ v \in Seq(Nat)
        /\ Len(v) = IF a + 1 <= b THEN b - (a + 1) + 1 ELSE 0
        /\ \A k \in 1 .. b - (a + 1) + 1 : v[k] = q[a + 1 + k - 1]
    BY <1>2, SubSeqProperties
  <1> HIDE DEF v
  <1>4. Len(v) = b - a /\ \A k \in 1 .. b - a : v[k] = q[a + k]
    BY <1>3
  <1>5. ASSUME NEW j \in 1 .. Len(q), a < j, j <= b PROVE q[j] \in Elems(v)
    <2>1. j - a \in 1 .. Len(v) /\ v[j - a] = q[j]
      BY <1>1, <1>4, <1>5
    <2> QED
      BY <2>1 DEF Elems
  <1> QED
    BY <1>3, <1>4, <1>5 DEF v, Units

\* The blobs' contents, and which paths have one, are fixed; Loki forgets nothing.
BlobsKept == \A p \in Paths : /\ blob'[p].units = blob[p].units
                              /\ blob'[p].st = "none" <=> blob[p].st = "none"
IdsKept == \A s \in Slots : rows[s].id # <<>> => rows'[s].id = rows[s].id

\* What is good stays good while Loki grows, and for a row with the same id.
LEMMA GoodKept ==
  ASSUME NEW B, NEW C, NEW L, NEW M, L \subseteq M,
         \A p \in Paths : /\ C[p].units = B[p].units
                          /\ C[p].st = "none" <=> B[p].st = "none"
  PROVE  /\ \A r : RefOK(r) /\ GoodRow(B, L, r) => GoodRow(C, M, r)
         /\ \A r, q, l : RefOK(r) /\ q.id = r.id /\ q.blob = r.blob /\ GoodPlan(B, L, r, l)
                           => GoodPlan(C, M, q, l)
         /\ \A r, q, d : RefOK(r) /\ q.id = r.id /\ q.blob = r.blob /\ GoodBatch(B, L, r, d)
                           => GoodBatch(C, M, q, d)
  <1>1. \A q, k : Sent(L, q, k) => Sent(M, q, k)
    BY DEF Sent
  <1>2. \A r : RefOK(r) /\ RowShape(B, r) => RowShape(C, r)
    BY DEF RefOK, RowShape, BlobIx
  <1>3. \A r : RefOK(r) /\ RowSent(B, L, r) => RowSent(C, M, r)
    BY <1>1 DEF RefOK, RowSent
  <1>4. ASSUME NEW r, NEW q, NEW l, RefOK(r), q.id = r.id, q.blob = r.blob, GoodPlan(B, L, r, l)
        PROVE  GoodPlan(C, M, q, l)
    BY <1>1, <1>4 DEF RefOK, GoodPlan
  <1>5. ASSUME NEW r, NEW q, NEW d, RefOK(r), q.id = r.id, q.blob = r.blob, GoodBatch(B, L, r, d)
        PROVE  GoodBatch(C, M, q, d)
    BY <1>1, <1>5 DEF RefOK, GoodBatch
  <1>6. \A r : RefOK(r) /\ GoodRow(B, L, r) => GoodRow(C, M, r)
    BY <1>2, <1>3 DEF GoodRow
  <1> QED
    BY <1>4, <1>5, <1>6

\* Goodness does not depend on when the row was last written.
LEMMA GoodSame ==
  ASSUME NEW B, NEW L, NEW r, NEW q, Same(q, r), GoodRow(B, L, r)
  PROVE  GoodRow(B, L, q)
  BY DEF Same, GoodRow, RowShape, RowSent

\* Storing a good row keeps all of them good.
LEMMA PutGood ==
  ASSUME TypeInv, RowsBlob, NEW s \in Slots, NEW r \in Row, GoodRow(blob, loki, r),
         rows' = Put(s, r), UNCHANGED <<blob, loki>>
  PROVE  RowsBlob'
  <1>1. /\ Same(Put(s, r)[s], r)
        /\ \A x \in Slots : x # s => Same(Put(s, r)[x], rows[x])
    BY PutIs DEF TypeInv, TypeOK
  <1>2. ASSUME NEW x \in Slots PROVE GoodRow(blob, loki, Put(s, r)[x])
    <2>1. CASE x = s
      BY <1>1, <2>1, GoodSame
    <2>2. CASE x # s
      BY <1>1, <2>2, GoodSame DEF RowsBlob
    <2> QED
      BY <2>1, <2>2
  <1> QED
    BY <1>2 DEF RowsBlob

\* The frame of every step that keeps the blobs.
LEMMA BlobFrame ==
  ASSUME TypeInv, RowsBlob, BlobsKept, loki \subseteq loki', IdsKept, RowsBlob'
  PROVE  /\ \A r : RefOK(r) /\ GoodRow(blob, loki, r) => GoodRow(blob', loki', r)
         /\ \A l : PlanSrc(l) /\ GoodPlan(blob, loki, rows[l.src], l)
                     => GoodPlan(blob', loki', rows'[l.src], l)
         /\ \A d : d.src \in Slots /\ GoodBatch(blob, loki, rows[d.src], d)
                     => GoodBatch(blob', loki', rows'[d.src], d)
  <1>1. ASSUME NEW s \in Slots, rows[s].id # <<>>
        PROVE  rows'[s].id = rows[s].id /\ rows'[s].blob = rows[s].blob /\ RefOK(rows[s])
    <2>1. rows'[s].id = rows[s].id /\ RefOK(rows[s])
      BY <1>1 DEF IdsKept, TypeInv, RefInv
    <2>2. rows[s].blob = BlobIx(blob, rows[s].id)
      BY <1>1 DEF RowsBlob, GoodRow, RowShape
    <2>3. rows'[s].blob = BlobIx(blob', rows'[s].id)
      BY <1>1, <2>1 DEF RowsBlob, GoodRow, RowShape
    <2>4. BlobIx(blob', rows[s].id) = BlobIx(blob, rows[s].id)
      BY <1>1, <2>1 DEF BlobsKept, BlobIx, RefOK
    <2> QED
      BY <2>1, <2>2, <2>3, <2>4
  <1> DEFINE B == blob'
             M == loki'
             Q == rows'
  <1>2. \A p \in Paths : B[p].units = blob[p].units /\ (B[p].st = "none" <=> blob[p].st = "none")
    BY DEF BlobsKept
  <1>3. loki \subseteq M
    OBVIOUS
  <1>4. \A s \in Slots : rows[s].id # <<>> =>
           Q[s].id = rows[s].id /\ Q[s].blob = rows[s].blob /\ RefOK(rows[s])
    BY <1>1
  <1> HIDE DEF B, M, Q
  <1>5. /\ \A r : RefOK(r) /\ GoodRow(blob, loki, r) => GoodRow(B, M, r)
        /\ \A r, q, l : RefOK(r) /\ q.id = r.id /\ q.blob = r.blob /\ GoodPlan(blob, loki, r, l)
                           => GoodPlan(B, M, q, l)
        /\ \A r, q, d : RefOK(r) /\ q.id = r.id /\ q.blob = r.blob /\ GoodBatch(blob, loki, r, d)
                           => GoodBatch(B, M, q, d)
    BY <1>2, <1>3, GoodKept
  <1>6. ASSUME NEW l, PlanSrc(l), GoodPlan(blob, loki, rows[l.src], l)
        PROVE  GoodPlan(B, M, Q[l.src], l)
    <2>1. l.src \in Slots /\ rows[l.src].id # <<>>
      BY <1>6 DEF PlanSrc, GoodPlan
    <2> QED
      BY <1>4, <1>5, <1>6, <2>1
  <1>7. ASSUME NEW d, d.src \in Slots, GoodBatch(blob, loki, rows[d.src], d)
        PROVE  GoodBatch(B, M, Q[d.src], d)
    <2>1. rows[d.src].id # <<>>
      BY <1>7 DEF GoodBatch
    <2> QED
      BY <1>4, <1>5, <1>7, <2>1
  <1> QED
    BY <1>5, <1>6, <1>7 DEF B, M, Q
LEMMA BlobInit == Init => BlobInv
  <1> SUFFICES ASSUME Init PROVE BlobInv
    OBVIOUS
  <1>1. PhaseInv /\ Released
    BY DEF Init, PhaseInv, Planned, Importing, NoBlob, NoRow, Released
  <1>2. RowsBlob /\ RecsBlob
    BY DEF Init, RowsBlob, RecsBlob, GoodRow, RowShape, RowSent, NoRow
  <1> QED
    BY <1>1, <1>2 DEF Init, BlobInv, PlansBlob, CurBlob, PendBlob, GotBlob, Planned, Importing,
                      Reading

\* Before the capture is complete no row and no plan exists.
LEMMA BlobEarly ==
  ASSUME BlobInv, cap # "complete", UNCHANGED <<rows, pend>>, PhaseInv',
         mpc' \in {"idle", "capture", "flush"}, \A p \in Paths : blob'[p].st # "released"
  PROVE  BlobInv'
  <1>1. \A s \in Slots : rows[s].id = <<>>
    BY DEF BlobInv, PhaseInv
  <1>2. RowsBlob'
    BY <1>1 DEF BlobInv, RowsBlob, GoodRow, RowShape, RowSent
  <1>3. PendBlob'
    BY DEF BlobInv, PhaseInv, PendBlob
  <1>4. Released'
    BY DEF Released
  <1> QED
    BY <1>2, <1>3, <1>4 DEF BlobInv, RecsBlob, PlansBlob, CurBlob, GotBlob, Planned, Importing,
                            Reading

\* From then on, what a step leaves alone stays good.
RecsStep  == mpc' = "plan" => recs' = rows' \/ (mpc = "plan" /\ recs' = recs)
PlansStep == mpc' \in Planned \cup {"ack"} =>
                 plans' \subseteq plans /\ (mpc \in Planned \cup {"ack"} \/ plans = {})
CurStep   == mpc' \in Importing \cup {"ack"} /\ cur' # NoPlan =>
                 \/ cur' = cur /\ mpc \in Importing \cup {"ack"}
                 \/ cur' \in plans /\ mpc = "next"

\* A step that keeps the blobs' content and only adds to Loki keeps what rows,
\* plans and batches say of them, as far as they are old ones.
LEMMA BlobStep ==
  ASSUME TypeInv, BlobInv, BlobsKept, loki \subseteq loki', IdsKept, RowsBlob'
  PROVE  /\ RecsStep => RecsBlob'
         /\ PlansStep => PlansBlob'
         /\ CurStep => CurBlob'
         /\ pend' \in {pend, NoBatch} => PendBlob'
         /\ (\A p \in Paths : blob'[p].st = "released" => blob[p].st = "released") => Released'
  <1>1. /\ \A r : RefOK(r) /\ GoodRow(blob, loki, r) => GoodRow(blob', loki', r)
        /\ \A l : PlanSrc(l) /\ GoodPlan(blob, loki, rows[l.src], l)
                    => GoodPlan(blob', loki', rows'[l.src], l)
        /\ \A d : d.src \in Slots /\ GoodBatch(blob, loki, rows[d.src], d)
                    => GoodBatch(blob', loki', rows'[d.src], d)
    BY BlobFrame DEF BlobInv
  <1>2. ASSUME RecsStep PROVE RecsBlob'
    <2> SUFFICES ASSUME mpc' = "plan", NEW s \in Slots PROVE GoodRow(blob', loki', recs'[s])
      BY DEF RecsBlob
    <2>1. CASE recs' = rows'
      BY <2>1 DEF RowsBlob
    <2>2. CASE mpc = "plan" /\ recs' = recs
      <3>1. RefOK(recs[s]) /\ GoodRow(blob, loki, recs[s])
        BY <2>2 DEF TypeInv, RefInv, BlobInv, RecsBlob
      <3> QED
        BY <1>1, <2>2, <3>1
    <2> QED
      BY <1>2, <2>1, <2>2 DEF RecsStep
  <1>3. ASSUME PlansStep PROVE PlansBlob'
    <2> SUFFICES ASSUME mpc' \in Planned \cup {"ack"}, NEW l \in plans'
                 PROVE  GoodPlan(blob', loki', rows'[l.src], l)
      BY DEF PlansBlob
    <2>1. l \in plans /\ mpc \in Planned \cup {"ack"}
      BY <1>3 DEF PlansStep
    <2>2. PlanSrc(l) /\ GoodPlan(blob, loki, rows[l.src], l)
      BY <2>1 DEF TypeInv, RefInv, BlobInv, PlansBlob
    <2> QED
      BY <1>1, <2>2
  <1>4. ASSUME CurStep PROVE CurBlob'
    <2> SUFFICES ASSUME mpc' \in Importing \cup {"ack"}, cur' # NoPlan
                 PROVE  GoodPlan(blob', loki', rows'[cur'.src], cur')
      BY DEF CurBlob
    <2>1. PlanSrc(cur') /\ GoodPlan(blob, loki, rows[cur'.src], cur')
      <3>1. CASE cur' = cur /\ mpc \in Importing \cup {"ack"}
        <4>1. PlanSrc(cur)
          BY <3>1 DEF TypeInv, RefInv
        <4>2. GoodPlan(blob, loki, rows[cur.src], cur)
          BY <3>1 DEF BlobInv, CurBlob
        <4> QED
          BY <3>1, <4>1, <4>2
      <3>2. CASE cur' \in plans /\ mpc = "next"
        <4>1. \A l \in plans : PlanSrc(l) /\ GoodPlan(blob, loki, rows[l.src], l)
          BY <3>2 DEF TypeInv, RefInv, BlobInv, PlansBlob, Planned
        <4> QED
          BY <3>2, <4>1
      <3> QED
        BY <1>4, <3>1, <3>2 DEF CurStep
    <2> QED
      BY <1>1, <2>1
  <1>5. ASSUME pend' \in {pend, NoBatch} PROVE PendBlob'
    <2> SUFFICES ASSUME pend' # NoBatch PROVE GoodBatch(blob', loki', rows'[pend'.src], pend')
      BY DEF PendBlob
    <2>1. pend.src \in Slots /\ GoodBatch(blob, loki, rows[pend.src], pend)
      BY <1>5 DEF TypeInv, RefInv, BlobInv, PendBlob
    <2> QED
      BY <1>1, <1>5, <2>1
  <1>6. ASSUME \A p \in Paths : blob'[p].st = "released" => blob[p].st = "released"
        PROVE  Released'
    BY <1>6 DEF BlobInv, Released, BlobsKept, Sent
  <1> QED
    BY <1>2, <1>3, <1>4, <1>5, <1>6

\* A step that leaves the rows and the blobs.
LEMMA BlobQuiet ==
  ASSUME TypeInv, BlobInv, UNCHANGED <<rows, blob>>, loki \subseteq loki', PhaseInv',
         RecsStep, PlansStep, CurStep, pend' \in {pend, NoBatch}, GotBlob'
  PROVE  BlobInv'
  <1>1. BlobsKept /\ IdsKept
    BY DEF BlobsKept, IdsKept
  <1>2. \A r : RefOK(r) /\ GoodRow(blob, loki, r) => GoodRow(blob, loki', r)
    <2> DEFINE M == loki'
    <2>1. loki \subseteq M
      OBVIOUS
    <2> HIDE DEF M
    <2>2. \A r : RefOK(r) /\ GoodRow(blob, loki, r) => GoodRow(blob, M, r)
      BY <2>1, GoodKept
    <2> QED
      BY <2>2 DEF M
  <1>3. RowsBlob'
    BY <1>2 DEF BlobInv, RowsBlob, TypeInv, RefInv
  <1>4. RecsBlob' /\ PlansBlob' /\ CurBlob' /\ PendBlob' /\ Released'
    BY <1>1, <1>3, BlobStep
  <1> QED
    BY <1>3, <1>4 DEF BlobInv

\* A transaction that keeps the id of the row of the source being imported.
LEMMA BlobSource ==
  ASSUME TypeInv, BlobInv, mpc \in Importing, NEW r \in Row, rows' = Put(cur.src, r),
         r.id = rows[cur.src].id, GoodRow(blob, loki, r), PhaseInv',
         UNCHANGED <<blob, loki, pend, plans>>, mpc' # "plan", CurStep, GotBlob'
  PROVE  BlobInv'
  <1>1. cur.src \in Slots
    BY DEF TypeInv, RefInv, PlanSrc
  <1>2. RowsBlob'
    BY <1>1, PutGood DEF BlobInv
  <1>3. IdsKept
    <2>1. /\ Same(Put(cur.src, r)[cur.src], r)
          /\ \A x \in Slots : x # cur.src => Same(Put(cur.src, r)[x], rows[x])
      BY <1>1, PutIs DEF TypeInv, TypeOK
    <2> QED
      BY <2>1 DEF IdsKept, Same
  <1>4. BlobsKept /\ loki \subseteq loki' /\ RecsStep /\ PlansStep
    BY DEF BlobsKept, RecsStep, PlansStep, Planned
  <1>5. RecsBlob' /\ PlansBlob' /\ CurBlob' /\ PendBlob' /\ Released'
    BY <1>2, <1>3, <1>4, BlobStep
  <1> QED
    BY <1>2, <1>5 DEF BlobInv
-----------------------------------------------------------------------------
LEMMA GuestBlob == TypeInv /\ BlobInv /\ PhaseInv' /\ Guest => BlobInv'
  <1> SUFFICES ASSUME TypeInv, BlobInv, PhaseInv', Guest PROVE BlobInv'
    OBVIOUS
  <1>1. UNCHANGED <<loki, rows, cap, blob, pend, mpc, todo, recs, plans, cur, got, covered>>
    BY DEF Guest, GuestOnly, Create, AppendLog, RewriteLog, CloseLog, RotateLog, RemoveLog
  <1>2. RecsStep /\ PlansStep /\ CurStep /\ GotBlob'
    <2>1. mpc' \in Importing \cup {"ack"} => mpc \in Importing \cup {"ack"}
      BY <1>1
    <2> QED
      BY <1>1, <2>1 DEF RecsStep, PlansStep, CurStep, BlobInv, GotBlob
  <1> QED
    BY <1>1, <1>2, BlobQuiet

\* The run is over.
LEMMA ForgetBlob ==
  ASSUME TypeInv, BlobInv, PhaseInv', Forget, UNCHANGED <<loki, rows, blob, pend>>
  PROVE  BlobInv'
  <1>1. RecsStep /\ PlansStep /\ CurStep /\ GotBlob'
    BY DEF Forget, RecsStep, PlansStep, CurStep, GotBlob, Planned, Importing, Reading
  <1> QED
    BY <1>1, BlobQuiet

LEMMA CaptureBlob ==
  ASSUME TypeInv, BlobInv, PhaseInv',
         \/ StartRun \/ BeginCapture \/ FinishCapture
         \/ \E p \in Paths : SpoolBlob(p) \/ CaptureFails(p)
  PROVE  BlobInv'
  <1>1. CASE cap = "complete"
    <2>1. StartRun \/ (mpc = "capture" /\ \E p \in Paths : CaptureFails(p))
          \/ (mpc = "capture" /\ \E p \in Paths : SpoolBlob(p))
      BY <1>1 DEF BeginCapture, FinishCapture, SpoolBlob, CaptureFails
    <2>2. StartRun
      BY <1>1, <2>1 DEF SpoolBlob, CaptureFails
    <2>3. RecsStep /\ PlansStep /\ CurStep /\ GotBlob' /\ UNCHANGED <<rows, blob, pend, loki>>
      BY <2>2 DEF StartRun, RecsStep, PlansStep, CurStep, GotBlob, Planned, Importing, Reading
    <2> QED
      BY <2>3, BlobQuiet
  <1>2. CASE cap # "complete"
    <2>1. \A p \in Paths : blob[p].st # "released"
      BY <1>2 DEF BlobInv, PhaseInv, TypeInv, TypeOK
    <2>2. UNCHANGED <<rows, pend>> /\ mpc' \in {"idle", "capture", "flush"}
      BY <1>2 DEF StartRun, BeginCapture, FinishCapture, SpoolBlob, CaptureFails
    <2>3. \A p \in Paths : blob'[p].st # "released"
      <3>1. CASE StartRun \/ \E p \in Paths : CaptureFails(p)
        BY <2>1, <3>1 DEF StartRun, CaptureFails
      <3>2. CASE BeginCapture
        BY <3>2 DEF BeginCapture, NoBlob
      <3>3. CASE FinishCapture
        BY <2>1, <3>3 DEF FinishCapture, TypeInv, TypeOK, Blob
      <3>4. ASSUME NEW p \in Paths, SpoolBlob(p) PROVE \A q \in Paths : blob'[q].st # "released"
        BY <2>1, <3>4 DEF SpoolBlob, TypeInv, TypeOK, Blob
      <3> QED
        BY <3>1, <3>2, <3>3, <3>4
    <2> QED
      BY <1>2, <2>2, <2>3, BlobEarly
  <1> QED
    BY <1>1, <1>2

LEMMA PushBlob == TypeInv /\ BlobInv /\ PhaseInv' /\ PushBatch => BlobInv'
  <1> SUFFICES ASSUME TypeInv, BlobInv, PhaseInv', PushBatch PROVE BlobInv'
    OBVIOUS
  <1>1. /\ mpc \in {"flush", "push"}
        /\ UNCHANGED <<rows, blob, pend, recs, plans, cur, got>>
        /\ loki \subseteq loki'
        /\ mpc' \in {"ack", "idle", "release"}
        /\ mpc' = "ack" => Elems(pend.units) \subseteq loki'
    BY DEF PushBatch
  <1>2. mpc = "flush" => plans = {} /\ cur = NoPlan
    BY DEF BlobInv, PhaseInv
  <1>3. GotBlob'
    <2> SUFFICES ASSUME mpc' = "ack", cur # NoPlan PROVE GotBlob'
      BY <1>1 DEF GotBlob, Reading
    <2>1. mpc = "push"
      BY <1>1, <1>2
    <2> QED
      BY <1>1, <2>1 DEF BlobInv, GotBlob, Reading
  <1>4. RecsStep /\ PlansStep /\ CurStep
    BY <1>1, <1>2 DEF RecsStep, PlansStep, CurStep, Planned, Importing
  <1> QED
    BY <1>1, <1>3, <1>4, BlobQuiet

LEMMA AckBlob == TypeInv /\ BlobInv /\ PhaseInv' /\ AckBatch => BlobInv'
  <1> SUFFICES ASSUME TypeInv, BlobInv, PhaseInv', AckBatch PROVE BlobInv'
    OBVIOUS
  <1> DEFINE old == rows[pend.src]
             dg == IF pend.done THEN pend.digest ELSE old.digest
             r == [old EXCEPT !.off = pend.to, !.ack = pend.done, !.digest = dg]
             u == blob[old.blob].units
  <1>1. mpc = "ack" /\ pend # NoBatch /\ pend.src \in Slots /\ old \in Row /\ pend \in Batch
        /\ RefOK(old)
    BY DEF AckBatch, TypeInv, TypeOK, RefInv
  <1>2. dg \in Units
    BY <1>1 DEF Row, Batch
  <1>3. rows' = Put(pend.src, r) /\ UNCHANGED <<loki, blob, plans, got>> /\ pend' = NoBatch
    BY DEF AckBatch
  <1>4. \/ cur = NoPlan /\ mpc' = "plan" /\ recs' = rows' /\ cur' = NoPlan
        \/ /\ cur # NoPlan /\ cur' = [cur EXCEPT !.pos = pend.to]
           /\ mpc' \in {"mark", "save", "release"}
           /\ mpc' = "mark" => pend.done
    BY DEF AckBatch
  <1> HIDE DEF dg
  <1>5. /\ r \in Row /\ r.id = old.id /\ r.blob = old.blob /\ r.off = pend.to
        /\ r.done = old.done
    BY <1>1, <1>2 DEF Row, Batch
  <1>6. GoodRow(blob, loki, old) /\ GoodBatch(blob, loki, old, pend)
        /\ Elems(pend.units) \subseteq loki
    BY <1>1 DEF BlobInv, RowsBlob, PendBlob, GotBlob
  <1> HIDE DEF r
  <1>7. old.blob # 0 => Sent(loki, u, pend.to)
    <2> SUFFICES ASSUME old.blob # 0, NEW j \in 1 .. Len(u), j <= pend.to PROVE u[j] \in loki
      BY DEF Sent
    <2>1. \/ Sent(loki, u, Len(u))
          \/ /\ Sent(loki, u, pend.from)
             /\ \A k \in 1 .. Len(u) : pend.from < k /\ k <= pend.to =>
                                        u[k] \in loki \cup Elems(pend.units)
      BY <1>6 DEF GoodBatch
    <2>2. Len(u) \in Nat /\ pend.from \in Nat /\ pend.to \in Nat
      BY <1>1 DEF RefOK, TypeInv, TypeOK, Blob, Batch, Units
    <2> HIDE DEF u
    <2>3. CASE Sent(loki, u, Len(u))
      <3>1. j <= Len(u)
        BY <2>2
      <3> QED
        BY <2>3, <3>1 DEF Sent
    <2>4. ASSUME Sent(loki, u, pend.from), j <= pend.from PROVE u[j] \in loki
      BY <2>4 DEF Sent
    <2>5. ASSUME \A k \in 1 .. Len(u) : pend.from < k /\ k <= pend.to =>
                                         u[k] \in loki \cup Elems(pend.units),
                 pend.from < j
          PROVE  u[j] \in loki
      BY <1>6, <2>5
    <2>6. j <= pend.from \/ pend.from < j
      BY <2>2
    <2> QED
      BY <2>1, <2>3, <2>4, <2>5, <2>6
  <1>8. GoodRow(blob, loki, r)
    BY <1>5, <1>6, <1>7 DEF GoodRow, GoodBatch, RowShape, RowSent
  <1>9. RowsBlob'
    BY <1>1, <1>3, <1>5, <1>8, PutGood DEF BlobInv
  <1>10. IdsKept /\ BlobsKept /\ rows'[pend.src].id = old.id
    <2>1. /\ Same(Put(pend.src, r)[pend.src], r)
          /\ \A x \in Slots : x # pend.src => Same(Put(pend.src, r)[x], rows[x])
      BY <1>1, <1>5, PutIs DEF TypeInv, TypeOK
    <2> QED
      BY <1>3, <1>5, <2>1 DEF IdsKept, BlobsKept, Same
  <1>11. PlansBlob' /\ RecsBlob' /\ PendBlob' /\ Released'
    <2>1. RecsStep /\ PlansStep
      BY <1>1, <1>3, <1>4 DEF RecsStep, PlansStep
    <2> QED
      BY <1>3, <1>9, <1>10, <2>1, BlobStep
  <1>12. ASSUME cur # NoPlan
         PROVE  /\ cur \in Plan /\ PlanSrc(cur) /\ pend.src = cur.src
                /\ cur'.src = cur.src /\ cur'.read = cur.read /\ cur'.blob = cur.blob
                /\ cur'.pos = pend.to /\ GoodPlan(blob, loki, old, cur)
    <2>1. cur \in Plan /\ PlanSrc(cur) /\ pend.src = cur.src
      BY <1>1, <1>12 DEF TypeInv, TypeOK, RefInv, BlobInv, GotBlob
    <2>2. GoodPlan(blob, loki, rows[cur.src], cur)
      BY <1>1, <1>12 DEF BlobInv, CurBlob
    <2>3. cur' = [cur EXCEPT !.pos = pend.to]
      BY <1>4, <1>12
    <2> QED
      BY <2>1, <2>2, <2>3 DEF Plan
  <1>13. CurBlob'
    <2> SUFFICES ASSUME cur' # NoPlan, mpc' \in Importing \cup {"ack"}
                 PROVE  GoodPlan(blob, loki, rows'[cur'.src], cur')
      BY <1>3 DEF CurBlob
    <2>1. cur # NoPlan
      BY <1>4
    <2>2. rows'[cur.src].blob = old.blob /\ rows'[cur.src].id = old.id
      <3>1. Same(Put(pend.src, r)[pend.src], r)
        BY <1>1, <1>5, PutIs DEF TypeInv, TypeOK
      <3> QED
        BY <1>3, <1>5, <1>12, <2>1, <3>1 DEF Same
    <2> HIDE DEF old
    <2> QED
      BY <1>7, <1>12, <2>1, <2>2 DEF GoodPlan, u
  <1>14. GotBlob'
    <2> SUFFICES ASSUME cur # NoPlan PROVE GotBlob'
      BY <1>4 DEF GotBlob
    <2>1. /\ cur.read \in {"blob", "live"}
          /\ cur.read = "blob" => got = blob[cur.blob].units
          /\ pend.done => pend.to = Len(got)
      BY <1>1 DEF BlobInv, GotBlob, Reading
    <2>2. mpc' = "mark" => pend.done
      BY <1>4
    <2>3. Len(got) \in Nat
      BY DEF TypeInv, TypeOK, Units
    <2> QED
      BY <1>3, <1>4, <1>12, <2>1, <2>2, <2>3 DEF GotBlob
  <1> QED
    BY <1>9, <1>11, <1>13, <1>14 DEF BlobInv

LEMMA RebuildBlob == TypeInv /\ BlobInv /\ PhaseInv' /\ RebuildBatch => BlobInv'
  <1> SUFFICES ASSUME TypeInv, BlobInv, PhaseInv', RebuildBatch PROVE BlobInv'
    OBVIOUS
  <1> DEFINE r == rows[pend.src]
             u == blob[r.blob].units
  <1>1. pend \in Batch /\ pend.src \in Slots /\ r \in Row /\ pend # NoBatch /\ mpc = "flush"
        /\ RefOK(r)
    BY DEF RebuildBatch, TypeInv, TypeOK, RefInv
  <1>2. PICK q \in RebuildRange(r) :
            pend' = [pend EXCEPT !.units = SubSeq(q, pend.from + 1, pend.to)]
    BY DEF RebuildBatch
  <1>3. UNCHANGED <<rows, blob, loki, mpc, recs, plans, cur, got>>
    BY DEF RebuildBatch
  <1>4. /\ pend'.src = pend.src /\ pend'.from = pend.from /\ pend'.to = pend.to
        /\ pend'.units = SubSeq(q, pend.from + 1, pend.to)
        /\ pend.from \in Nat /\ pend.to \in Nat
    BY <1>1, <1>2 DEF Batch
  <1>5. ASSUME r.blob # 0, NEW j \in 1 .. Len(u), pend.from < j, j <= pend.to
        PROVE  u[j] \in Elems(pend'.units)
    <2>1. q = u /\ pend.to <= Len(u) /\ u \in Units
      BY <1>1, <1>5 DEF RebuildRange, RebuildSource, RefOK, TypeInv, TypeOK, Blob
    <2>2. pend.from <= pend.to /\ Len(u) \in Nat
      BY <1>4, <1>5, <2>1 DEF Units
    <2> HIDE DEF u
    <2> QED
      BY <1>4, <1>5, <2>1, <2>2, SliceIs
  <1>6. GoodBatch(blob, loki, r, pend)
    BY <1>1 DEF BlobInv, PendBlob
  <1>7. GoodBatch(blob, loki, r, pend')
    BY <1>4, <1>5, <1>6 DEF GoodBatch
  <1>8. PendBlob'
    BY <1>3, <1>4, <1>7 DEF PendBlob
  <1>9. RowsBlob' /\ RecsBlob' /\ PlansBlob' /\ CurBlob' /\ GotBlob' /\ Released'
    BY <1>1, <1>3 DEF BlobInv, RowsBlob, RecsBlob, PlansBlob, CurBlob, GotBlob, Released,
                      Planned, Importing, Reading
  <1> QED
    BY <1>8, <1>9 DEF BlobInv

LEMMA PlanEdgeBlob == TypeInv /\ BlobInv /\ PhaseInv' /\ (BeginPlan \/ EndPlan) => BlobInv'
  <1> SUFFICES ASSUME TypeInv, BlobInv, PhaseInv', BeginPlan \/ EndPlan PROVE BlobInv'
    OBVIOUS
  <1>1. UNCHANGED <<rows, blob, loki, pend, plans, cur, got>> /\ mpc' \in {"plan", "next"}
        /\ (mpc' = "plan" => mpc = "flush" /\ recs' = rows) /\ (mpc' = "next" => mpc = "plan")
    BY DEF BeginPlan, EndPlan
  <1>2. mpc = "flush" => plans = {}
    BY DEF BlobInv, PhaseInv
  <1>3. RecsStep /\ PlansStep /\ CurStep /\ GotBlob'
    BY <1>1, <1>2 DEF RecsStep, PlansStep, CurStep, GotBlob, Planned, Importing, Reading
  <1> QED
    BY <1>1, <1>3, BlobQuiet
-----------------------------------------------------------------------------
\* The row a planning step leaves at s, and the plan it adds for it, are good.
LEMMA PlanForGood ==
  ASSUME NEW B, NEW L, NEW s, NEW r, NEW b, NEW w, r.blob = b, r.id # <<>>, GoodRow(B, L, r),
         NEW p, p.read = SelectRead(r, b, w), p.blob = b, p.pos = r.off
  PROVE  GoodPlan(B, L, r, p)
  <1>1. p.read \in {"none", "blob", "live"} /\ (p.read = "blob" => b # 0)
        /\ (p.read = "live" /\ b # 0 => r.done)
    BY DEF SelectRead, PrefixComplete
  <1> QED
    BY <1>1 DEF GoodPlan, GoodRow, RowSent

\* A planning step keeps the rows' ids, and adds only good plans.
PlanKept == /\ RowsBlob' /\ IdsKept
            /\ \A l \in plans' : l \in plans \/
                   (PlanSrc(l) /\ GoodPlan(blob, loki, rows'[l.src], l))

\* What PlanSame writes: the row keeps its id, its blob and its progress.
LEMMA PlanSameBlob ==
  ASSUME TypeInv, BlobInv, mpc = "plan", UNCHANGED <<blob, loki>>,
         NEW s \in Slots, NEW old \in Row, NEW w \in Wire, NEW wire \in Wire,
         NEW b \in Paths \cup {0}, PlanSame(s, old, w, b, wire),
         old.id # <<>>, old.id = rows[s].id, old.blob = b, GoodRow(blob, loki, old)
  PROVE  PlanKept
  <1> DEFINE new == Refreshed(s, w, b)
             r == IF Unchanged(old, w) THEN old ELSE new
             p == PlanFor(s, r, b, wire)
             q == [p EXCEPT !.vn = VerifySize(old), !.vs = old.digest]
  <1>1. GoodRow(blob, loki, rows[s]) /\ rows[s].blob = b /\ rows[s] \in Row
    <2>1. GoodRow(blob, loki, rows[s])
      BY DEF BlobInv, RowsBlob
    <2> QED
      BY <2>1 DEF GoodRow, RowShape, TypeInv, TypeOK
  <1>2. /\ new \in Row /\ new.id = rows[s].id /\ new.blob = b /\ new.off = rows[s].off
        /\ new.done = rows[s].done /\ new.digest = rows[s].digest
    BY <1>1, RefreshedIs
  <1> HIDE DEF new
  <1>3. GoodRow(blob, loki, new)
    BY <1>1, <1>2 DEF GoodRow, RowShape, RowSent
  <1>4. r \in Row /\ r.id = rows[s].id /\ r.blob = b /\ GoodRow(blob, loki, r)
    BY <1>2, <1>3
  <1>5. RowsBlob' /\ IdsKept /\ rows'[s].id = rows[s].id /\ rows'[s].blob = b
    <2>1. CASE Unchanged(old, w)
      <3>1. rows' = rows
        BY <2>1 DEF PlanSame
      <3> QED
        BY <1>1, <3>1 DEF BlobInv, RowsBlob, IdsKept
    <2>2. CASE ~ Unchanged(old, w)
      <3>1. rows' = Put(s, new)
        BY <2>2 DEF PlanSame, new
      <3>2. /\ Same(Put(s, new)[s], new)
            /\ \A x \in Slots : x # s => Same(Put(s, new)[x], rows[x])
        BY <1>2, PutIs DEF TypeInv, TypeOK
      <3>3. RowsBlob'
        BY <1>2, <1>3, <3>1, PutGood DEF BlobInv
      <3> QED
        BY <1>2, <3>1, <3>2, <3>3 DEF IdsKept, Same
    <2> QED
      BY <2>1, <2>2
  <1>6. plans' \subseteq plans \cup {p, q}
    BY DEF PlanSame, new
  <1> HIDE DEF r
  <1>7. p \in Plan /\ PlanSrc(p)
    BY <1>4, PlanForTypes
  <1>8. p.src = s /\ p.read = SelectRead(r, b, wire) /\ p.blob = b /\ p.pos = r.off
    BY DEF PlanFor
  <1> HIDE DEF p
  <1>9. q.src = s /\ q.read = p.read /\ q.blob = b /\ q.pos = r.off /\ PlanSrc(q)
    BY <1>7, <1>8 DEF Plan, PlanSrc
  <1> HIDE DEF q
  <1>10. GoodPlan(blob, loki, r, p) /\ GoodPlan(blob, loki, r, q)
    BY <1>4, <1>8, <1>9, PlanForGood
  <1>11. GoodPlan(blob, loki, rows'[s], p) /\ GoodPlan(blob, loki, rows'[s], q)
    BY <1>4, <1>5, <1>10 DEF GoodPlan
  <1> QED
    BY <1>5, <1>6, <1>7, <1>8, <1>9, <1>11 DEF PlanKept

\* What PlanFresh writes: a row with the blob of its id and no progress.
LEMMA PlanFreshBlob ==
  ASSUME TypeInv, BlobInv, mpc = "plan", UNCHANGED <<blob, loki>>,
         NEW id \in Units, id # <<>>, NEW w \in Wire, NEW wire \in Wire,
         NEW b \in Paths \cup {0}, PlanFresh(id, w, b, wire), b = BlobIx(blob, id)
  PROVE  PlanKept
  <1>0. PICK s \in SlotOf(id) :
          /\ rows' = Put(s, FreshRow(id, w, b, s))
          /\ plans' = plans \cup {PlanFor(s, FreshRow(id, w, b, s), b, wire)}
    BY DEF PlanFresh, FreshRow
  <1> DEFINE r == FreshRow(id, w, b, s)
             p == PlanFor(s, r, b, wire)
  <1>1. s \in Slots /\ rows[s].id \in {<<>>, id}
    BY SlotIs DEF TypeInv
  <1>2. rows[s] \in Row /\ rows[s].blob \in {0, b} /\ b \in Nat
    <2>1. GoodRow(blob, loki, rows[s])
      BY <1>1 DEF BlobInv, RowsBlob
    <2> QED
      BY <1>1, <2>1 DEF GoodRow, RowShape, TypeInv, TypeOK, Paths
  <1>3. r \in Row /\ r.id = id /\ r.blob = b /\ r.off = 0 /\ ~ r.done
    BY <1>2, FreshRowIs
  <1> HIDE DEF r
  <1>4. GoodRow(blob, loki, r)
    BY <1>3 DEF GoodRow, RowShape, RowSent, Sent
  <1>5. rows' = Put(s, r) /\ plans' = plans \cup {p}
    BY <1>0 DEF r
  <1>6. RowsBlob'
    BY <1>1, <1>3, <1>4, <1>5, PutGood DEF BlobInv
  <1>7. IdsKept /\ rows'[s].id = id /\ rows'[s].blob = b
    <2>1. /\ Same(Put(s, r)[s], r)
          /\ \A x \in Slots : x # s => Same(Put(s, r)[x], rows[x])
      BY <1>1, <1>3, PutIs DEF TypeInv, TypeOK
    <2> QED
      BY <1>1, <1>3, <1>5, <2>1 DEF IdsKept, Same
  <1>8. p \in Plan /\ PlanSrc(p)
    BY <1>1, <1>3, PlanForTypes
  <1>9. p.src = s /\ p.read = SelectRead(r, b, wire) /\ p.blob = b /\ p.pos = r.off
    BY DEF PlanFor
  <1> HIDE DEF p
  <1>10. GoodPlan(blob, loki, r, p)
    BY <1>3, <1>4, <1>9, PlanForGood
  <1>11. GoodPlan(blob, loki, rows'[s], p)
    BY <1>3, <1>7, <1>10 DEF GoodPlan
  <1> QED
    BY <1>5, <1>6, <1>7, <1>8, <1>9, <1>11 DEF PlanKept

\* The frame of a planning step.
LEMMA PlanStepBlob ==
  ASSUME TypeInv, BlobInv, PhaseInv', mpc = "plan",
         UNCHANGED <<blob, loki, mpc, recs, cur, got, pend>>, PlanKept
  PROVE  BlobInv'
  <1>1. BlobsKept /\ loki \subseteq loki' /\ RecsStep /\ CurStep /\ RowsBlob' /\ IdsKept
    BY DEF BlobsKept, RecsStep, CurStep, Importing, PlanKept
  <1>2. RecsBlob' /\ CurBlob' /\ PendBlob' /\ Released'
    BY <1>1, BlobStep
  <1>3. PlansBlob'
    <2>1. ASSUME NEW l \in plans PROVE GoodPlan(blob, loki, rows'[l.src], l)
      <3>1. PlanSrc(l) /\ GoodPlan(blob, loki, rows[l.src], l)
        BY DEF TypeInv, RefInv, BlobInv, PlansBlob, Planned
      <3>2. GoodPlan(blob', loki', rows'[l.src], l)
        BY <1>1, <3>1, BlobFrame DEF BlobInv
      <3> QED
        BY <3>2
    <2> QED
      BY <2>1 DEF PlansBlob, PlanKept
  <1>4. GotBlob'
    BY DEF GotBlob, Reading
  <1> QED
    BY <1>1, <1>2, <1>3, <1>4 DEF BlobInv

LEMMA PlanWireBlob ==
  ASSUME TypeInv, BlobInv, PhaseInv', NEW w \in todo, PlanWire(w)
  PROVE  BlobInv'
  <1>1. /\ mpc = "plan"
        /\ UNCHANGED <<blob, loki, mpc, recs, cur, got, pend>>
        /\ w \in Wire /\ w.path \in Paths
    BY PlanWireIs
  <1>2. ASSUME NEW s \in Slots, recs[s].id # <<>>,
               PlanSame(s, recs[s], w, BlobOf(recs[s].id, recs[s]), w)
        PROVE  PlanKept
    <2>1. recs[s] \in Row /\ RefOK(recs[s]) /\ recs[s].id = rows[s].id
          /\ GoodRow(blob, loki, recs[s])
      BY <1>1, <1>2 DEF TypeInv, TypeOK, RefInv, BlobInv, RecsBlob
    <2>2. BlobOf(recs[s].id, recs[s]) = recs[s].blob
      BY <1>2, <2>1 DEF BlobOf, GoodRow, RowShape, BlobIx, RefOK
    <2>3. recs[s].blob \in Paths \cup {0}
      BY <2>1 DEF RefOK
    <2> QED
      BY <1>1, <1>2, <2>1, <2>2, <2>3, PlanSameBlob
  <1>3. ASSUME NEW s \in Slots, recs[s].id # <<>>,
               PlanFresh(NextGeneration(recs[s].id), w, 0, w)
        PROVE  PlanKept
    <2>1. /\ NextGeneration(recs[s].id) \in Units /\ NextGeneration(recs[s].id) # <<>>
          /\ Len(NextGeneration(recs[s].id)) # 1
      BY <1>1, <1>3, NextIdIs
    <2>2. BlobIx(blob, NextGeneration(recs[s].id)) = 0
      BY <2>1 DEF BlobIx
    <2> QED
      BY <1>1, <1>3, <2>1, <2>2, PlanFreshBlob
  <1>4. ASSUME NEW p \in Paths, PlanFresh(<<p>>, w, BlobOf(<<p>>, NoRow), w)
        PROVE  PlanKept
    <2>1. <<p>> \in Units /\ <<p>> # <<>> /\ Len(<<p>>) = 1 /\ <<p>>[1] = p
      BY BaseId
    <2> DEFINE id == <<p>>
               b  == BlobOf(id, NoRow)
    <2>2. b = BlobIx(blob, id) /\ b \in Paths \cup {0}
      BY <2>1 DEF BlobOf, BlobIx, NoRow
    <2>3. PlanFresh(id, w, b, w) /\ id \in Units /\ id # <<>>
      BY <1>4, <2>1
    <2> HIDE DEF id, b
    <2> QED
      BY <1>1, <2>2, <2>3, PlanFreshBlob
  <1>5. ASSUME UNCHANGED <<rows, plans>> PROVE PlanKept
    <2>1. RowsBlob'
      BY <1>1, <1>5 DEF RowsBlob, BlobInv
    <2> QED
      BY <1>5, <2>1 DEF IdsKept, PlanKept
  <1>6. PlanKept
    <2>1. \/ \E s \in Slots :
               /\ recs[s].id # <<>>
               /\ PlanSame(s, recs[s], w, BlobOf(recs[s].id, recs[s]), w)
          \/ \E s \in Slots : /\ recs[s].id # <<>>
                              /\ PlanFresh(NextGeneration(recs[s].id), w, 0, w)
          \/ \E p \in Paths : PlanFresh(<<p>>, w, BlobOf(<<p>>, NoRow), w)
          \/ UNCHANGED <<rows, plans>>
      BY PlanWireIs
    <2> QED
      BY <1>2, <1>3, <1>4, <1>5, <2>1
  <1> QED
    BY <1>1, <1>6, PlanStepBlob

LEMMA PlanBlobBlob ==
  ASSUME TypeInv, BlobInv, PhaseInv', NEW p \in Paths, PlanBlob(p)
  PROVE  BlobInv'
  <1>1. /\ mpc = "plan" /\ p \in Unclaimed
        /\ UNCHANGED <<blob, loki, mpc, recs, cur, got, pend>>
    BY PlanBlobIs
  <1>2. <<p>> \in Units /\ <<p>> # <<>> /\ Len(<<p>>) = 1 /\ <<p>>[1] = p
    BY BaseId
  <1>3. BlobIx(blob, <<p>>) = p /\ blob[p].wire \in Wire /\ NoWire \in Wire
    BY <1>1, <1>2, Empties DEF BlobIx, Unclaimed, TypeInv, TypeOK, Blob
  <1>4. ASSUME NEW s \in Slots, rows[s].id = <<p>>,
               PlanSame(s, rows[s], blob[p].wire, p, NoWire)
        PROVE  PlanKept
    <2>1. rows[s] \in Row /\ GoodRow(blob, loki, rows[s])
      BY DEF TypeInv, TypeOK, BlobInv, RowsBlob
    <2>2. rows[s].blob = p
      BY <1>2, <1>3, <1>4, <2>1 DEF GoodRow, RowShape
    <2> QED
      BY <1>1, <1>2, <1>3, <1>4, <2>1, <2>2, PlanSameBlob
  <1>5. ASSUME PlanFresh(<<p>>, blob[p].wire, p, NoWire) PROVE PlanKept
    BY <1>1, <1>2, <1>3, <1>5, PlanFreshBlob
  <1>6. PlanKept
    <2> QED
      BY <1>4, <1>5, PlanBlobIs
  <1> QED
    BY <1>1, <1>6, PlanStepBlob
-----------------------------------------------------------------------------
LEMMA PickBlob ==
  ASSUME TypeInv, BlobInv, PhaseInv', NEW l \in plans, PickPlan(l)
  PROVE  BlobInv'
  <1>1. /\ mpc = "next" /\ plans' \subseteq plans
        /\ UNCHANGED <<loki, rows, blob, pend, recs, got>>
        /\ \/ mpc' = "next" /\ cur' = cur
           \/ mpc' \in {"prepare", "read"} /\ cur' = l
    BY DEF PickPlan
  <1>2. cur = NoPlan
    BY <1>1 DEF BlobInv, PhaseInv
  <1>3. RecsStep /\ PlansStep /\ CurStep /\ GotBlob'
    BY <1>1, <1>2 DEF RecsStep, PlansStep, CurStep, GotBlob, Planned, Importing, Reading
  <1> QED
    BY <1>1, <1>3, BlobQuiet

\* The source being imported.
LEMMA CurIs ==
  ASSUME TypeInv, BlobInv, mpc \in Importing
  PROVE  /\ cur # NoPlan /\ cur \in Plan /\ PlanSrc(cur) /\ rows[cur.src] \in Row
         /\ RefOK(rows[cur.src]) /\ GoodRow(blob, loki, rows[cur.src])
         /\ GoodPlan(blob, loki, rows[cur.src], cur) /\ got \in Units
  BY DEF TypeInv, TypeOK, RefInv, PlanSrc, BlobInv, RowsBlob, CurBlob

LEMMA VerifyBlob == TypeInv /\ BlobInv /\ PhaseInv' /\ VerifyPrefix => BlobInv'
  <1> SUFFICES ASSUME TypeInv, BlobInv, PhaseInv', VerifyPrefix PROVE BlobInv'
    OBVIOUS
  <1> DEFINE r == rows[cur.src]
             w == cur.wire
             no == [r EXCEPT !.conf = TRUE]
             yes == [r EXCEPT !.vsize = w.n, !.conf = FALSE]
  <1>1. mpc = "prepare" /\ mpc \in Importing
    BY DEF VerifyPrefix, Importing
  <1>2. /\ cur # NoPlan /\ cur \in Plan /\ PlanSrc(cur) /\ r \in Row
        /\ GoodRow(blob, loki, r)
    BY <1>1, CurIs
  <1>3. UNCHANGED <<loki, blob, pend, plans, recs>>
    BY DEF VerifyPrefix
  <1>4. \/ mpc' = "release" /\ cur' = NoPlan /\ UNCHANGED <<rows, got>>
        \/ rows' = Put(cur.src, no) /\ mpc' = "release" /\ cur' = NoPlan
        \/ rows' = Put(cur.src, yes) /\ mpc' = "digest" /\ UNCHANGED cur
    BY DEF VerifyPrefix
  <1>5. /\ no \in Row /\ no.id = r.id /\ no.blob = r.blob /\ no.off = r.off /\ no.done = r.done
        /\ no.digest = r.digest
        /\ yes \in Row /\ yes.id = r.id /\ yes.blob = r.blob /\ yes.off = r.off
        /\ yes.done = r.done /\ yes.digest = r.digest
    BY <1>2 DEF Row, Plan, Wire
  <1> HIDE DEF no, yes
  <1>6. GoodRow(blob, loki, no) /\ GoodRow(blob, loki, yes)
    BY <1>2, <1>5 DEF GoodRow, RowShape, RowSent
  <1>7. RecsStep /\ PlansStep /\ CurStep /\ GotBlob' /\ mpc' # "plan"
    BY <1>1, <1>4, <1>3 DEF RecsStep, PlansStep, CurStep, GotBlob, Planned, Importing, Reading
  <1>8. CASE mpc' = "release" /\ cur' = NoPlan /\ UNCHANGED <<rows, got>>
    BY <1>3, <1>7, <1>8, BlobQuiet
  <1>9. CASE rows' = Put(cur.src, no)
    BY <1>1, <1>3, <1>5, <1>6, <1>7, <1>9, BlobSource
  <1>10. CASE rows' = Put(cur.src, yes)
    BY <1>1, <1>3, <1>5, <1>6, <1>7, <1>10, BlobSource
  <1> QED
    BY <1>4, <1>8, <1>9, <1>10

LEMMA DigestBlob == TypeInv /\ BlobInv /\ PhaseInv' /\ (SaveDigest \/ MarkDigest) => BlobInv'
  <1> SUFFICES ASSUME TypeInv, BlobInv, PhaseInv', SaveDigest \/ MarkDigest PROVE BlobInv'
    OBVIOUS
  <1> DEFINE r == rows[cur.src]
             new == [r EXCEPT !.digest = got]
  <1>1. /\ mpc \in {"digest", "markdigest"} /\ mpc \in Importing
        /\ UNCHANGED <<loki, blob, pend, plans>> /\ rows' = Put(cur.src, new)
        /\ \/ mpc' \in {"next", "read"} /\ cur' \in {NoPlan, cur}
              /\ (mpc' = "next" => cur' = NoPlan)
           \/ mpc = "markdigest" /\ mpc' = "markack" /\ UNCHANGED <<cur, got>>
    BY DEF SaveDigest, MarkDigest, Importing
  <1>2. /\ cur # NoPlan /\ r \in Row /\ GoodRow(blob, loki, r)
        /\ GoodPlan(blob, loki, r, cur) /\ got \in Units
    BY <1>1, CurIs
  <1>3. /\ new \in Row /\ new.id = r.id /\ new.blob = r.blob /\ new.off = r.off
        /\ new.done = r.done
    BY <1>2 DEF Row
  <1> HIDE DEF new
  <1>4. GoodRow(blob, loki, new)
    BY <1>2, <1>3 DEF GoodRow, RowShape, RowSent, GoodPlan
  <1>5. mpc' # "plan" /\ CurStep
    BY <1>1 DEF CurStep, Importing
  <1>6. GotBlob'
    <2>1. CASE mpc' \in {"next", "read"}
      BY <2>1 DEF GotBlob, Reading
    <2>2. CASE mpc = "markdigest" /\ mpc' = "markack" /\ UNCHANGED <<cur, got>>
      BY <1>1, <2>2 DEF BlobInv, GotBlob, Reading
    <2> QED
      BY <1>1, <2>1, <2>2
  <1> QED
    BY <1>1, <1>3, <1>4, <1>5, <1>6, BlobSource

LEMMA ReadBlob ==
  TypeInv /\ BlobInv /\ PhaseInv' /\ (ReadSource \/ NothingToSend \/ StopOnBudget \/ EndImport)
    => BlobInv'
  <1> SUFFICES ASSUME TypeInv, BlobInv, PhaseInv',
                      ReadSource \/ NothingToSend \/ StopOnBudget \/ EndImport
               PROVE  BlobInv'
    OBVIOUS
  <1>1. UNCHANGED <<loki, rows, blob, pend, recs, plans>>
    BY DEF ReadSource, NothingToSend, StopOnBudget, EndImport
  <1>2. /\ mpc \in {"read", "save", "next"} /\ mpc' \in {"save", "next", "mark", "release"}
        /\ cur' \in {cur, NoPlan}
        /\ (mpc' \in {"save", "mark"} => mpc \in {"read", "save"} /\ cur' = cur)
    BY DEF ReadSource, NothingToSend, StopOnBudget, EndImport
  <1>3. RecsStep /\ PlansStep /\ CurStep
    BY <1>1, <1>2 DEF RecsStep, PlansStep, CurStep, Planned, Importing
  <1>4. GotBlob'
    <2>1. CASE ReadSource
      BY <1>1, <2>1 DEF ReadSource, GotBlob, Reading
    <2>2. CASE NothingToSend
      BY <1>1, <2>2 DEF NothingToSend, BlobInv, GotBlob, Reading
    <2>3. CASE StopOnBudget \/ EndImport
      BY <2>3 DEF StopOnBudget, EndImport, GotBlob, Reading
    <2> QED
      BY <2>1, <2>2, <2>3
  <1> QED
    BY <1>1, <1>3, <1>4, BlobQuiet

LEMMA SaveBlob ==
  ASSUME TypeInv, BlobInv, PhaseInv', NEW k \in 1 .. MaxClock, NEW done \in BOOLEAN,
         SaveBatch(k, done)
  PROVE  BlobInv'
  <1> DEFINE r == rows[cur.src]
             u == blob[r.blob].units
  <1>1. mpc = "save" /\ mpc' = "push" /\ mpc \in Importing
        /\ cur.pos + k <= Len(got) /\ (done => cur.pos + k = Len(got))
        /\ UNCHANGED <<loki, rows, blob, recs, plans, cur, got>>
    BY DEF SaveBatch, Importing
  <1>2. /\ cur # NoPlan /\ cur \in Plan /\ PlanSrc(cur) /\ RefOK(r)
        /\ GoodPlan(blob, loki, r, cur) /\ got \in Units
        /\ cur.read \in {"blob", "live"}
        /\ cur.read = "blob" => got = blob[cur.blob].units
    BY <1>1, CurIs DEF BlobInv, GotBlob, Reading
  <1>3. /\ pend'.src = cur.src /\ pend'.from = cur.pos /\ pend'.to = cur.pos + k
        /\ pend'.units = SubSeq(got, cur.pos + 1, cur.pos + k) /\ pend'.done = done
    BY DEF SaveBatch
  <1>4. cur.pos \in Nat /\ k \in Nat
    BY <1>2 DEF Plan
  <1>5. \A j \in 1 .. Len(got) : cur.pos < j /\ j <= cur.pos + k => got[j] \in Elems(pend'.units)
    <2>1. cur.pos + k \in Nat /\ cur.pos <= cur.pos + k
      BY <1>4
    <2> DEFINE b == cur.pos + k
    <2> HIDE DEF b
    <2>2. b \in Nat /\ cur.pos <= b /\ b <= Len(got)
      BY <1>1, <2>1 DEF b
    <2>3. \A j \in 1 .. Len(got) : cur.pos < j /\ j <= b =>
             got[j] \in Elems(SubSeq(got, cur.pos + 1, b))
      BY <1>2, <1>4, <2>2, SliceIs
    <2> QED
      BY <1>3, <2>3 DEF b
  <1>6. GoodBatch(blob, loki, r, pend')
    <2>1. r.id # <<>>
      BY <1>2 DEF GoodPlan
    <2>2. CASE r.blob = 0
      BY <2>1, <2>2 DEF GoodBatch
    <2>3. CASE r.blob # 0 /\ cur.read = "live"
      BY <1>2, <2>1, <2>3 DEF GoodBatch, GoodPlan
    <2>4. CASE r.blob # 0 /\ cur.read = "blob"
      <3>1. got = u /\ Sent(loki, u, cur.pos)
        BY <1>2, <2>4 DEF GoodPlan
      <3> HIDE DEF u
      <3>2. \A j \in 1 .. Len(u) : pend'.from < j /\ j <= pend'.to =>
                                     u[j] \in loki \cup Elems(pend'.units)
        BY <1>3, <1>5, <3>1
      <3> QED
        BY <1>3, <2>1, <3>1, <3>2 DEF GoodBatch, u
    <2> QED
      BY <1>2, <2>2, <2>3, <2>4
  <1>7. PendBlob'
    BY <1>1, <1>3, <1>6 DEF PendBlob
  <1>8. GotBlob'
    BY <1>1, <1>2, <1>3 DEF GotBlob, Reading
  <1>9. RowsBlob' /\ RecsBlob' /\ PlansBlob' /\ CurBlob' /\ Released'
    BY <1>1 DEF BlobInv, RowsBlob, RecsBlob, PlansBlob, CurBlob, Released, Planned, Importing
  <1> QED
    BY <1>7, <1>8, <1>9 DEF BlobInv

LEMMA MarkBlob == TypeInv /\ BlobInv /\ PhaseInv' /\ (MarkComplete \/ MarkAcknowledged) => BlobInv'
  <1> SUFFICES ASSUME TypeInv, BlobInv, PhaseInv', MarkComplete \/ MarkAcknowledged PROVE BlobInv'
    OBVIOUS
  <1> DEFINE r == rows[cur.src]
             u == blob[r.blob].units
             w == cur.wire
             now == IF w = NoWire THEN r
                    ELSE [r EXCEPT !.path = w.path, !.ino = w.ino, !.n = w.n, !.m = w.m,
                                   !.act = w.act]
             frz == (cur.read = "blob" \/ r.frozen)
             all == [now EXCEPT !.done = TRUE, !.csize = cur.raw, !.frozen = frz]
             ack == [r EXCEPT !.ack = TRUE]
  <1>1. mpc \in {"mark", "markack"} /\ mpc \in Importing /\ UNCHANGED <<loki, blob, pend, plans>>
    BY DEF MarkComplete, MarkAcknowledged, Importing
  <1>2. /\ cur # NoPlan /\ cur \in Plan /\ r \in Row /\ RefOK(r) /\ GoodRow(blob, loki, r)
        /\ GoodPlan(blob, loki, r, cur) /\ got \in Units
    BY <1>1, CurIs
  <1>3. CASE MarkComplete
    <2>1. /\ mpc = "mark" /\ mpc' = "markdigest" /\ UNCHANGED <<cur, got>>
          /\ cur.pos >= Len(got) /\ cur.read \in {"blob", "live"}
          /\ cur.read = "blob" => got = blob[cur.blob].units
      BY <1>2, <1>3 DEF MarkComplete, BlobInv, GotBlob, Reading
    <2>2. now \in Row /\ now.id = r.id /\ now.blob = r.blob /\ now.off = r.off
          /\ now.frozen = r.frozen
      BY <1>2 DEF Plan, Row, Wire
    <2>3. frz \in BOOLEAN /\ cur.raw \in Nat
      BY <1>2 DEF Plan, Row
    <2>4. rows' = Put(cur.src, all)
      BY <1>3, <2>2 DEF MarkComplete
    <2> HIDE DEF now, frz
    <2>5. all \in Row /\ all.id = r.id /\ all.blob = r.blob /\ all.off = r.off
      BY <2>2, <2>3 DEF Row
    <2> HIDE DEF all
    <2>6. r.blob # 0 => Sent(loki, u, Len(u))
      <3>1. CASE cur.read = "live"
        BY <1>2, <3>1 DEF GoodPlan
      <3>2. CASE cur.read = "blob"
        <4>1. r.blob # 0 /\ got = u /\ Sent(loki, u, cur.pos)
          BY <1>2, <2>1, <3>2 DEF GoodPlan
        <4>2. cur.pos \in Nat /\ Len(u) \in Nat /\ cur.pos >= Len(u)
          BY <1>2, <2>1, <4>1 DEF Plan, Units
        <4> HIDE DEF u
        <4> QED
          BY <4>1, <4>2 DEF Sent
      <3> QED
        BY <2>1, <3>1, <3>2
    <2>7. GoodRow(blob, loki, all)
      BY <1>2, <2>5, <2>6 DEF GoodRow, RowShape, RowSent, GoodPlan
    <2>8. CurStep /\ GotBlob' /\ mpc' # "plan"
      BY <1>1, <2>1 DEF CurStep, GotBlob, Reading
    <2> QED
      BY <1>1, <2>4, <2>5, <2>7, <2>8, BlobSource
  <1>4. CASE MarkAcknowledged
    <2>1. rows' = Put(cur.src, ack) /\ mpc' = "next" /\ cur' = NoPlan
      BY <1>4 DEF MarkAcknowledged
    <2>2. /\ ack \in Row /\ ack.id = r.id /\ ack.blob = r.blob /\ ack.off = r.off
          /\ ack.done = r.done /\ ack.digest = r.digest
      BY <1>2 DEF Row
    <2> HIDE DEF ack
    <2>3. GoodRow(blob, loki, ack)
      BY <1>2, <2>2 DEF GoodRow, RowShape, RowSent
    <2>4. CurStep /\ GotBlob' /\ mpc' # "plan"
      BY <2>1 DEF CurStep, GotBlob, Reading
    <2> QED
      BY <1>1, <2>1, <2>2, <2>3, <2>4, BlobSource
  <1> QED
    BY <1>3, <1>4

LEMMA ReleaseBlobBlob ==
  ASSUME TypeInv, BlobInv, PhaseInv', NEW p \in Paths, ReleaseBlob(p)
  PROVE  BlobInv'
  <1>1. /\ mpc = "release" /\ mpc' = "release" /\ blob[p].st = "captured"
        /\ UNCHANGED <<loki, rows, pend, recs, plans, cur, got>>
        /\ blob' = [blob EXCEPT ![p].st = "released"]
    BY DEF ReleaseBlob
  <1>2. \A q \in Paths : /\ blob'[q].units = blob[q].units
                         /\ blob'[q].st = IF q = p THEN "released" ELSE blob[q].st
    BY <1>1 DEF TypeInv, TypeOK, Blob
  <1>3. Sent(loki, blob[p].units, Len(blob[p].units))
    <2>1. PICK s \in Slots : rows[s].id = <<p>> /\ rows[s].done
      BY DEF ReleaseBlob, PrefixComplete
    <2>2. rows[s].blob = p /\ p # 0
      <3>1. <<p>> # <<>> /\ Len(<<p>>) = 1 /\ <<p>>[1] = p
        BY BaseId
      <3>2. BlobIx(blob, <<p>>) = p
        BY <1>1, <3>1 DEF BlobIx
      <3> QED
        BY <2>1, <3>1, <3>2 DEF BlobInv, RowsBlob, GoodRow, RowShape, Paths
    <2> QED
      BY <2>1, <2>2 DEF BlobInv, RowsBlob, GoodRow, RowSent
  <1>4. BlobsKept /\ IdsKept /\ loki \subseteq loki'
    BY <1>1, <1>2 DEF BlobsKept, IdsKept
  <1>5. RowsBlob'
    <2> DEFINE C == blob'
    <2>1. \A q \in Paths : C[q].units = blob[q].units /\ (C[q].st = "none" <=> blob[q].st = "none")
      BY <1>4 DEF BlobsKept
    <2> HIDE DEF C
    <2>2. \A r : RefOK(r) /\ GoodRow(blob, loki, r) => GoodRow(C, loki, r)
      BY <2>1, GoodKept
    <2>3. \A s \in Slots : GoodRow(C, loki, rows[s])
      BY <2>2 DEF BlobInv, RowsBlob, TypeInv, RefInv
    <2> QED
      BY <1>1, <2>3 DEF RowsBlob, C
  <1>6. RecsStep /\ PlansStep /\ CurStep /\ GotBlob'
    BY <1>1 DEF RecsStep, PlansStep, CurStep, GotBlob, Planned, Importing, Reading
  <1>7. RecsBlob' /\ PlansBlob' /\ CurBlob' /\ PendBlob'
    BY <1>1, <1>4, <1>5, <1>6, BlobStep
  <1>8. Released'
    BY <1>1, <1>2, <1>3 DEF BlobInv, Released
  <1> QED
    BY <1>5, <1>6, <1>7, <1>8 DEF BlobInv

LEMMA BlobNext == TypeInv /\ BlobInv /\ [Next]_vars => BlobInv'
  <1> SUFFICES ASSUME TypeInv, BlobInv, [Next]_vars PROVE BlobInv'
    OBVIOUS
  <1>1. PhaseInv'
    BY PhaseStep DEF BlobInv
  <1>2. CASE UNCHANGED vars
    <2>1. UNCHANGED <<loki, rows, blob, pend, mpc, recs, plans, cur, got>>
      BY <1>2 DEF vars
    <2>2. RecsStep /\ PlansStep /\ CurStep /\ GotBlob'
      BY <2>1 DEF RecsStep, PlansStep, CurStep, GotBlob, BlobInv
    <2> QED
      BY <1>1, <2>1, <2>2, BlobQuiet
  <1>3. CASE RebuildFails \/ EndRun \/ Crash
    BY <1>1, <1>3, ForgetBlob DEF RebuildFails, EndRun, Crash
  <1> QED
    BY <1>1, <1>2, <1>3, GuestBlob, CaptureBlob, PushBlob, AckBlob, RebuildBlob, PlanEdgeBlob,
       PlanWireBlob, PlanBlobBlob, PickBlob, VerifyBlob, DigestBlob, ReadBlob, SaveBlob, MarkBlob,
       ReleaseBlobBlob DEF Next, Manager

\* The node's frozen copy of a log is released only once Loki has every unit of
\* it: whatever pushes were lost, wherever earlier runs died, whichever files
\* were rotated, replaced or planned twice in between.
THEOREM AlwaysReleasedArchived == Spec => []ReleasedMeansArchived
  <1>1. Released => ReleasedMeansArchived
    <2> SUFFICES ASSUME Released, NEW p \in Paths, blob[p].st = "released",
                        NEW x \in Elems(blob[p].units)
                 PROVE  x \in loki
      BY DEF ReleasedMeansArchived
    <2>1. PICK j \in 1 .. Len(blob[p].units) : x = blob[p].units[j]
      BY DEF Elems
    <2> QED
      BY <2>1 DEF Released, Sent
  <1>2. TypeInv /\ BlobInv => Released
    BY DEF BlobInv
  <1> QED
    BY TypeInit, BlobInit, TypeStep, BlobNext, <1>1, <1>2, PTL DEF Spec
-----------------------------------------------------------------------------
(***************************************************************************)
(* What follows assumes OwnRows: as long as every plan has a row of its    *)
(* own, the row stays as its plan left it until the source's turn comes.   *)
(***************************************************************************)
\* The row r of plan l, while the wires T are still to be planned.
PlanRow(r, l, T) ==
    /\ l.pos = r.off
    /\ l.wire # NoWire => Unchanged(r, l.wire) /\ l.wire \notin T

PlansOwn == mpc \in Planned \cup {"ack"} => \A l \in plans : PlanRow(rows[l.src], l, todo)
CurOwn   == mpc \in Importing \cup {"ack"} /\ cur # NoPlan =>
                PlanRow(rows[cur.src], cur, todo) /\ \A l \in plans : l.src # cur.src
RecsOwn  == mpc = "plan" =>
                \A s \in Slots : (\A l \in plans : l.src # s) => Same(rows[s], recs[s])
PendOwn  == pend # NoBatch => /\ pend.from = rows[pend.src].off
                              /\ Len(pend.units) = pend.to - pend.from
                              /\ pend.from < pend.to
OwnInv == PlansOwn /\ CurOwn /\ RecsOwn /\ PendOwn

LEMMA OwnInit == Init => OwnInv
  BY DEF Init, OwnInv, PlansOwn, CurOwn, RecsOwn, PendOwn, Planned, Importing

\* A real wire is not the empty one.
LEMMA RealWire == \A w : w.path \in Paths => w # NoWire
  BY ImportAssumption DEF NoWire, Paths

\* A plan of a row is one of the same row written again.
LEMMA PlanRowSame ==
  ASSUME NEW r, NEW q, NEW l, NEW S, NEW T, Same(q, r), T \subseteq S, PlanRow(r, l, S)
  PROVE  PlanRow(q, l, T)
  BY DEF Same, PlanRow, Unchanged

\* Same is an equivalence.
LEMMA SameIs == /\ \A r : Same(r, r)
                /\ \A r, q : Same(r, q) => Same(q, r)
                /\ \A r, q, x : Same(r, q) /\ Same(q, x) => Same(r, x)
  BY DEF Same

\* A step that leaves the rows.
LEMMA OwnQuiet ==
  ASSUME TypeInv, BlobInv, OwnInv, UNCHANGED rows, RecsStep, PlansStep,
         mpc' \in Planned \cup {"ack"} => todo' \subseteq todo \/ plans = {},
         mpc' = "plan" => plans' = plans,
         mpc' \in Importing \cup {"ack"} /\ cur' # NoPlan =>
             /\ \/ cur' = cur /\ mpc \in Importing \cup {"ack"} /\ todo' \subseteq todo
                \/ cur' \in plans /\ mpc = "next" /\ todo' \subseteq todo
             /\ \A l \in plans' : l.src # cur'.src,
         pend' \in {pend, NoBatch}
  PROVE  OwnInv'
  <1>1. PlansOwn'
    <2> SUFFICES ASSUME mpc' \in Planned \cup {"ack"}, NEW l \in plans'
                 PROVE  PlanRow(rows[l.src], l, todo')
      BY DEF PlansOwn
    <2>1. l \in plans /\ mpc \in Planned \cup {"ack"} /\ todo' \subseteq todo
      BY DEF PlansStep
    <2>2. PlanRow(rows[l.src], l, todo)
      BY <2>1 DEF OwnInv, PlansOwn
    <2> QED
      BY <2>1, <2>2, PlanRowSame, SameIs
  <1>2. CurOwn'
    <2> SUFFICES ASSUME mpc' \in Importing \cup {"ack"}, cur' # NoPlan
                 PROVE  PlanRow(rows[cur'.src], cur', todo') /\ \A l \in plans' : l.src # cur'.src
      BY DEF CurOwn
    <2> DEFINE c == cur'
               T == todo'
    <2>1. PlanRow(rows[c.src], c, todo) /\ T \subseteq todo
      BY DEF OwnInv, CurOwn, PlansOwn, Planned
    <2> HIDE DEF c, T
    <2>2. PlanRow(rows[c.src], c, T)
      BY <2>1, PlanRowSame, SameIs
    <2> QED
      BY <2>2 DEF c, T
  <1>3. RecsOwn'
    <2> SUFFICES ASSUME mpc' = "plan", NEW s \in Slots, \A l \in plans' : l.src # s
                 PROVE  Same(rows[s], recs'[s])
      BY DEF RecsOwn
    <2>1. CASE recs' = rows'
      BY <2>1, SameIs
    <2>2. CASE mpc = "plan" /\ recs' = recs
      BY <2>2 DEF OwnInv, RecsOwn
    <2> QED
      BY <2>1, <2>2 DEF RecsStep
  <1>4. PendOwn'
    BY DEF OwnInv, PendOwn
  <1> QED
    BY <1>1, <1>2, <1>3, <1>4 DEF OwnInv

\* A transaction on the row of the source being imported.
LEMMA OwnSource ==
  ASSUME TypeInv, BlobInv, OwnInv, mpc \in Importing \cup {"ack"}, cur # NoPlan,
         NEW r \in Row, rows' = Put(cur.src, r), UNCHANGED <<plans, todo>>, mpc' # "plan",
         mpc' \in Importing \cup {"ack"} /\ cur' # NoPlan =>
             cur'.src = cur.src /\ PlanRow(r, cur', todo),
         pend' = NoBatch
  PROVE  OwnInv'
  <1>1. cur.src \in Slots /\ \A l \in plans : l.src \in Slots /\ l.src # cur.src
    BY DEF TypeInv, RefInv, PlanSrc, OwnInv, CurOwn
  <1>2. /\ Same(Put(cur.src, r)[cur.src], r)
        /\ \A x \in Slots : x # cur.src => Same(Put(cur.src, r)[x], rows[x])
    BY <1>1, PutIs DEF TypeInv, TypeOK
  <1>3. mpc \in Planned \cup {"ack"}
    BY DEF Planned
  <1>4. PlansOwn'
    <2> SUFFICES ASSUME NEW l \in plans PROVE PlanRow(rows'[l.src], l, todo)
      BY DEF PlansOwn
    <2>1. PlanRow(rows[l.src], l, todo)
      BY <1>3 DEF OwnInv, PlansOwn
    <2>2. Same(Put(cur.src, r)[l.src], rows[l.src])
      BY <1>1, <1>2
    <2>3. PlanRow(Put(cur.src, r)[l.src], l, todo)
      BY <2>1, <2>2, PlanRowSame
    <2> QED
      BY <2>3
  <1>5. CurOwn'
    <2> SUFFICES ASSUME mpc' \in Importing \cup {"ack"}, cur' # NoPlan
                 PROVE  PlanRow(rows'[cur'.src], cur', todo) /\ \A l \in plans : l.src # cur'.src
      BY DEF CurOwn
    <2> DEFINE c == cur'
    <2>1. c.src = cur.src /\ PlanRow(r, c, todo)
      OBVIOUS
    <2> HIDE DEF c
    <2>2. PlanRow(Put(cur.src, r)[cur.src], c, todo)
      BY <1>2, <2>1, PlanRowSame
    <2> QED
      BY <1>1, <2>1, <2>2 DEF c
  <1> QED
    BY <1>4, <1>5 DEF OwnInv, RecsOwn, PendOwn

LEMMA GuestOwn == TypeInv /\ BlobInv /\ OwnInv /\ Guest => OwnInv'
  <1> SUFFICES ASSUME TypeInv, BlobInv, OwnInv, Guest PROVE OwnInv'
    OBVIOUS
  <1>1. UNCHANGED <<loki, rows, cap, blob, pend, mpc, todo, recs, plans, cur, got, covered>>
    BY DEF Guest, GuestOnly, Create, AppendLog, RewriteLog, CloseLog, RotateLog, RemoveLog
  <1> QED
    BY <1>1 DEF OwnInv, PlansOwn, CurOwn, RecsOwn, PendOwn

\* Steps on which the run is not yet, or no longer, at its plans.
LEMMA OutsideOwn ==
  ASSUME TypeInv, BlobInv, OwnInv, PhaseInv', UNCHANGED rows, pend' \in {pend, NoBatch},
         mpc' \in {"idle", "capture", "flush", "release"}
  PROVE  OwnInv'
  BY DEF OwnInv, PlansOwn, CurOwn, RecsOwn, PendOwn, Planned, Importing

LEMMA PushOwn == TypeInv /\ BlobInv /\ OwnInv /\ PhaseInv' /\ PushBatch => OwnInv'
  <1> SUFFICES ASSUME TypeInv, BlobInv, OwnInv, PhaseInv', PushBatch PROVE OwnInv'
    OBVIOUS
  <1>1. /\ mpc \in {"flush", "push"} /\ UNCHANGED <<rows, pend, recs, plans, cur>>
        /\ mpc' \in {"ack", "idle", "release"}
        /\ mpc' = "ack" => todo' = todo
    BY DEF PushBatch
  <1>2. mpc = "flush" => plans = {} /\ cur = NoPlan
    BY DEF BlobInv, PhaseInv
  <1>3. CASE mpc' = "ack"
    <2>1. RecsStep /\ PlansStep
      BY <1>1, <1>2, <1>3 DEF RecsStep, PlansStep, Planned, Importing
    <2>2. cur # NoPlan => mpc \in Importing \cup {"ack"} /\ \A l \in plans : l.src # cur.src
      BY <1>1, <1>2 DEF OwnInv, CurOwn, Importing
    <2> QED
      BY <1>1, <1>3, <2>1, <2>2, OwnQuiet
  <1>4. CASE mpc' # "ack"
    BY <1>1, <1>4, OutsideOwn
  <1> QED
    BY <1>3, <1>4

LEMMA AckOwn == TypeInv /\ BlobInv /\ OwnInv /\ PhaseInv' /\ AckBatch => OwnInv'
  <1> SUFFICES ASSUME TypeInv, BlobInv, OwnInv, PhaseInv', AckBatch PROVE OwnInv'
    OBVIOUS
  <1> DEFINE old == rows[pend.src]
             dg == IF pend.done THEN pend.digest ELSE old.digest
             r == [old EXCEPT !.off = pend.to, !.ack = pend.done, !.digest = dg]
  <1>1. mpc = "ack" /\ pend # NoBatch /\ pend.src \in Slots /\ old \in Row /\ pend \in Batch
    BY DEF AckBatch, TypeInv, TypeOK, RefInv
  <1>2. dg \in Units
    BY <1>1 DEF Row, Batch
  <1>3. rows' = Put(pend.src, r) /\ UNCHANGED <<plans, todo>> /\ pend' = NoBatch
    BY DEF AckBatch
  <1>4. \/ cur = NoPlan /\ mpc' = "plan" /\ recs' = rows' /\ cur' = NoPlan
        \/ /\ cur # NoPlan /\ cur' = [cur EXCEPT !.pos = pend.to]
           /\ mpc' \in {"mark", "save", "release"}
    BY DEF AckBatch
  <1> HIDE DEF dg
  <1>5. /\ r \in Row /\ r.off = pend.to /\ r.path = old.path /\ r.ino = old.ino /\ r.n = old.n
        /\ r.m = old.m /\ r.act = old.act
    BY <1>1, <1>2 DEF Row, Batch
  <1> HIDE DEF r
  <1>6. CASE cur = NoPlan
    <2>1. plans = {}
      BY <1>1, <1>6 DEF BlobInv, PhaseInv
    <2>2. RecsOwn'
      BY <1>4, <1>6, SameIs DEF RecsOwn
    <2> QED
      BY <1>3, <1>4, <1>6, <2>1, <2>2 DEF OwnInv, PlansOwn, CurOwn, PendOwn
  <1>7. CASE cur # NoPlan
    <2>1. cur \in Plan /\ PlanSrc(cur) /\ pend.src = cur.src /\ PlanRow(old, cur, todo)
      <3>1. cur \in Plan /\ PlanSrc(cur) /\ pend.src = cur.src
        BY <1>1, <1>7 DEF TypeInv, TypeOK, RefInv, BlobInv, GotBlob
      <3> QED
        BY <1>1, <1>7, <3>1 DEF OwnInv, CurOwn
    <2>2. cur'.src = cur.src /\ cur'.pos = pend.to /\ cur'.wire = cur.wire
      BY <1>4, <1>7, <2>1 DEF Plan
    <2>3. PlanRow(r, cur', todo)
      BY <1>5, <2>1, <2>2 DEF PlanRow, Unchanged
    <2> QED
      BY <1>1, <1>3, <1>4, <1>5, <1>7, <2>1, <2>2, <2>3, OwnSource
  <1> QED
    BY <1>6, <1>7

LEMMA RebuildOwn == TypeInv /\ BlobInv /\ OwnInv /\ RebuildBatch => OwnInv'
  <1> SUFFICES ASSUME TypeInv, BlobInv, OwnInv, RebuildBatch PROVE OwnInv'
    OBVIOUS
  <1>1. pend \in Batch /\ pend.src \in Slots /\ rows[pend.src] \in Row /\ pend # NoBatch
        /\ RefOK(rows[pend.src])
    BY DEF RebuildBatch, TypeInv, TypeOK, RefInv
  <1>2. PICK q \in RebuildRange(rows[pend.src]) :
            pend' = [pend EXCEPT !.units = SubSeq(q, pend.from + 1, pend.to)]
    BY DEF RebuildBatch
  <1>3. q \in Units /\ pend.to <= Len(q)
    <2> DEFINE r == rows[pend.src]
    <2>1. r.blob \in Paths \cup {0} /\ r.n \in Nat
      BY <1>1 DEF RefOK, Row
    <2>2. \A p \in Paths : blob[p].units \in Units
      BY DEF TypeInv, TypeOK, Blob
    <2>3. \A i \in Inodes : First(data[i], r.n) \in Units
      BY <2>1, FirstIs DEF TypeInv, TypeOK
    <2>4. q \in RebuildSource(r) /\ Len(q) >= pend.to
      BY <1>2 DEF RebuildRange
    <2> HIDE DEF r
    <2>5. q \in Units
      BY <2>1, <2>2, <2>3, <2>4 DEF RebuildSource, HasFile
    <2> QED
      BY <1>1, <2>4, <2>5 DEF Batch, Units
  <1>4. /\ pend.from \in Nat /\ pend.to \in Nat /\ pend.from < pend.to
        /\ pend.from = rows[pend.src].off
    BY <1>1 DEF Batch, OwnInv, PendOwn
  <1>5. Len(SubSeq(q, pend.from + 1, pend.to)) = pend.to - pend.from
    <2>1. pend.from <= pend.to
      BY <1>4
    <2> QED
      BY <1>3, <1>4, <2>1, SliceIs
  <1>6. /\ pend'.src = pend.src /\ pend'.from = pend.from /\ pend'.to = pend.to
        /\ pend'.units = SubSeq(q, pend.from + 1, pend.to)
    BY <1>1, <1>2 DEF Batch
  <1>7. UNCHANGED <<rows, mpc, todo, recs, plans, cur>>
    BY DEF RebuildBatch
  <1>8. PendOwn'
    BY <1>4, <1>5, <1>6, <1>7 DEF PendOwn
  <1> QED
    BY <1>7, <1>8 DEF OwnInv, PlansOwn, CurOwn, RecsOwn

LEMMA EdgeOwn == TypeInv /\ BlobInv /\ OwnInv /\ (BeginPlan \/ EndPlan) => OwnInv'
  <1> SUFFICES ASSUME TypeInv, BlobInv, OwnInv, BeginPlan \/ EndPlan PROVE OwnInv'
    OBVIOUS
  <1>1. UNCHANGED <<rows, pend, todo, plans, cur>> /\ mpc' \in {"plan", "next"}
        /\ (mpc' = "plan" => mpc = "flush" /\ recs' = rows) /\ (mpc' = "next" => mpc = "plan")
    BY DEF BeginPlan, EndPlan
  <1>2. mpc = "flush" => plans = {}
    BY DEF BlobInv, PhaseInv
  <1>3. RecsStep /\ PlansStep
    BY <1>1, <1>2 DEF RecsStep, PlansStep, Planned, Importing
  <1> QED
    BY <1>1, <1>3, OwnQuiet DEF Importing

LEMMA PickOwn ==
  ASSUME TypeInv, BlobInv, OwnInv, OwnRows, NEW l \in plans, PickPlan(l)
  PROVE  OwnInv'
  <1>1. /\ mpc = "next" /\ plans' = plans \ {l}
        /\ UNCHANGED <<rows, pend, recs, todo>>
        /\ \/ mpc' = "next" /\ cur' = cur
           \/ mpc' \in {"prepare", "read"} /\ cur' = l
    BY DEF PickPlan
  <1>2. RecsStep /\ PlansStep
    BY <1>1 DEF RecsStep, PlansStep, Planned, Importing
  <1>3. \A k \in plans' : k.src # l.src
    BY <1>1 DEF OwnRows
  <1> QED
    BY <1>1, <1>2, <1>3, OwnQuiet DEF Importing
-----------------------------------------------------------------------------
\* What a planning step adds: the row r in slot s, with identity w, and the plan
\* l to read it at the wire v (NoWire for a manifest entry read from its blob).
Added(s, r, l, w, v) ==
    /\ r \in Row /\ r.id # <<>> /\ r.blob = BlobIx(blob, r.id) /\ Unchanged(r, w)
    /\ r.digest = rows[s].digest
    /\ Same(rows'[s], r) /\ \A x \in Slots : x # s => Same(rows'[x], rows[x])
    /\ plans' = plans \cup {l} /\ \A k \in plans : k.src # s
    /\ l \in Plan /\ PlanSrc(l) /\ l.src = s /\ l.wire = v
    /\ l.read = SelectRead(r, r.blob, v) /\ l.blob = r.blob /\ l.pos = r.off
    /\ l.raw = IF l.read = "blob" THEN blob[r.blob].wire.n
               ELSE IF l.read = "live" THEN v.n ELSE 0
    /\ l.cfc = (v # NoWire /\ CompleteFor(r, v))
\* The same generation keeps the row's progress, a new one has none.
KeptRow(s, r, l, w, v) ==
    LET old == rows[s] IN
    /\ r.id = old.id /\ r.off = old.off /\ r.done = old.done /\ r.ack = old.ack
    /\ r.csize = old.csize
    /\ l.vs = IF v # NoWire /\ MustVerify(old, w) THEN old.digest ELSE Unknown
NewRow(s, r, l) ==
    /\ r.off = 0 /\ ~ r.done /\ ~ r.ack /\ l.vs = Unknown
    /\ rows[s].id \in {<<>>, r.id}

\* A known generation is planned on a row that keeps its progress.
LEMMA SameAdded ==
  ASSUME TypeInv, BlobInv, mpc = "plan", UNCHANGED <<blob, recs>>,
         NEW s \in Slots, NEW old \in Row, NEW w \in Wire, NEW v \in Wire,
         NEW b \in Paths \cup {0}, PlanSame(s, old, w, b, v), Same(rows[s], old),
         old.id # <<>>, old.blob = b, b = BlobIx(blob, old.id), \A k \in plans : k.src # s
  PROVE  \E r, l : Added(s, r, l, w, v) /\ KeptRow(s, r, l, w, v)
  <1> DEFINE new == Refreshed(s, w, b)
             r == IF Unchanged(old, w) THEN old ELSE new
             p == PlanFor(s, r, b, v)
             q == [p EXCEPT !.vn = VerifySize(old), !.vs = old.digest]
             l == IF v # NoWire /\ MustVerify(old, w) THEN q ELSE p
  <1>1. rows[s] \in Row /\ rows[s].blob = b /\ rows[s].id = old.id
    BY DEF TypeInv, TypeOK, Same
  <1>2. /\ new \in Row /\ new.id = rows[s].id /\ new.blob = b /\ Unchanged(new, w)
        /\ new.off = rows[s].off /\ new.digest = rows[s].digest /\ new.ack = rows[s].ack
        /\ new.done = rows[s].done /\ new.csize = rows[s].csize
    BY <1>1, RefreshedIs
  <1> HIDE DEF new
  <1>3. /\ r \in Row /\ r.id = rows[s].id /\ r.blob = b /\ Unchanged(r, w)
        /\ r.off = rows[s].off /\ r.digest = rows[s].digest /\ r.ack = rows[s].ack
        /\ r.done = rows[s].done /\ r.csize = rows[s].csize
    BY <1>1, <1>2 DEF Same
  <1>4. Same(rows'[s], r) /\ \A x \in Slots : x # s => Same(rows'[x], rows[x])
    <2>1. CASE Unchanged(old, w)
      <3>1. rows' = rows
        BY <2>1 DEF PlanSame
      <3> QED
        BY <2>1, <3>1, SameIs
    <2>2. CASE ~ Unchanged(old, w)
      <3>1. rows' = Put(s, new)
        BY <2>2 DEF PlanSame, new
      <3> QED
        BY <1>2, <2>2, <3>1, PutIs DEF TypeInv, TypeOK
    <2> QED
      BY <2>1, <2>2
  <1>5. plans' = plans \cup {l}
    BY DEF PlanSame, new
  <1> HIDE DEF r
  <1>6. p \in Plan /\ PlanSrc(p)
    BY <1>3, PlanForTypes
  <1>7. /\ p.src = s /\ p.wire = v /\ p.read = SelectRead(r, b, v) /\ p.blob = b
        /\ p.pos = r.off /\ p.cfc = (v # NoWire /\ CompleteFor(r, v)) /\ p.vs = Unknown
        /\ p.raw = IF p.read = "blob" THEN blob[b].wire.n
                   ELSE IF p.read = "live" THEN v.n ELSE 0
    BY DEF PlanFor
  <1> HIDE DEF p
  <1>8. VerifySize(old) \in Nat /\ old.digest \in Units /\ old.digest = rows[s].digest
    BY DEF VerifySize, Row, Same
  <1>9. /\ q \in Plan /\ PlanSrc(q) /\ q.src = s /\ q.wire = v /\ q.read = p.read
        /\ q.blob = b /\ q.pos = r.off /\ q.cfc = p.cfc /\ q.raw = p.raw
        /\ q.vs = old.digest
    BY <1>6, <1>7, <1>8 DEF Plan, PlanSrc
  <1> HIDE DEF q
  <1>10. /\ l \in Plan /\ PlanSrc(l) /\ l.src = s /\ l.wire = v
         /\ l.read = SelectRead(r, b, v) /\ l.blob = b /\ l.pos = r.off
         /\ l.cfc = (v # NoWire /\ CompleteFor(r, v))
         /\ l.raw = IF l.read = "blob" THEN blob[b].wire.n
                    ELSE IF l.read = "live" THEN v.n ELSE 0
         /\ l.vs = IF v # NoWire /\ MustVerify(old, w) THEN old.digest ELSE Unknown
    BY <1>6, <1>7, <1>9
  <1> HIDE DEF l
  <1>11. MustVerify(old, w) <=> MustVerify(rows[s], w)
    BY DEF MustVerify, Same
  <1>12. Added(s, r, l, w, v)
    BY <1>1, <1>3, <1>4, <1>5, <1>10 DEF Added
  <1>13. KeptRow(s, r, l, w, v)
    BY <1>3, <1>8, <1>10, <1>11 DEF KeptRow
  <1> QED
    BY <1>12, <1>13

\* A new generation is planned on a row without progress.
LEMMA FreshAdded ==
  ASSUME TypeInv, BlobInv, mpc = "plan", UNCHANGED <<blob, recs>>,
         NEW id \in Units, id # <<>>, NEW w \in Wire, NEW v \in Wire,
         NEW b \in Paths \cup {0}, PlanFresh(id, w, b, v), b = BlobIx(blob, id),
         \A s \in Slots, l \in plans' : l.src = s /\ l.wire = v /\ rows[s].id \in {<<>>, id}
                                          => \A k \in plans : k.src # s
  PROVE  \E s \in Slots : \E r, l : Added(s, r, l, w, v) /\ NewRow(s, r, l) /\ r.id = id
  <1>0. PICK s \in SlotOf(id) :
          /\ rows' = Put(s, FreshRow(id, w, b, s))
          /\ plans' = plans \cup {PlanFor(s, FreshRow(id, w, b, s), b, v)}
    BY DEF PlanFresh, FreshRow
  <1> DEFINE r == FreshRow(id, w, b, s)
             p == PlanFor(s, r, b, v)
  <1>1. s \in Slots /\ rows[s].id \in {<<>>, id}
    BY SlotIs DEF TypeInv
  <1>2. rows[s] \in Row /\ rows[s].blob \in {0, b} /\ b \in Nat
    <2>1. GoodRow(blob, loki, rows[s])
      BY <1>1 DEF BlobInv, RowsBlob
    <2> QED
      BY <1>1, <2>1 DEF GoodRow, RowShape, TypeInv, TypeOK, Paths
  <1>3. /\ r \in Row /\ r.id = id /\ r.blob = b /\ r.off = 0 /\ ~ r.done /\ ~ r.ack
        /\ Unchanged(r, w) /\ r.digest = rows[s].digest
    BY <1>2, FreshRowIs
  <1>4. rows' = Put(s, r) /\ plans' = plans \cup {p}
    BY <1>0
  <1> HIDE DEF r
  <1>5. Same(rows'[s], r) /\ \A x \in Slots : x # s => Same(rows'[x], rows[x])
    BY <1>1, <1>3, <1>4, PutIs DEF TypeInv, TypeOK
  <1>6. p \in Plan /\ PlanSrc(p)
    BY <1>1, <1>3, PlanForTypes
  <1>7. /\ p.src = s /\ p.wire = v /\ p.read = SelectRead(r, b, v) /\ p.blob = b
        /\ p.pos = r.off /\ p.cfc = (v # NoWire /\ CompleteFor(r, v)) /\ p.vs = Unknown
        /\ p.raw = IF p.read = "blob" THEN blob[b].wire.n
                   ELSE IF p.read = "live" THEN v.n ELSE 0
    BY DEF PlanFor
  <1> HIDE DEF p
  <1>8. \A k \in plans : k.src # s
    BY <1>1, <1>4, <1>7
  <1>9. Added(s, r, p, w, v)
    BY <1>3, <1>4, <1>5, <1>6, <1>7, <1>8 DEF Added
  <1>10. NewRow(s, r, p)
    BY <1>1, <1>3, <1>7 DEF NewRow
  <1> QED
    BY <1>1, <1>3, <1>9, <1>10
-----------------------------------------------------------------------------
\* A source planned in this step had no plan before.
LEMMA Unplanned ==
  ASSUME TypeInv, OwnInv, OwnRows', mpc = "plan", NEW w \in todo, plans \subseteq plans',
         NEW l \in plans', l.wire = w
  PROVE  \A k \in plans : k.src # l.src
  <1> SUFFICES ASSUME NEW k \in plans, k.src = l.src PROVE FALSE
    OBVIOUS
  <1>1. k = l
    BY DEF OwnRows
  <1>2. w # NoWire
    BY RealWire DEF TypeInv, RefInv
  <1> QED
    BY <1>1, <1>2 DEF OwnInv, PlansOwn, PlanRow, Planned

\* Until its source is planned, a row is as it was when planning began.
LEMMA UnplannedSame ==
  ASSUME OwnInv, mpc = "plan", NEW s \in Slots, \A k \in plans : k.src # s
  PROVE  Same(rows[s], recs[s])
  BY DEF OwnInv, RecsOwn

\* A wire that is planned: nothing, or one row and its plan, kept or new.
LEMMA PlanWireAdds ==
  ASSUME TypeInv, BlobInv, OwnInv, OwnRows', NEW w \in todo, PlanWire(w)
  PROVE  \/ UNCHANGED <<rows, plans>>
         \/ \E s \in Slots : \E r, l :
              /\ Added(s, r, l, w, w)
              /\ \/ KeptRow(s, r, l, w, w) /\ SameGeneration(rows[s], w)
                 \/ NewRow(s, r, l) /\ (r.blob = 0 => rows[s].id = <<>>)
  <1>1. /\ mpc = "plan" /\ UNCHANGED <<blob, recs>>
        /\ w \in Wire /\ w.path \in Paths
    BY PlanWireIs
  <1>2. ASSUME NEW s \in Slots, recs[s].id # <<>>, SameGeneration(recs[s], w),
               PlanSame(s, recs[s], w, BlobOf(recs[s].id, recs[s]), w)
        PROVE  \E r, l : /\ Added(s, r, l, w, w) /\ KeptRow(s, r, l, w, w)
                         /\ SameGeneration(rows[s], w)
    <2> DEFINE old == recs[s]
               b == BlobOf(old.id, old)
    <2>1. old \in Row /\ RefOK(old) /\ GoodRow(blob, loki, old)
      BY <1>1, <1>2 DEF TypeInv, TypeOK, RefInv, BlobInv, RecsBlob
    <2>2. b = old.blob /\ b = BlobIx(blob, old.id) /\ b \in Paths \cup {0}
      BY <1>2, <2>1 DEF BlobOf, GoodRow, RowShape, BlobIx, RefOK
    <2>3. PICK l \in plans' : l.src = s /\ l.wire = w
      <3> DEFINE r == IF Unchanged(old, w) THEN old ELSE Refreshed(s, w, b)
                 m == PlanFor(s, r, b, w)
                 q == [m EXCEPT !.vn = VerifySize(old), !.vs = old.digest]
      <3>1. r \in Row
        BY <1>1, <2>1, <2>2, RefreshedIs
      <3>2. plans' = plans \cup {IF w # NoWire /\ MustVerify(old, w) THEN q ELSE m}
        BY <1>2 DEF PlanSame
      <3> HIDE DEF r, old, b
      <3>3. m \in Plan
        BY <1>1, <2>2, <3>1, PlanForTypes
      <3>4. m.src = s /\ m.wire = w
        BY DEF PlanFor
      <3> HIDE DEF m
      <3>5. q.src = s /\ q.wire = w
        BY <3>3, <3>4 DEF Plan
      <3> HIDE DEF q
      <3> QED
        BY <3>2, <3>4, <3>5
    <2>4. plans \subseteq plans'
      BY <1>2 DEF PlanSame
    <2>5. \A k \in plans : k.src # s
      BY <1>1, <2>3, <2>4, Unplanned
    <2>6. Same(rows[s], old)
      BY <1>1, <2>5, UnplannedSame
    <2>7. SameGeneration(rows[s], w)
      BY <1>2, <2>6 DEF SameGeneration, Same
    <2>8. PlanSame(s, old, w, b, w) /\ old.id # <<>>
      BY <1>2
    <2> HIDE DEF old, b
    <2>9. \E r, m : Added(s, r, m, w, w) /\ KeptRow(s, r, m, w, w)
      BY <1>1, <2>1, <2>2, <2>5, <2>6, <2>8, SameAdded
    <2> QED
      BY <2>7, <2>9
  <1>3. ASSUME NEW id \in Units, id # <<>>, NEW b \in Paths \cup {0}, b = BlobIx(blob, id),
               PlanFresh(id, w, b, w), b = 0 => \A t \in Slots : recs[t].id # id
        PROVE  \E s \in Slots : \E r, l :
                 Added(s, r, l, w, w) /\ NewRow(s, r, l) /\ (r.blob = 0 => rows[s].id = <<>>)
    <2>1. plans \subseteq plans'
      BY <1>3 DEF PlanFresh
    <2>2. \A s \in Slots, l \in plans' : l.src = s /\ l.wire = w => \A k \in plans : k.src # s
      BY <1>1, <2>1, Unplanned
    <2>0. PICK s \in Slots : \E r, l : Added(s, r, l, w, w) /\ NewRow(s, r, l) /\ r.id = id
      BY <1>1, <1>3, <2>2, FreshAdded
    <2>3. PICK r, l : Added(s, r, l, w, w) /\ NewRow(s, r, l) /\ r.id = id
      BY <2>0
    <2>4. Same(rows[s], recs[s])
      BY <1>1, <2>3, UnplannedSame DEF Added
    <2>5. r.blob = 0 => rows[s].id = <<>>
      BY <1>3, <2>3, <2>4 DEF Added, NewRow, Same
    <2> QED
      BY <2>3, <2>5
  <1>4. ASSUME NEW s \in Slots, recs[s].id # <<>>,
               PlanFresh(NextGeneration(recs[s].id), w, 0, w)
        PROVE  \E t \in Slots : \E r, l :
                 Added(t, r, l, w, w) /\ NewRow(t, r, l) /\ (r.blob = 0 => rows[t].id = <<>>)
    <2> DEFINE id == NextGeneration(recs[s].id)
    <2>1. id \in Units /\ id # <<>> /\ Len(id) # 1 /\ \A t \in Slots : recs[t].id # id
      BY <1>1, <1>4, NextIdIs
    <2>2. 0 = BlobIx(blob, id) /\ PlanFresh(id, w, 0, w)
      BY <1>4, <2>1 DEF BlobIx
    <2> HIDE DEF id
    <2> QED
      BY <1>3, <2>1, <2>2
  <1>5. ASSUME NEW p \in Paths, MatchRecord(w) = {},
               ManifestOf(w) # {} => p \in ManifestOf(w), ManifestOf(w) = {} => p = w.path,
               PlanFresh(<<p>>, w, BlobOf(<<p>>, NoRow), w)
        PROVE  \E s \in Slots : \E r, l :
                 Added(s, r, l, w, w) /\ NewRow(s, r, l) /\ (r.blob = 0 => rows[s].id = <<>>)
    <2> DEFINE id == <<p>>
               b == BlobOf(id, NoRow)
    <2>1. id \in Units /\ id # <<>> /\ Len(id) = 1 /\ id[1] = p /\ p # 0
      BY BaseId DEF Paths
    <2>2. b = BlobIx(blob, id) /\ b \in Paths \cup {0}
      BY <2>1 DEF BlobOf, BlobIx, NoRow
    <2>3. ASSUME b = 0, NEW t \in Slots PROVE recs[t].id # id
      <3>1. blob[p].st = "none"
        BY <2>1, <2>3 DEF BlobOf
      <3>2. p = w.path
        BY <1>5, <3>1 DEF ManifestOf
      <3>3. recs[t].id # <<w.path>>
        <4> SUFFICES ASSUME recs[t].id = <<w.path>> PROVE FALSE
          OBVIOUS
        <4>1. t \in {x \in {y \in Slots : recs[y].id # <<>>} : recs[x].id = <<w.path>>}
          BY <2>1, <3>2
        <4> QED
          BY <1>5, <4>1 DEF MatchRecord
      <3> QED
        BY <3>2, <3>3
    <2>4. PlanFresh(id, w, b, w)
      BY <1>5
    <2> HIDE DEF id, b
    <2> QED
      BY <1>3, <2>1, <2>2, <2>3, <2>4
  <1>6. \/ \E s \in Slots :
             /\ recs[s].id # <<>> /\ SameGeneration(recs[s], w)
             /\ PlanSame(s, recs[s], w, BlobOf(recs[s].id, recs[s]), w)
        \/ \E s \in Slots :
             /\ recs[s].id # <<>>
             /\ PlanFresh(NextGeneration(recs[s].id), w, 0, w)
        \/ \E p \in Paths :
             /\ MatchRecord(w) = {}
             /\ ManifestOf(w) # {} => p \in ManifestOf(w)
             /\ ManifestOf(w) = {} => p = w.path
             /\ PlanFresh(<<p>>, w, BlobOf(<<p>>, NoRow), w)
        \/ UNCHANGED <<rows, plans>>
    BY PlanWireIs
  <1> QED
    BY <1>2, <1>4, <1>5, <1>6

\* A manifest entry without a wire that is planned: the same.
LEMMA PlanBlobAdds ==
  ASSUME TypeInv, BlobInv, OwnInv, NEW p \in Paths, PlanBlob(p)
  PROVE  \E s \in Slots : \E r, l :
           /\ Added(s, r, l, blob[p].wire, NoWire) /\ r.id = <<p>> /\ r.blob = p
           /\ \/ KeptRow(s, r, l, blob[p].wire, NoWire) /\ ~ PrefixComplete(rows[s])
              \/ NewRow(s, r, l) /\ rows[s].id = <<>>
  <1>1. /\ mpc = "plan" /\ p \in Unclaimed /\ UNCHANGED <<blob, recs>>
    BY PlanBlobIs
  <1> DEFINE id == <<p>>
             w == blob[p].wire
  <1>2. id \in Units /\ id # <<>> /\ Len(id) = 1 /\ id[1] = p /\ p \in Paths \cup {0}
    BY BaseId
  <1>3. p = BlobIx(blob, id) /\ w \in Wire /\ NoWire \in Wire
    BY <1>1, <1>2, Empties DEF BlobIx, Unclaimed, TypeInv, TypeOK, Blob
  <1>4. ASSUME NEW s \in Slots, rows[s].id \in {<<>>, id} PROVE \A k \in plans : k.src # s
    <2> SUFFICES ASSUME NEW k \in plans, k.src = s PROVE FALSE
      OBVIOUS
    <2>1. rows[s].id # <<>>
      BY <1>1 DEF BlobInv, PlansBlob, GoodPlan, Planned
    <2> QED
      BY <1>1, <1>4, <2>1 DEF Unclaimed
  <1>5. ASSUME NEW s \in Slots, rows[s].id = id, PlanSame(s, rows[s], w, p, NoWire)
        PROVE  \E r, l : /\ Added(s, r, l, w, NoWire) /\ r.id = id
                         /\ KeptRow(s, r, l, w, NoWire) /\ ~ PrefixComplete(rows[s])
    <2>1. rows[s] \in Row /\ GoodRow(blob, loki, rows[s])
      BY DEF TypeInv, TypeOK, BlobInv, RowsBlob
    <2>2. rows[s].blob = p /\ rows[s].id # <<>> /\ p = BlobIx(blob, rows[s].id)
      BY <1>2, <1>3, <1>5, <2>1 DEF GoodRow, RowShape
    <2>3. ~ PrefixComplete(rows[s])
      BY <1>1, <1>5 DEF Unclaimed
    <2>4. \A k \in plans : k.src # s
      BY <1>4, <1>5
    <2> HIDE DEF id, w
    <2>5. PICK r, l : Added(s, r, l, w, NoWire) /\ KeptRow(s, r, l, w, NoWire)
      BY <1>1, <1>3, <1>5, <2>1, <2>2, <2>4, SameAdded, SameIs
    <2>6. r.id = id
      BY <1>5, <2>5 DEF KeptRow
    <2> QED
      BY <2>3, <2>5, <2>6
  <1>6. ASSUME \A s \in Slots : rows[s].id # id, PlanFresh(id, w, p, NoWire)
        PROVE  \E s \in Slots : \E r, l : /\ Added(s, r, l, w, NoWire) /\ r.id = id
                                      /\ NewRow(s, r, l) /\ rows[s].id = <<>>
    <2> HIDE DEF id, w
    <2>0. PICK s \in Slots : \E r, l : Added(s, r, l, w, NoWire) /\ NewRow(s, r, l) /\ r.id = id
      BY <1>1, <1>2, <1>3, <1>4, <1>6, FreshAdded
    <2>1. PICK r, l : Added(s, r, l, w, NoWire) /\ NewRow(s, r, l) /\ r.id = id
      BY <2>0
    <2>2. rows[s].id = <<>>
      BY <1>6, <2>1 DEF NewRow
    <2> QED
      BY <2>1, <2>2
  <1>7. \/ \E s \in Slots : rows[s].id = id /\ PlanSame(s, rows[s], w, p, NoWire)
        \/ (\A s \in Slots : rows[s].id # id) /\ PlanFresh(id, w, p, NoWire)
    BY PlanBlobIs
  <1>8. \E s \in Slots : \E r, l :
           /\ Added(s, r, l, w, NoWire) /\ r.id = id
           /\ \/ KeptRow(s, r, l, w, NoWire) /\ ~ PrefixComplete(rows[s])
              \/ NewRow(s, r, l) /\ rows[s].id = <<>>
    <2> HIDE DEF id, w
    <2> QED
      BY <1>5, <1>6, <1>7
  <1>9. \A s, r, l : Added(s, r, l, w, NoWire) /\ r.id = id => r.blob = p
    BY <1>3 DEF Added
  <1> QED
    BY <1>8, <1>9

\* A planning step, for the invariant of the rows that have a plan.
LEMMA AddedOwn ==
  ASSUME TypeInv, BlobInv, OwnInv, mpc = "plan", UNCHANGED <<mpc, recs, cur, pend>>,
         NEW s \in Slots, NEW r, NEW l, NEW w, NEW v \in {w, NoWire}, Added(s, r, l, w, v),
         KeptRow(s, r, l, w, v) \/ NewRow(s, r, l),
         todo' \subseteq todo, v \notin todo' \/ v = NoWire
  PROVE  OwnInv'
  <1>1. pend = NoBatch /\ cur = NoPlan
    BY DEF BlobInv, PhaseInv, Planned
  <1>2. PlansOwn'
    <2> SUFFICES ASSUME NEW k \in plans' PROVE PlanRow(rows'[k.src], k, todo')
      BY DEF PlansOwn
    <2> DEFINE T == todo'
               R == rows'
    <2>1. CASE k \in plans
      <3>1. PlanRow(rows[k.src], k, todo) /\ PlanSrc(k)
        BY <2>1 DEF OwnInv, PlansOwn, Planned, TypeInv, RefInv
      <3>2. Same(R[k.src], rows[k.src]) /\ T \subseteq todo
        BY <2>1, <3>1 DEF Added, PlanSrc
      <3> HIDE DEF R, T
      <3>3. PlanRow(R[k.src], k, T)
        BY <3>1, <3>2, PlanRowSame
      <3> QED
        BY <3>3 DEF R, T
    <2>2. CASE k = l
      <3>1. k.src = s /\ k.pos = r.off /\ k.wire = v /\ Unchanged(r, w) /\ Same(R[s], r)
        BY <2>2 DEF Added
      <3> HIDE DEF R, T
      <3>2. PlanRow(r, k, T)
        BY <3>1 DEF PlanRow, T
      <3>3. PlanRow(R[s], k, T)
        BY <3>1, <3>2, PlanRowSame
      <3> QED
        BY <3>1, <3>3 DEF R, T
    <2> QED
      BY <2>1, <2>2 DEF Added
  <1>3. RecsOwn'
    <2> SUFFICES ASSUME NEW x \in Slots, \A k \in plans' : k.src # x
                 PROVE  Same(rows'[x], recs[x])
      BY DEF RecsOwn
    <2>1. x # s /\ Same(rows[x], recs[x])
      BY DEF Added, OwnInv, RecsOwn
    <2>2. Same(rows'[x], rows[x])
      BY <2>1 DEF Added
    <2> QED
      BY <2>1, <2>2, SameIs
  <1> QED
    BY <1>1, <1>2, <1>3 DEF OwnInv, CurOwn, PendOwn

LEMMA PlanWireOwn ==
  ASSUME TypeInv, BlobInv, OwnInv, OwnRows', NEW w \in todo, PlanWire(w)
  PROVE  OwnInv'
  <1>1. mpc = "plan" /\ todo' = todo \ {w} /\ UNCHANGED <<mpc, recs, cur, pend>>
    BY PlanWireIs
  <1>2. CASE UNCHANGED <<rows, plans>>
    <2>1. RecsStep /\ PlansStep
      BY <1>1, <1>2 DEF RecsStep, PlansStep, Planned
    <2> QED
      BY <1>1, <1>2, <2>1, OwnQuiet DEF Importing
  <1>3. CASE \E s \in Slots : \E r, l :
               Added(s, r, l, w, w) /\ (KeptRow(s, r, l, w, w) \/ NewRow(s, r, l))
    BY <1>1, <1>3, AddedOwn
  <1> QED
    BY <1>2, <1>3, PlanWireAdds

LEMMA PlanBlobOwn ==
  ASSUME TypeInv, BlobInv, OwnInv, NEW p \in Paths, PlanBlob(p)
  PROVE  OwnInv'
  <1>1. mpc = "plan" /\ UNCHANGED <<mpc, todo, recs, cur, pend>>
    BY PlanBlobIs
  <1>0. PICK s \in Slots : \E r, l :
           /\ Added(s, r, l, blob[p].wire, NoWire)
           /\ KeptRow(s, r, l, blob[p].wire, NoWire) \/ NewRow(s, r, l)
    BY PlanBlobAdds
  <1>2. PICK r, l :
           /\ Added(s, r, l, blob[p].wire, NoWire)
           /\ KeptRow(s, r, l, blob[p].wire, NoWire) \/ NewRow(s, r, l)
    BY <1>0
  <1> QED
    BY <1>1, <1>2, AddedOwn
-----------------------------------------------------------------------------
\* A row that keeps its offset and its identity keeps its plan.
KeepsPlan(q, r) == /\ q \in Row /\ q.off = r.off /\ q.path = r.path /\ q.ino = r.ino
                   /\ q.n = r.n /\ q.m = r.m /\ q.act = r.act

\* A step of the import that writes its row and keeps what its plan says of it.
LEMMA OwnWrite ==
  ASSUME TypeInv, BlobInv, OwnInv, mpc \in Importing \ {"push"},
         NEW q, KeepsPlan(q, rows[cur.src]), rows' = Put(cur.src, q),
         UNCHANGED <<plans, todo, pend>>, mpc' # "plan", cur' \in {cur, NoPlan}
  PROVE  OwnInv'
  <1>1. cur # NoPlan /\ PlanRow(rows[cur.src], cur, todo) /\ pend = NoBatch
    BY CurIs DEF OwnInv, CurOwn, BlobInv, PhaseInv, Planned
  <1>2. PlanRow(q, cur, todo)
    BY <1>1 DEF PlanRow, KeepsPlan, Unchanged
  <1>3. q \in Row
    BY DEF KeepsPlan
  <1> QED
    BY <1>1, <1>2, <1>3, OwnSource DEF Importing

LEMMA VerifyOwn == TypeInv /\ BlobInv /\ OwnInv /\ VerifyPrefix => OwnInv'
  <1> SUFFICES ASSUME TypeInv, BlobInv, OwnInv, VerifyPrefix PROVE OwnInv'
    OBVIOUS
  <1> DEFINE r == rows[cur.src]
             w == cur.wire
             no == [r EXCEPT !.conf = TRUE]
             yes == [r EXCEPT !.vsize = w.n, !.conf = FALSE]
  <1>1. mpc = "prepare" /\ mpc \in Importing /\ UNCHANGED <<plans, todo, pend, recs>>
    BY DEF VerifyPrefix, Importing
  <1>2. cur # NoPlan /\ cur \in Plan /\ r \in Row
    BY <1>1, CurIs
  <1>3. \/ mpc' = "release" /\ cur' = NoPlan /\ UNCHANGED rows
        \/ rows' = Put(cur.src, no) /\ mpc' = "release" /\ cur' = NoPlan
        \/ rows' = Put(cur.src, yes) /\ mpc' = "digest" /\ UNCHANGED cur
    BY DEF VerifyPrefix
  <1>4. KeepsPlan(no, r) /\ KeepsPlan(yes, r)
    BY <1>2 DEF KeepsPlan, Row, Plan, Wire
  <1> HIDE DEF no, yes
  <1>5. CASE mpc' = "release" /\ cur' = NoPlan /\ UNCHANGED rows
    <2>1. RecsStep /\ PlansStep
      BY <1>5 DEF RecsStep, PlansStep, Planned, Importing
    <2> QED
      BY <1>1, <1>5, <2>1, OwnQuiet DEF Planned, Importing
  <1>6. CASE rows' = Put(cur.src, no) /\ mpc' = "release" /\ cur' = NoPlan
    BY <1>1, <1>4, <1>6, OwnWrite
  <1>7. CASE rows' = Put(cur.src, yes) /\ mpc' = "digest" /\ UNCHANGED cur
    BY <1>1, <1>4, <1>7, OwnWrite
  <1> QED
    BY <1>3, <1>5, <1>6, <1>7

LEMMA DigestOwn == TypeInv /\ BlobInv /\ OwnInv /\ (SaveDigest \/ MarkDigest) => OwnInv'
  <1> SUFFICES ASSUME TypeInv, BlobInv, OwnInv, SaveDigest \/ MarkDigest PROVE OwnInv'
    OBVIOUS
  <1> DEFINE r == rows[cur.src]
             new == [r EXCEPT !.digest = got]
  <1>1. /\ mpc \in {"digest", "markdigest"} /\ mpc \in Importing \ {"push"}
        /\ UNCHANGED <<pend, plans, todo>> /\ rows' = Put(cur.src, new)
        /\ mpc' \in {"next", "read", "markack"} /\ cur' \in {cur, NoPlan}
    BY DEF SaveDigest, MarkDigest, Importing
  <1>2. r \in Row /\ got \in Units
    BY <1>1, CurIs
  <1>3. KeepsPlan(new, r)
    BY <1>2 DEF KeepsPlan, Row
  <1> HIDE DEF new
  <1> QED
    BY <1>1, <1>3, OwnWrite

LEMMA MarkOwn == TypeInv /\ BlobInv /\ OwnInv /\ (MarkComplete \/ MarkAcknowledged) => OwnInv'
  <1> SUFFICES ASSUME TypeInv, BlobInv, OwnInv, MarkComplete \/ MarkAcknowledged PROVE OwnInv'
    OBVIOUS
  <1> DEFINE r == rows[cur.src]
             w == cur.wire
             now == IF w = NoWire THEN r
                    ELSE [r EXCEPT !.path = w.path, !.ino = w.ino, !.n = w.n, !.m = w.m,
                                   !.act = w.act]
             frz == (cur.read = "blob" \/ r.frozen)
             all == [now EXCEPT !.done = TRUE, !.csize = cur.raw, !.frozen = frz]
             ack == [r EXCEPT !.ack = TRUE]
  <1>1. /\ mpc \in {"mark", "markack"} /\ mpc \in Importing \ {"push"}
        /\ UNCHANGED <<pend, plans, todo>>
        /\ mpc' \in {"markdigest", "next"} /\ cur' \in {cur, NoPlan}
    BY DEF MarkComplete, MarkAcknowledged, Importing
  <1>2. /\ cur # NoPlan /\ cur \in Plan /\ r \in Row /\ PlanRow(r, cur, todo)
    BY <1>1, CurIs DEF OwnInv, CurOwn
  <1>3. CASE MarkComplete
    <2>1. now \in Row /\ now.off = r.off /\ now.frozen = r.frozen /\ KeepsPlan(now, r)
      <3>1. CASE w = NoWire
        BY <1>2, <3>1 DEF KeepsPlan
      <3>2. CASE w # NoWire
        <4>1. w.path = r.path /\ w.ino = r.ino /\ w.n = r.n /\ w.m = r.m /\ w.act = r.act
          BY <1>2, <3>2 DEF PlanRow, Unchanged
        <4>2. now = [r EXCEPT !.path = w.path, !.ino = w.ino, !.n = w.n, !.m = w.m,
                              !.act = w.act]
          BY <3>2
        <4>3. w \in Wire
          BY <1>2 DEF Plan
        <4> HIDE DEF now, w
        <4> QED
          BY <1>2, <4>1, <4>2, <4>3 DEF KeepsPlan, Row, Wire
      <3> QED
        BY <3>1, <3>2
    <2>2. frz \in BOOLEAN /\ cur.raw \in Nat
      BY <1>2 DEF Plan, Row
    <2>3. rows' = Put(cur.src, all)
      BY <1>3, <2>1 DEF MarkComplete
    <2> HIDE DEF now, frz
    <2>4. KeepsPlan(all, r)
      BY <2>1, <2>2 DEF KeepsPlan, Row
    <2> HIDE DEF all
    <2> QED
      BY <1>1, <2>3, <2>4, OwnWrite
  <1>4. CASE MarkAcknowledged
    <2>1. rows' = Put(cur.src, ack)
      BY <1>4 DEF MarkAcknowledged
    <2>2. KeepsPlan(ack, r)
      BY <1>2 DEF KeepsPlan, Row
    <2> HIDE DEF ack
    <2> QED
      BY <1>1, <2>1, <2>2, OwnWrite
  <1> QED
    BY <1>3, <1>4

LEMMA ReadOwn ==
  TypeInv /\ BlobInv /\ OwnInv /\ (ReadSource \/ NothingToSend \/ StopOnBudget \/ EndImport)
    => OwnInv'
  <1> SUFFICES ASSUME TypeInv, BlobInv, OwnInv,
                      ReadSource \/ NothingToSend \/ StopOnBudget \/ EndImport
               PROVE  OwnInv'
    OBVIOUS
  <1>1. UNCHANGED <<rows, pend, recs, plans, todo>>
    BY DEF ReadSource, NothingToSend, StopOnBudget, EndImport
  <1>2. /\ mpc \in {"read", "save", "next"} /\ mpc' \in {"save", "next", "mark", "release"}
        /\ cur' \in {cur, NoPlan}
        /\ mpc' \in {"save", "mark"} => mpc \in {"read", "save"} /\ cur' = cur
    BY DEF ReadSource, NothingToSend, StopOnBudget, EndImport
  <1>3. RecsStep /\ PlansStep
    BY <1>1, <1>2 DEF RecsStep, PlansStep, Planned, Importing
  <1>4. mpc \in {"read", "save"} => \A l \in plans : l.src # cur.src
    BY CurIs DEF OwnInv, CurOwn, Importing
  <1> QED
    BY <1>1, <1>2, <1>3, <1>4, OwnQuiet DEF Importing

LEMMA SaveOwn ==
  ASSUME TypeInv, BlobInv, OwnInv, NEW k \in 1 .. MaxClock, NEW done \in BOOLEAN,
         SaveBatch(k, done)
  PROVE  OwnInv'
  <1>1. mpc = "save" /\ mpc' = "push" /\ mpc \in Importing /\ cur.pos + k <= Len(got)
        /\ UNCHANGED <<rows, recs, plans, cur, todo>>
    BY DEF SaveBatch, Importing
  <1>2. cur # NoPlan /\ cur \in Plan /\ got \in Units
    BY <1>1, CurIs
  <1>3. PlanRow(rows[cur.src], cur, todo)
    BY <1>1, <1>2 DEF OwnInv, CurOwn
  <1>4. /\ pend'.src = cur.src /\ pend'.from = cur.pos /\ pend'.to = cur.pos + k
        /\ pend'.units = SubSeq(got, cur.pos + 1, cur.pos + k)
    BY DEF SaveBatch
  <1>5. cur.pos \in Nat /\ k \in Nat /\ 1 <= k
    BY <1>2 DEF Plan
  <1>6. Len(pend'.units) = pend'.to - pend'.from
    <2> DEFINE b == cur.pos + k
    <2>1. b \in Nat /\ cur.pos <= b /\ b <= Len(got)
      BY <1>1, <1>5
    <2> HIDE DEF b
    <2>2. Len(SubSeq(got, cur.pos + 1, b)) = b - cur.pos
      BY <1>2, <1>5, <2>1, SliceIs
    <2> QED
      BY <1>4, <2>2 DEF b
  <1>7. PendOwn'
    <2>1. pend'.from = rows[pend'.src].off /\ pend'.from < pend'.to
      BY <1>3, <1>4, <1>5 DEF PlanRow
    <2> QED
      BY <1>1, <1>6, <2>1 DEF PendOwn
  <1>8. PlansOwn' /\ CurOwn' /\ RecsOwn'
    BY <1>1 DEF OwnInv, PlansOwn, CurOwn, RecsOwn, Planned, Importing
  <1> QED
    BY <1>7, <1>8 DEF OwnInv

LEMMA OwnNext == TypeInv /\ BlobInv /\ OwnInv /\ OwnRows /\ OwnRows' /\ [Next]_vars => OwnInv'
  <1> SUFFICES ASSUME TypeInv, BlobInv, OwnInv, OwnRows, OwnRows', [Next]_vars PROVE OwnInv'
    OBVIOUS
  <1>1. PhaseInv'
    BY PhaseStep DEF BlobInv
  <1>2. CASE UNCHANGED vars
    <2>1. UNCHANGED <<rows, pend, mpc, todo, recs, plans, cur>>
      BY <1>2 DEF vars
    <2> QED
      BY <2>1 DEF OwnInv, PlansOwn, CurOwn, RecsOwn, PendOwn
  <1>3. CASE StartRun \/ BeginCapture \/ FinishCapture \/ RebuildFails \/ EndRun \/ Crash
    <2>1. UNCHANGED rows /\ pend' = pend /\ mpc' \in {"idle", "capture", "flush", "release"}
      BY <1>3 DEF StartRun, BeginCapture, FinishCapture, RebuildFails, EndRun, Crash, Forget
    <2> QED
      BY <1>1, <2>1, OutsideOwn
  <1>4. ASSUME NEW p \in Paths, SpoolBlob(p) \/ CaptureFails(p) \/ ReleaseBlob(p) PROVE OwnInv'
    <2>1. UNCHANGED rows /\ pend' = pend /\ mpc' \in {"idle", "capture", "flush", "release"}
      BY <1>4 DEF SpoolBlob, CaptureFails, ReleaseBlob
    <2> QED
      BY <1>1, <2>1, OutsideOwn
  <1> QED
    BY <1>1, <1>2, <1>3, <1>4, GuestOwn, PushOwn, AckOwn, RebuildOwn, EdgeOwn, PlanWireOwn,
       PlanBlobOwn, PickOwn, VerifyOwn, DigestOwn, ReadOwn, SaveOwn, MarkOwn DEF Next, Manager

\* As long as every planned file has a row of its own, a saved batch starts where
\* its row's acknowledged progress ends and has as many units as it says: whatever
\* crash, lost answer or rebuild it comes back from, nothing is skipped or sent twice.
THEOREM AlwaysPendingContinues == Spec /\ []OwnRows => []PendingContinues
  <1>1. OwnInv => PendingContinues
    BY DEF OwnInv, PendOwn, PendingContinues
  <1> QED
    BY TypeInit, BlobInit, OwnInit, TypeStep, BlobNext, OwnNext, <1>1, PTL DEF Spec
-----------------------------------------------------------------------------
(***************************************************************************)
(* What follows also assumes ~ Interfere: while an import runs the guest   *)
(* appends, rotates and removes, but does not rewrite a log in place.      *)
(***************************************************************************)
\* What rows, plans and batches are about: the guest's files, Loki and the blobs.
World == [at |-> at, data |-> data, clock |-> clock, loki |-> loki, blob |-> blob]

\* In world E: inode i still starts with q; q was written before now; the file of
\* wire w, unless it is gone, still starts with q.
Shows(E, i, q) == /\ i \in Inodes /\ Len(q) <= Len(E.data[i])
                  /\ \A j \in 1 .. Len(q) : E.data[i][j] = q[j]
Old(E, q) == \A j \in 1 .. Len(q) : q[j] \in 1 .. E.clock
Known(q)  == q # Unknown
Still(E, w, q) ==
    (\E p \in Paths : E.at[p] = w.ino) =>
        /\ w.n <= Len(E.data[w.ino])
        /\ \A j \in 1 .. Len(q) : E.data[w.ino][j] = q[j]
Slice(g, d) == \A j \in 1 .. Len(g) : d.from < j /\ j <= d.to => g[j] \in Elems(d.units)

\* A row's progress, in terms of its digest and of its blob.
Progress(E, r) ==
    LET D == r.digest IN
    Known(D) => /\ Old(E, D) /\ r.off <= Len(D)
                /\ Shows(E, r.ino, D) => Sent(E.loki, D, r.off)
                /\ r.done => r.csize <= Len(D) /\ Sent(E.loki, D, r.csize)
BlobProgress(E, r) ==
    LET D == r.digest  nb == Len(E.blob[r.blob].units) IN
    r.blob # 0 =>
        /\ r.done => r.off >= nb
        /\ ~ r.done \/ ~ Known(D) \/ r.csize > r.n => r.off <= nb
        /\ Known(D) => nb <= Len(D) /\ Sent(E.loki, D, nb)
        /\ r.ack /\ ~ r.done /\ Known(D) => Len(D) = nb
PlainProgress(r) ==
    r.blob = 0 => /\ ~ Known(r.digest) => r.off = 0 /\ ~ r.done
                  /\ r.done => r.csize <= r.n
\* An acknowledged and completed row has the digest of what it covers.
AckSize(E, r) ==
    r.ack /\ r.done /\ Known(r.digest) =>
        \/ /\ r.blob # 0 /\ Len(r.digest) = r.csize
           /\ r.csize = Len(E.blob[r.blob].units)
        \/ r.csize <= Len(r.digest) /\ Len(r.digest) <= r.n
RowOK(E, r) == Progress(E, r) /\ BlobProgress(E, r) /\ PlainProgress(r) /\ AckSize(E, r)

\* What a plan l promises of its row r.
BlobRead(E, r, l) == /\ r.blob # 0 /\ l.blob = r.blob /\ l.raw = Len(E.blob[r.blob].units)
                     /\ r.off <= Len(E.blob[r.blob].units)
LiveRead(r, l)    == /\ l.wire # NoWire /\ l.raw = l.wire.n
                     /\ r.blob # 0 => r.done /\ Known(r.digest)
PlanOK(E, r, l) ==
    /\ l.read = "blob" => BlobRead(E, r, l) /\ ~ l.cfc
    /\ l.read = "live" => LiveRead(r, l) /\ ~ l.cfc /\ l.vs = r.digest
    /\ l.cfc => /\ l.wire # NoWire /\ r.done /\ Known(r.digest) /\ r.csize = l.wire.n
                /\ l.vs \in {Unknown, r.digest} /\ l.read = "none"

\* A batch d of row r, once accepted, is the progress it says.
BatchOK(E, r, d) ==
    LET D == r.digest  u == E.blob[r.blob].units IN
    /\ d.done => d.to = Len(d.digest)
    /\ IF r.blob = 0 \/ r.done
       THEN /\ Known(D) /\ d.to <= Len(D)
            /\ Shows(E, r.ino, D) => \A j \in 1 .. Len(D) :
                  d.from < j /\ j <= d.to => D[j] \in E.loki \cup Elems(d.units)
            /\ d.done => d.digest = D
            /\ r.done => r.csize <= Len(D) /\ Len(D) <= r.n
       ELSE /\ d.to <= Len(u)
            /\ d.done => d.digest = u
            /\ \A j \in 1 .. Len(u) :
                  d.from < j /\ j <= d.to => u[j] \in E.loki \cup Elems(d.units)

\* The source being imported: its prefix g verified; about to be read; read as g.
Verified(E, r, l, g) ==
    /\ Old(E, g) /\ l.wire # NoWire /\ Len(g) = l.wire.n /\ Still(E, l.wire, g)
    /\ r.off <= Len(g) /\ Sent(E.loki, g, r.off)
    /\ r.done => r.csize <= Len(g) /\ Sent(E.loki, g, r.csize)
    /\ r.blob # 0 => /\ r.done
                     /\ LET nb == Len(E.blob[r.blob].units)
                        IN  nb <= Len(g) /\ Sent(E.loki, g, nb)
    /\ IF l.cfc THEN g = r.digest ELSE l.read = "live" /\ l.raw = l.wire.n
ReadOK(E, r, l) ==
    /\ l.read \in {"blob", "live"}
    /\ l.read = "blob" => BlobRead(E, r, l)
    /\ l.read = "live" => /\ LiveRead(r, l) /\ Known(r.digest) /\ Len(r.digest) = l.wire.n
                          /\ Sent(E.loki, r.digest, r.off) /\ Still(E, l.wire, r.digest)
GotOK(E, r, l, g) ==
    /\ Sent(E.loki, g, r.off)
    /\ l.read = "blob" => BlobRead(E, r, l) /\ g = E.blob[r.blob].units
    /\ l.read = "live" => LiveRead(r, l) /\ Known(r.digest) /\ Len(g) = l.wire.n /\ g = r.digest

\* No inode is linked twice, and one that was never created has no content.
Links(A, M, D) == /\ \A i \in Inodes : M[i] = 0 => (\A p \in Paths : A[p] # i) /\ D[i] = <<>>
                  /\ \A p, q \in Paths : A[p] = A[q] /\ A[p] # 0 => p = q
GuestOK ==
    /\ Links(at, mtime, data)
    /\ \A i \in Inodes : Old(World, data[i])
    /\ \A p \in Paths : /\ Old(World, blob[p].units)
                        /\ blob[p].st \in {"spooled", "captured", "released"}
                             => Len(blob[p].units) = blob[p].wire.n
WiresOK ==
    /\ \A w \in todo : w.ino \in Inodes /\ mtime[w.ino] # 0
    /\ \A l \in plans : l.wire # NoWire => l.wire.ino \in Inodes /\ mtime[l.wire.ino] # 0
    /\ cur.wire # NoWire => cur.wire.ino \in Inodes /\ mtime[cur.wire.ino] # 0
RowsGood  == \A s \in Slots : RowOK(World, rows[s])
PlansGood == mpc \in Planned \cup {"ack"} =>
                 \A l \in plans : PlanOK(World, rows[l.src], l)
BatchGood == pend # NoBatch => BatchOK(World, rows[pend.src], pend)
CurGood ==
    LET r == rows[cur.src] IN
    /\ mpc = "prepare" => PlanOK(World, r, cur)
                          /\ (cur.read = "live" \/ (cur.cfc /\ cur.vs # Unknown))
    /\ mpc = "digest"  => Verified(World, r, cur, got)
    /\ mpc = "read"    => ReadOK(World, r, cur)
    /\ mpc \in Reading /\ cur # NoPlan => GotOK(World, r, cur, got)
    /\ mpc \in {"push", "ack"} /\ cur # NoPlan =>
         /\ pend.to <= Len(got) /\ Slice(got, pend)
         /\ pend.done => pend.digest = got
    /\ mpc \in {"mark", "markdigest", "markack"} => r.off >= Len(got)
    /\ mpc \in {"markdigest", "markack"} => r.done /\ r.csize = Len(got)
    /\ mpc = "markack" => r.digest = got
CoverGood == \A c \in covered : Len(c.digest) = c.n /\ Sent(loki, c.digest, Len(c.digest))
ContentInv == GuestOK /\ WiresOK /\ RowsGood /\ PlansGood /\ BatchGood /\ CurGood /\ CoverGood
-----------------------------------------------------------------------------
\* World F comes after world E: nothing that was not there before shows up.
Grows(E, F) ==
    /\ E.loki \subseteq F.loki
    /\ \A p \in Paths : F.blob[p].units = E.blob[p].units
    /\ \A q \in Units : Old(E, q) => Old(F, q)
    /\ \A i \in Inodes, q \in Units : Old(E, q) /\ Shows(F, i, q) => Shows(E, i, q)

\* What Loki has, it keeps.
LEMMA SentGrows ==
  ASSUME NEW L, NEW M, L \subseteq M, NEW q, NEW k, Sent(L, q, k)
  PROVE  Sent(M, q, k)
  BY DEF Sent

\* A world that stays has grown by nothing.
LEMMA StaysWorld == \A E : Grows(E, E)
  BY DEF Grows

\* What a row, its plan and its batch promise holds on, and for the same row.
LEMMA RowGrows ==
  ASSUME NEW E, NEW F, Grows(E, F), NEW r, RefOK(r), r.digest \in Units, RowOK(E, r),
         NEW q, Same(q, r)
  PROVE  RowOK(F, q)
  <1>1. /\ q.digest = r.digest /\ q.off = r.off /\ q.done = r.done /\ q.csize = r.csize
        /\ q.ino = r.ino /\ q.n = r.n /\ q.ack = r.ack /\ q.blob = r.blob
    BY DEF Same
  <1>2. r.blob # 0 => F.blob[r.blob].units = E.blob[r.blob].units
    BY DEF Grows, RefOK
  <1>3. \A x, k : Sent(E.loki, x, k) => Sent(F.loki, x, k)
    BY SentGrows DEF Grows
  <1>4. Progress(F, q)
    <2> SUFFICES ASSUME Known(r.digest)
                 PROVE  /\ Old(F, r.digest) /\ r.off <= Len(r.digest)
                        /\ Shows(F, r.ino, r.digest) => Sent(F.loki, r.digest, r.off)
                        /\ r.done => r.csize <= Len(r.digest) /\ Sent(F.loki, r.digest, r.csize)
      BY <1>1 DEF Progress
    <2>1. /\ Old(E, r.digest) /\ r.off <= Len(r.digest)
          /\ Shows(E, r.ino, r.digest) => Sent(E.loki, r.digest, r.off)
          /\ r.done => r.csize <= Len(r.digest) /\ Sent(E.loki, r.digest, r.csize)
      BY DEF RowOK, Progress
    <2>2. Old(F, r.digest)
      BY <2>1 DEF Grows
    <2>3. Shows(F, r.ino, r.digest) => Shows(E, r.ino, r.digest)
      BY <2>1 DEF Grows, Shows
    <2> QED
      BY <1>3, <2>1, <2>2, <2>3
  <1>5. BlobProgress(F, q)
    BY <1>1, <1>2, <1>3 DEF RowOK, BlobProgress
  <1>6. PlainProgress(q)
    BY <1>1 DEF RowOK, PlainProgress
  <1>7. AckSize(F, q)
    BY <1>1, <1>2 DEF RowOK, AckSize
  <1> QED
    BY <1>4, <1>5, <1>6, <1>7 DEF RowOK

\* What a plan promises holds on in a world that has grown.
LEMMA PlanGrows ==
  ASSUME NEW E, NEW F, Grows(E, F), NEW r, RefOK(r), NEW l, PlanOK(E, r, l),
         NEW q, Same(q, r)
  PROVE  PlanOK(F, q, l)
  <1>1. /\ q.digest = r.digest /\ q.off = r.off /\ q.done = r.done /\ q.csize = r.csize
        /\ q.blob = r.blob
    BY DEF Same
  <1>2. r.blob # 0 => F.blob[r.blob].units = E.blob[r.blob].units
    BY DEF Grows, RefOK
  <1>3. BlobRead(E, r, l) => BlobRead(F, q, l)
    BY <1>1, <1>2 DEF BlobRead
  <1>4. LiveRead(r, l) => LiveRead(q, l)
    BY <1>1 DEF LiveRead
  <1> QED
    BY <1>1, <1>3, <1>4 DEF PlanOK

\* So does what is said of a source that was read,
LEMMA GotGrows ==
  ASSUME NEW E, NEW F, Grows(E, F), NEW r, RefOK(r), NEW l, NEW g, GotOK(E, r, l, g),
         NEW q, Same(q, r)
  PROVE  GotOK(F, q, l, g)
  <1>1. /\ q.digest = r.digest /\ q.off = r.off /\ q.done = r.done /\ q.csize = r.csize
        /\ q.blob = r.blob
    BY DEF Same
  <1>2. r.blob # 0 => F.blob[r.blob].units = E.blob[r.blob].units
    BY DEF Grows, RefOK
  <1>3. l.read = "blob" => BlobRead(F, q, l) /\ g = F.blob[q.blob].units
    BY <1>1, <1>2 DEF BlobRead, GotOK
  <1>4. Sent(F.loki, g, q.off)
    BY <1>1, SentGrows DEF GotOK, Grows
  <1> QED
    BY <1>1, <1>3, <1>4 DEF GotOK, LiveRead

\* of a batch,
LEMMA BatchGrows ==
  ASSUME NEW E, NEW F, Grows(E, F), NEW r, RefOK(r), r.digest \in Units, RowOK(E, r),
         NEW d, BatchOK(E, r, d), NEW q, Same(q, r)
  PROVE  BatchOK(F, q, d)
  <1>1. /\ q.digest = r.digest /\ q.done = r.done /\ q.csize = r.csize /\ q.ino = r.ino
        /\ q.n = r.n /\ q.blob = r.blob
    BY DEF Same
  <1>2. r.blob # 0 => F.blob[r.blob].units = E.blob[r.blob].units
    BY DEF Grows, RefOK
  <1>3. E.loki \subseteq F.loki
    BY DEF Grows
  <1>4. CASE r.blob = 0 \/ r.done
    <2>1. /\ d.done => d.to = Len(d.digest)
          /\ Known(r.digest) /\ d.to <= Len(r.digest)
          /\ Shows(E, r.ino, r.digest) => \A j \in 1 .. Len(r.digest) :
                d.from < j /\ j <= d.to => r.digest[j] \in E.loki \cup Elems(d.units)
          /\ d.done => d.digest = r.digest
          /\ r.done => r.csize <= Len(r.digest) /\ Len(r.digest) <= r.n
      BY <1>4 DEF BatchOK
    <2>2. Old(E, r.digest)
      BY <2>1 DEF RowOK, Progress
    <2>3. Shows(F, r.ino, r.digest) => Shows(E, r.ino, r.digest)
      BY <2>2 DEF Grows, Shows
    <2>4. Shows(F, r.ino, r.digest) => \A j \in 1 .. Len(r.digest) :
             d.from < j /\ j <= d.to => r.digest[j] \in F.loki \cup Elems(d.units)
      BY <1>3, <2>1, <2>3
    <2> QED
      BY <1>1, <1>4, <2>1, <2>4 DEF BatchOK
  <1>5. CASE ~ (r.blob = 0 \/ r.done)
    BY <1>1, <1>2, <1>3, <1>5 DEF BatchOK
  <1> QED
    BY <1>4, <1>5

\* of a verified prefix,
LEMMA VerifiedGrows ==
  ASSUME NEW E, NEW F, Grows(E, F), NEW r, RefOK(r), NEW l, NEW g \in Units,
         Verified(E, r, l, g), Still(E, l.wire, g) => Still(F, l.wire, g)
  PROVE  Verified(F, r, l, g)
  <1>1. r.blob # 0 => F.blob[r.blob].units = E.blob[r.blob].units
    BY DEF Grows, RefOK
  <1>2. \A k : Sent(E.loki, g, k) => Sent(F.loki, g, k)
    BY SentGrows DEF Grows
  <1>3. Old(F, g)
    BY DEF Grows, Verified
  <1> QED
    BY <1>1, <1>2, <1>3 DEF Verified

\* and of a source about to be read.
LEMMA ReadGrows ==
  ASSUME NEW E, NEW F, Grows(E, F), NEW r, RefOK(r), NEW l, ReadOK(E, r, l),
         Still(E, l.wire, r.digest) => Still(F, l.wire, r.digest)
  PROVE  ReadOK(F, r, l)
  <1>1. r.blob # 0 => F.blob[r.blob].units = E.blob[r.blob].units
    BY DEF Grows, RefOK
  <1>2. l.read = "blob" => BlobRead(F, r, l)
    BY <1>1 DEF BlobRead, ReadOK
  <1>3. Sent(E.loki, r.digest, r.off) => Sent(F.loki, r.digest, r.off)
    BY SentGrows DEF Grows
  <1> QED
    BY <1>2, <1>3 DEF ReadOK

\* A row without an id.
LEMMA EmptyRow ==
  ASSUME NEW B, NEW L, NEW r, r.id = <<>>, GoodRow(B, L, r), NEW E
  PROVE  RowOK(E, r)
  BY DEF GoodRow, RowShape, RowOK, Progress, BlobProgress, PlainProgress, AckSize, Known

\* Digests of units that were written are known.
LEMMA OldKnown ==
  ASSUME NEW E, NEW q, Old(E, q)
  PROVE  Known(q)
  BY DEF Old, Known, Unknown
-----------------------------------------------------------------------------
LEMMA ContentInit == Init => ContentInv
  <1> SUFFICES ASSUME Init PROVE ContentInv
    OBVIOUS
  <1>1. GuestOK
    BY DEF Init, GuestOK, Links, World, Old, NoBlob, Inodes
  <1>2. WiresOK
    BY DEF Init, WiresOK, NoPlan
  <1>3. RowsGood
    BY DEF Init, RowsGood, NoRow, RowOK, Progress, BlobProgress, PlainProgress, AckSize, Known
  <1> QED
    BY <1>1, <1>2, <1>3 DEF Init, ContentInv, PlansGood, BatchGood, CurGood, CoverGood, Planned,
       Importing, Reading

\* The frames of the parts of ContentInv, for any step after which the world is later.
LEMMA ContentFrame ==
  ASSUME TypeInv, ContentInv, Grows(World, World')
  PROVE  /\ (\A s \in Slots : Same(rows'[s], rows[s]) \/ RowOK(World', rows'[s])) => RowsGood'
         /\ (mpc' \in Planned \cup {"ack"} => \A l \in plans' :
               \/ PlanOK(World', rows'[l.src], l)
               \/ /\ l \in plans /\ mpc \in Planned \cup {"ack"}
                  /\ Same(rows'[l.src], rows[l.src])) => PlansGood'
         /\ (pend' # NoBatch => pend' = pend /\ Same(rows'[pend.src], rows[pend.src]))
              => BatchGood'
         /\ covered' = covered \/ covered' = {} => CoverGood'
  <1> DEFINE E == World
             F == World'
             R == rows'
  <1>1. Grows(E, F)
    OBVIOUS
  <1>2. \A s \in Slots : RefOK(rows[s]) /\ rows[s].digest \in Units /\ RowOK(E, rows[s])
    BY DEF TypeInv, TypeOK, RefInv, Row, ContentInv, RowsGood
  <1>3. E.loki \subseteq loki'
    BY DEF Grows, World
  <1> HIDE DEF E, F, R
  <1>4. \A s \in Slots : Same(R[s], rows[s]) => RowOK(F, R[s])
    BY <1>1, <1>2, RowGrows
  <1>5. \A s \in Slots : \A l : Same(R[s], rows[s]) /\ PlanOK(E, rows[s], l) => PlanOK(F, R[s], l)
    BY <1>1, <1>2, PlanGrows
  <1>6. \A s \in Slots : \A d : Same(R[s], rows[s]) /\ BatchOK(E, rows[s], d) => BatchOK(F, R[s], d)
    BY <1>1, <1>2, BatchGrows
  <1>7. ASSUME \A s \in Slots : Same(R[s], rows[s]) \/ RowOK(F, R[s]) PROVE RowsGood'
    BY <1>4, <1>7 DEF RowsGood, F, R
  <1>8. ASSUME mpc' \in Planned \cup {"ack"} => \A l \in plans' :
                 \/ PlanOK(F, R[l.src], l)
                 \/ l \in plans /\ mpc \in Planned \cup {"ack"} /\ Same(R[l.src], rows[l.src])
        PROVE  PlansGood'
    <2>1. \A l \in plans : l.src \in Slots
      BY DEF TypeInv, RefInv, PlanSrc
    <2>2. mpc \in Planned \cup {"ack"} => \A l \in plans : PlanOK(E, rows[l.src], l)
      BY DEF ContentInv, PlansGood, E
    <2> SUFFICES ASSUME mpc' \in Planned \cup {"ack"}, NEW l \in plans'
                 PROVE  PlanOK(F, R[l.src], l)
      BY DEF PlansGood, F, R
    <2> QED
      BY <1>5, <1>8, <2>1, <2>2
  <1>9. ASSUME pend' # NoBatch => pend' = pend /\ Same(R[pend.src], rows[pend.src])
        PROVE  BatchGood'
    <2> SUFFICES ASSUME pend' # NoBatch PROVE BatchOK(F, R[pend'.src], pend')
      BY DEF BatchGood, F, R
    <2>1. pend' = pend /\ pend.src \in Slots /\ Same(R[pend.src], rows[pend.src])
      BY <1>9 DEF TypeInv, RefInv
    <2>2. BatchOK(E, rows[pend.src], pend)
      BY <2>1 DEF ContentInv, BatchGood, E
    <2>3. BatchOK(F, R[pend.src], pend)
      BY <1>6, <2>1, <2>2
    <2> QED
      BY <2>1, <2>3
  <1>10. ASSUME covered' = covered \/ covered' = {} PROVE CoverGood'
    <2>1. \A c \in covered : Len(c.digest) = c.n /\ Sent(loki, c.digest, Len(c.digest))
      BY DEF ContentInv, CoverGood
    <2>2. loki \subseteq loki'
      BY <1>3 DEF E, World
    <2>3. \A q, k : Sent(loki, q, k) => Sent(loki', q, k)
      BY <2>2 DEF Sent
    <2> QED
      BY <1>10, <2>1, <2>3 DEF CoverGood
  <1> QED
    BY <1>7, <1>8, <1>9, <1>10 DEF F, R

\* A step of the manager that leaves the rows, the plans' wires and the guest.
LEMMA GuestKept ==
  ASSUME GuestOK, UNCHANGED <<at, data, mtime, open, clock, blob>>
  PROVE  GuestOK'
  BY DEF GuestOK, World, Old

\* A step that makes no new wires.
LEMMA WiresKept ==
  ASSUME WiresOK, UNCHANGED mtime, todo' \subseteq todo,
         \A l \in plans' : l \in plans \/ l.wire \in todo \cup {NoWire},
         cur' \in plans \cup {NoPlan} \/ cur'.wire = cur.wire
  PROVE  WiresOK'
  <1>1. cur'.wire # NoWire => cur'.wire.ino \in Inodes /\ mtime[cur'.wire.ino] # 0
    BY DEF WiresOK, NoPlan
  <1> QED
    BY <1>1 DEF WiresOK

\* A step of the import that touches neither guest nor Loki nor blobs.
LEMMA WorldSame ==
  ASSUME UNCHANGED <<at, data, clock, loki, blob>>
  PROVE  World' = World
  BY DEF World

\* A step that only adds to Loki.
LEMMA WorldGrows ==
  ASSUME UNCHANGED <<at, data, clock>>, loki \subseteq loki',
         \A p \in Paths : blob'[p].units = blob[p].units
  PROVE  Grows(World, World')
  <1>1. /\ World.data = data /\ World.clock = clock /\ World.loki = loki /\ World.blob = blob
        /\ World'.data = data /\ World'.clock = clock /\ World'.loki = loki'
        /\ World'.blob = blob'
    BY DEF World
  <1> DEFINE F == World'
  <1>2. F.data = data /\ F.clock = clock
    BY <1>1
  <1> HIDE DEF F
  <1>3. /\ \A q \in Units : Old(World, q) => Old(F, q)
        /\ \A i \in Inodes, q \in Units : Shows(F, i, q) => Shows(World, i, q)
    BY <1>1, <1>2 DEF Old, Shows
  <1> QED
    BY <1>1, <1>3 DEF Grows, F
-----------------------------------------------------------------------------
(***************************************************************************)
(* The guest's steps.                                                      *)
(***************************************************************************)
\* What a step may do to a file: nothing, an append, an overwrite, a truncation.
Appended(i)  == data'[i] = Append(data[i], clock + 1) /\ clock' = clock + 1
Overwrote(i) == /\ data'[i] = [data[i] EXCEPT ![1] = clock + 1] /\ data[i] # <<>>
                /\ clock' = clock + 1
FileStep == /\ clock' \in {clock, clock + 1}
            /\ \A i \in Inodes : \/ data'[i] = data[i] \/ data'[i] = <<>>
                                 \/ Appended(i) \/ Overwrote(i)

\* Every step of the guest is a FileStep.
LEMMA GuestFiles == TypeInv /\ Guest => FileStep
  <1> SUFFICES ASSUME TypeInv, Guest PROVE FileStep
    OBVIOUS
  <1>1. data \in [Inodes -> Units] /\ at \in [Paths -> Inodes \cup {0}]
    BY DEF TypeInv, TypeOK
  <1>2. ASSUME NEW i \in Inodes, Create(i) \/ AppendLog(i) \/ RewriteLog(i) \/ CloseLog(i)
        PROVE  FileStep
    <2>1. CASE Create(i)
      BY <1>1, <2>1 DEF Create, FileStep
    <2>2. CASE AppendLog(i)
      BY <1>1, <2>2 DEF AppendLog, FileStep, Appended
    <2>3. CASE RewriteLog(i)
      BY <1>1, <2>3 DEF RewriteLog, FileStep, Overwrote
    <2>4. CASE CloseLog(i)
      BY <2>4 DEF CloseLog, FileStep
    <2> QED
      BY <1>2, <2>1, <2>2, <2>3, <2>4
  <1>3. ASSUME NEW p \in Paths, RotateLog(p) \/ RemoveLog(p) PROVE FileStep
    <2>1. CASE RotateLog(p)
      BY <2>1 DEF RotateLog, FileStep
    <2>2. CASE RemoveLog(p)
      BY <1>1, <2>2 DEF RemoveLog, FileStep
    <2> QED
      BY <1>3, <2>1, <2>2
  <1> QED
    BY <1>2, <1>3 DEF Guest

\* A file's content, and what an append makes of it.
LEMMA FileIs ==
  ASSUME TypeInv, NEW i \in Inodes
  PROVE  /\ data[i] \in Units /\ Len(data[i]) \in Nat /\ clock \in Nat
         /\ Appended(i) => /\ Len(data'[i]) = Len(data[i]) + 1
                           /\ data'[i][Len(data[i]) + 1] = clock + 1
                           /\ \A j \in 1 .. Len(data[i]) : data'[i][j] = data[i][j]
         /\ Overwrote(i) => /\ Len(data'[i]) = Len(data[i]) /\ 1 <= Len(data[i])
                            /\ data'[i][1] = clock + 1
                            /\ \A j \in 2 .. Len(data[i]) : data'[i][j] = data[i][j]
  <1>1. data[i] \in Units /\ Len(data[i]) \in Nat /\ clock \in Nat
    BY DEF TypeInv, TypeOK, Units
  <1>2. ASSUME Appended(i)
        PROVE  /\ Len(data'[i]) = Len(data[i]) + 1
               /\ data'[i][Len(data[i]) + 1] = clock + 1
               /\ \A j \in 1 .. Len(data[i]) : data'[i][j] = data[i][j]
    BY <1>1, <1>2 DEF Appended, Units
  <1>3. ASSUME Overwrote(i)
        PROVE  /\ Len(data'[i]) = Len(data[i]) /\ 1 <= Len(data[i])
               /\ data'[i][1] = clock + 1
               /\ \A j \in 2 .. Len(data[i]) : data'[i][j] = data[i][j]
    <2> DEFINE q == data[i]
               x == clock + 1
    <2>1. q \in Seq(Nat) /\ q # <<>> /\ x \in Nat
      BY <1>1, <1>3 DEF Overwrote, Units
    <2>2. data'[i] = [q EXCEPT ![1] = x]
      BY <1>3 DEF Overwrote
    <2> HIDE DEF q, x
    <2>3. Len(q) \in Nat /\ 1 <= Len(q) /\ 1 \in 1 .. Len(q)
      BY <2>1, EmptySeq
    <2>4. /\ Len([q EXCEPT ![1] = x]) = Len(q)
          /\ \A j \in 1 .. Len(q) : [q EXCEPT ![1] = x][j] = IF j = 1 THEN x ELSE q[j]
      BY <2>1, <2>3, ExceptSeq
    <2>5. Len(data'[i]) = Len(q) /\ data'[i][1] = x
          /\ \A j \in 2 .. Len(q) : data'[i][j] = q[j]
      BY <2>2, <2>3, <2>4
    <2> QED
      BY <2>3, <2>5 DEF q, x
  <1> QED
    BY <1>1, <1>2, <1>3

\* A step of the guest lets the world grow.
LEMMA GuestGrows ==
  ASSUME TypeInv, FileStep, UNCHANGED <<loki, blob>>
  PROVE  Grows(World, World')
  <1> DEFINE F == World'
  <1>1. /\ World.data = data /\ World.clock = clock /\ World.loki = loki /\ World.blob = blob
        /\ F.data = data' /\ F.clock = clock' /\ F.loki = loki /\ F.blob = blob
    BY DEF World
  <1> HIDE DEF F
  <1>2. clock \in Nat /\ clock' \in {clock, clock + 1}
    BY DEF TypeInv, TypeOK, FileStep
  <1>3. \A q \in Units : Old(World, q) => Old(F, q)
    BY <1>1, <1>2 DEF Old
  <1>4. ASSUME NEW i \in Inodes, NEW q \in Units, Old(World, q), Shows(F, i, q)
        PROVE  Shows(World, i, q)
    <2>1. Len(q) \in Nat /\ Len(q) <= Len(data'[i])
          /\ \A j \in 1 .. Len(q) : data'[i][j] = q[j] /\ q[j] \in 1 .. clock
      BY <1>1, <1>4 DEF Shows, Old, Units
    <2>2. data[i] \in Units /\ Len(data[i]) \in Nat
      BY FileIs
    <2>3. CASE Len(q) = 0
      BY <1>1, <2>2, <2>3 DEF Shows
    <2>4. CASE data'[i] = data[i]
      BY <1>1, <2>1, <2>4 DEF Shows
    <2>5. CASE data'[i] = <<>>
      <3>1. Len(q) = 0
        BY <2>1, <2>5
      <3> QED
        BY <2>3, <3>1
    <2>6. CASE Appended(i)
      <3> DEFINE n == Len(data[i])
      <3>1. /\ Len(data'[i]) = n + 1 /\ data'[i][n + 1] = clock + 1
            /\ \A j \in 1 .. n : data'[i][j] = data[i][j]
        BY <2>6, FileIs
      <3>2. n \in Nat
        BY <2>2
      <3> HIDE DEF n
      <3>3. Len(q) # n + 1
        <4> SUFFICES ASSUME Len(q) = n + 1 PROVE FALSE
          OBVIOUS
        <4>1. n + 1 \in 1 .. Len(q)
          BY <3>2
        <4>2. q[n + 1] = clock + 1 /\ q[n + 1] \in 1 .. clock
          BY <2>1, <3>1, <4>1
        <4> QED
          BY <1>2, <4>2
      <3>4. Len(q) <= n /\ \A j \in 1 .. Len(q) : j \in 1 .. n
        BY <2>1, <3>1, <3>2, <3>3
      <3>5. \A j \in 1 .. Len(q) : data[i][j] = q[j]
        BY <2>1, <3>1, <3>4
      <3> QED
        BY <1>1, <3>4, <3>5 DEF Shows, n
    <2>7. CASE Overwrote(i)
      <3>1. data'[i][1] = clock + 1
        BY <2>7, FileIs
      <3>2. Len(q) = 0
        <4> SUFFICES ASSUME 1 \in 1 .. Len(q) PROVE FALSE
          BY <2>1
        <4>1. q[1] = clock + 1 /\ q[1] \in 1 .. clock
          BY <2>1, <3>1
        <4> QED
          BY <1>2, <4>1
      <3> QED
        BY <2>3, <3>2
    <2> QED
      BY <2>4, <2>5, <2>6, <2>7 DEF FileStep
  <1>5. /\ World.loki \subseteq F.loki
        /\ \A p \in Paths : F.blob[p].units = World.blob[p].units
    BY <1>1
  <1> QED
    BY <1>3, <1>4, <1>5 DEF Grows, F
\* What was written stays older than the clock.
LEMMA OldData ==
  ASSUME TypeInv, GuestOK, FileStep, UNCHANGED <<loki, blob>>
  PROVE  /\ \A i \in Inodes : Old(World', data'[i])
         /\ \A p \in Paths : Old(World', blob[p].units)
  <1> DEFINE F == World'
  <1>1. World.clock = clock /\ F.clock = clock'
    BY DEF World
  <1> HIDE DEF F
  <1>2. clock \in Nat /\ clock' \in {clock, clock + 1}
    BY DEF TypeInv, TypeOK, FileStep
  <1>3. ASSUME NEW i \in Inodes PROVE Old(F, data'[i])
    <2>1. Len(data[i]) \in Nat /\ \A j \in 1 .. Len(data[i]) : data[i][j] \in 1 .. clock
      BY <1>1, FileIs DEF GuestOK, Old
    <2>2. CASE data'[i] = data[i]
      BY <1>1, <1>2, <2>1, <2>2 DEF Old
    <2>3. CASE data'[i] = <<>>
      BY <2>3 DEF Old
    <2>4. CASE Appended(i)
      <3> SUFFICES ASSUME NEW j \in 1 .. Len(data'[i]) PROVE data'[i][j] \in 1 .. clock'
        BY <1>1 DEF Old
      <3>1. /\ Len(data'[i]) = Len(data[i]) + 1 /\ data'[i][Len(data[i]) + 1] = clock + 1
            /\ \A k \in 1 .. Len(data[i]) : data'[i][k] = data[i][k]
        BY <2>4, FileIs
      <3>2. clock' = clock + 1
        BY <2>4 DEF Appended
      <3>3. CASE j = Len(data[i]) + 1
        BY <1>2, <3>1, <3>2, <3>3
      <3>4. CASE j \in 1 .. Len(data[i])
        <4>1. data'[i][j] = data[i][j] /\ data[i][j] \in 1 .. clock
          BY <2>1, <3>1, <3>4
        <4> QED
          BY <1>2, <3>2, <4>1
      <3> QED
        BY <2>1, <3>1, <3>3, <3>4
    <2>5. CASE Overwrote(i)
      <3> SUFFICES ASSUME NEW j \in 1 .. Len(data'[i]) PROVE data'[i][j] \in 1 .. clock'
        BY <1>1 DEF Old
      <3>1. /\ Len(data'[i]) = Len(data[i]) /\ data'[i][1] = clock + 1
            /\ \A k \in 2 .. Len(data[i]) : data'[i][k] = data[i][k]
        BY <2>5, FileIs
      <3>2. clock' = clock + 1
        BY <2>5 DEF Overwrote
      <3>3. CASE j = 1
        BY <1>2, <3>1, <3>2, <3>3
      <3>4. CASE j \in 2 .. Len(data[i])
        <4>1. data'[i][j] = data[i][j] /\ data[i][j] \in 1 .. clock
          BY <2>1, <3>1, <3>4
        <4> QED
          BY <1>2, <3>2, <4>1
      <3> QED
        BY <2>1, <3>1, <3>3, <3>4
    <2> QED
      BY <2>2, <2>3, <2>4, <2>5 DEF FileStep
  <1>4. \A p \in Paths : Old(F, blob[p].units)
    BY <1>1, <1>2 DEF GuestOK, Old
  <1> QED
    BY <1>3, <1>4 DEF F

\* A step of the guest links no inode twice.
LEMMA GuestLinks ==
  ASSUME TypeInv, Links(at, mtime, data), Guest
  PROVE  /\ Links(at', mtime', data')
         /\ \A i \in Inodes : mtime[i] # 0 => mtime'[i] # 0
  <1>1. /\ at \in [Paths -> Inodes \cup {0}] /\ data \in [Inodes -> Units]
        /\ mtime \in [Inodes -> Nat] /\ clock \in Nat
    BY DEF TypeInv, TypeOK
  <1>2. ASSUME NEW i \in Inodes, Create(i)
        PROVE  Links(at', mtime', data') /\ \A k \in Inodes : mtime[k] # 0 => mtime'[k] # 0
    <2>1. \A k \in Inodes : /\ mtime'[k] = IF k = i THEN clock + 1 ELSE mtime[k]
                            /\ data'[k] = IF k = i THEN <<>> ELSE data[k]
      BY <1>1, <1>2 DEF Create
    <2>2. \A p \in Paths : at'[p] = IF p = Live THEN i ELSE at[p]
      BY <1>1, <1>2 DEF Create
    <2>3. \A p \in Paths : at[p] # i
      BY <1>2 DEF Create, Linked
    <2> QED
      BY <1>1, <2>1, <2>2, <2>3 DEF Links
  <1>3. ASSUME NEW i \in Inodes, AppendLog(i) \/ RewriteLog(i)
        PROVE  Links(at', mtime', data') /\ \A k \in Inodes : mtime[k] # 0 => mtime'[k] # 0
    <2>1. at' = at /\ mtime[i] # 0
      BY <1>3 DEF AppendLog, RewriteLog, Linked, Links
    <2>2. PICK t \in {mtime[i], clock + 1} : mtime' = [mtime EXCEPT ![i] = t]
      BY <1>3 DEF AppendLog, RewriteLog
    <2>3. \A k \in Inodes : k # i => data'[k] = data[k]
      BY <1>1, <1>3 DEF AppendLog, RewriteLog
    <2>4. t # 0
      BY <1>1, <2>1, <2>2
    <2>5. mtime'[i] # 0 /\ \A k \in Inodes : k # i => mtime'[k] = mtime[k]
      BY <1>1, <2>2, <2>4
    <2> QED
      BY <2>1, <2>3, <2>5 DEF Links
  <1>4. ASSUME NEW i \in Inodes, CloseLog(i)
        PROVE  Links(at', mtime', data') /\ \A k \in Inodes : mtime[k] # 0 => mtime'[k] # 0
    BY <1>4 DEF CloseLog
  <1>5. ASSUME NEW p \in Paths, RotateLog(p)
        PROVE  Links(at', mtime', data') /\ \A k \in Inodes : mtime[k] # 0 => mtime'[k] # 0
    <2>1. p + 1 \in Paths /\ at[p] # 0 /\ p # p + 1 /\ UNCHANGED <<data, mtime>>
      BY <1>5 DEF RotateLog, Paths
    <2>2. \A q \in Paths : at'[q] = IF q = p + 1 THEN at[p] ELSE IF q = p THEN 0 ELSE at[q]
      BY <1>1, <1>5, <2>1 DEF RotateLog
    <2>3. \A q \in Paths : q # p => at[q] # at[p]
      BY <2>1 DEF Links
    <2> QED
      BY <2>1, <2>2, <2>3 DEF Links, Inodes
  <1>6. ASSUME NEW p \in Paths, RemoveLog(p)
        PROVE  Links(at', mtime', data') /\ \A k \in Inodes : mtime[k] # 0 => mtime'[k] # 0
    <2>1. \A q \in Paths : at'[q] = IF q = p THEN 0 ELSE at[q]
      BY <1>1, <1>6 DEF RemoveLog
    <2>2. mtime' = mtime /\ \A k \in Inodes : data'[k] \in {data[k], <<>>}
      BY <1>1, <1>6 DEF RemoveLog
    <2> QED
      BY <2>1, <2>2 DEF Links, Inodes
  <1> QED
    BY <1>2, <1>3, <1>4, <1>5, <1>6 DEF Guest

\* While an import runs, a file that has been seen keeps its prefix until it is gone.
LEMMA GuestStill ==
  ASSUME TypeInv, Links(at, mtime, data), ~ Interfere, mpc # "idle", Guest,
         NEW w, w.ino \in Inodes, mtime[w.ino] # 0, NEW q, Len(q) <= w.n, w.n \in Nat,
         Len(q) \in Nat, Still(World, w, q)
  PROVE  Still(World', w, q)
  <1> DEFINE i == w.ino
             n == Len(data[i])
  <1>1. /\ at \in [Paths -> Inodes \cup {0}] /\ data \in [Inodes -> Units]
    BY DEF TypeInv, TypeOK
  <1>2. i \in Inodes /\ n \in Nat
    BY FileIs
  <1>3. World.at = at /\ World.data = data /\ World'.at = at' /\ World'.data = data'
    BY DEF World
  <1>4. ASSUME \E p \in Paths : at'[p] = i
        PROVE  /\ \E p \in Paths : at[p] = i
               /\ n <= Len(data'[i]) /\ \A j \in 1 .. n : data'[i][j] = data[i][j]
    <2>1. ASSUME NEW k \in Inodes, Create(k) PROVE k # i /\ data'[i] = data[i]
                                                   /\ \A p \in Paths : at'[p] \in {k, at[p]}
      BY <1>1, <1>2, <2>1 DEF Create, Calm
    <2>2. ASSUME NEW k \in Inodes, Create(k) \/ AppendLog(k) \/ RewriteLog(k) \/ CloseLog(k)
          PROVE  /\ \E p \in Paths : at[p] = i
                 /\ n <= Len(data'[i]) /\ \A j \in 1 .. n : data'[i][j] = data[i][j]
      <3>1. CASE Create(k)
        <4>1. \E p \in Paths : at[p] = i
          BY <1>4, <2>1, <3>1
        <4> QED
          BY <1>2, <2>1, <3>1, <4>1
      <3>2. CASE AppendLog(k)
        <4>1. at' = at /\ (k # i => data'[i] = data[i]) /\ (k = i => Appended(i))
          BY <1>1, <1>2, <3>2 DEF AppendLog, Appended
        <4>2. CASE k = i
          <5>1. Len(data'[i]) = n + 1 /\ \A j \in 1 .. n : data'[i][j] = data[i][j]
            BY <1>2, <4>1, <4>2, FileIs
          <5> QED
            BY <1>2, <1>4, <4>1, <5>1
        <4>3. CASE k # i
          BY <1>2, <1>4, <4>1, <4>3
        <4> QED
          BY <4>2, <4>3
      <3>3. CASE RewriteLog(k)
        BY <3>3 DEF RewriteLog, Calm
      <3>4. CASE CloseLog(k)
        BY <1>2, <1>4, <3>4 DEF CloseLog
      <3> QED
        BY <2>2, <3>1, <3>2, <3>3, <3>4
    <2>3. ASSUME NEW p \in Paths, RotateLog(p)
          PROVE  /\ \E x \in Paths : at[x] = i
                 /\ n <= Len(data'[i]) /\ \A j \in 1 .. n : data'[i][j] = data[i][j]
      <3>1. p + 1 \in Paths /\ p # p + 1 /\ UNCHANGED data
        BY <2>3 DEF RotateLog, Paths
      <3>2. \A x \in Paths : at'[x] = IF x = p + 1 THEN at[p] ELSE IF x = p THEN 0 ELSE at[x]
        BY <1>1, <2>3, <3>1 DEF RotateLog
      <3>3. i # 0
        BY <1>2 DEF Inodes
      <3> QED
        BY <1>2, <1>4, <3>1, <3>2, <3>3
    <2>4. ASSUME NEW p \in Paths, RemoveLog(p)
          PROVE  /\ \E x \in Paths : at[x] = i
                 /\ n <= Len(data'[i]) /\ \A j \in 1 .. n : data'[i][j] = data[i][j]
      <3>1. \A x \in Paths : at'[x] = IF x = p THEN 0 ELSE at[x]
        BY <1>1, <2>4 DEF RemoveLog
      <3>2. i # 0
        BY <1>2 DEF Inodes
      <3>3. PICK x \in Paths : at'[x] = i
        BY <1>4
      <3>4. x # p /\ at[x] = i
        BY <3>1, <3>2, <3>3
      <3>5. at[p] # i
        BY <3>2, <3>4 DEF Links
      <3>6. data'[i] = data[i]
        BY <1>1, <1>2, <2>4, <3>5 DEF RemoveLog
      <3> QED
        BY <1>2, <3>4, <3>6
    <2> QED
      BY <2>2, <2>3, <2>4 DEF Guest
  <1> SUFFICES ASSUME \E p \in Paths : at'[p] = i
               PROVE  w.n <= Len(data'[i]) /\ \A j \in 1 .. Len(q) : data'[i][j] = q[j]
    BY <1>3 DEF Still
  <1>5. w.n <= n /\ \A j \in 1 .. Len(q) : data[i][j] = q[j]
    BY <1>3, <1>4 DEF Still
  <1>6. /\ n <= Len(data'[i]) /\ \A j \in 1 .. n : data'[i][j] = data[i][j]
    BY <1>4
  <1>7. Len(data'[i]) \in Nat
    BY <1>2, GuestTypes DEF TypeInv, TypeOK, Units
  <1> QED
    BY <1>2, <1>5, <1>6, <1>7
LEMMA GuestContent ==
  TypeInv /\ BlobInv /\ OwnInv /\ ContentInv /\ ~ Interfere /\ Guest => ContentInv'
  <1> SUFFICES ASSUME TypeInv, BlobInv, OwnInv, ContentInv, ~ Interfere, Guest PROVE ContentInv'
    OBVIOUS
  <1>1. UNCHANGED <<loki, rows, cap, blob, pend, mpc, todo, recs, plans, cur, got, covered>>
    BY DEF Guest, GuestOnly, Create, AppendLog, RewriteLog, CloseLog, RotateLog, RemoveLog
  <1>2. FileStep /\ Grows(World, World')
    BY <1>1, GuestFiles, GuestGrows
  <1>3. GuestOK
    BY DEF ContentInv
  <1>4. Links(at', mtime', data') /\ \A i \in Inodes : mtime[i] # 0 => mtime'[i] # 0
    BY <1>3, GuestLinks DEF GuestOK
  <1>5. GuestOK'
    <2>1. /\ \A i \in Inodes : Old(World', data'[i])
          /\ \A p \in Paths : Old(World', blob[p].units)
      BY <1>1, <1>2, <1>3, OldData
    <2> QED
      BY <1>1, <1>3, <1>4, <2>1 DEF GuestOK
  <1>6. WiresOK'
    BY <1>1, <1>4 DEF ContentInv, WiresOK
  <1>7. RowsGood' /\ PlansGood' /\ BatchGood' /\ CoverGood'
    BY <1>1, <1>2, SameIs, ContentFrame
  <1>8. CurGood'
    <2> DEFINE r == rows[cur.src]
               F == World'
    <2>1. CurGood
      BY DEF ContentInv
    <2>2. Grows(World, F)
      BY <1>2
    <2>3. ASSUME mpc \in Importing \cup {"ack"}, cur # NoPlan
          PROVE  cur \in Plan /\ cur.src \in Slots /\ RefOK(r) /\ r \in Row /\ got \in Units
      BY <2>3 DEF TypeInv, TypeOK, RefInv, PlanSrc
    <2>4. mpc \in Importing => cur # NoPlan
      BY DEF TypeInv, RefInv
    <2>5. ASSUME mpc \in {"digest", "read"}, cur.wire # NoWire, NEW q \in Units,
                 Len(q) = cur.wire.n
          PROVE  Still(World, cur.wire, q) => Still(F, cur.wire, q)
      <3>1. cur.wire.ino \in Inodes /\ mtime[cur.wire.ino] # 0
        BY <2>5 DEF ContentInv, WiresOK
      <3>2. cur.wire.n \in Nat /\ Len(q) \in Nat /\ Len(q) <= cur.wire.n
        BY <2>3, <2>4, <2>5 DEF Importing, Plan, Wire, Units
      <3> QED
        BY <1>3, <2>5, <3>1, <3>2, GuestStill DEF GuestOK
    <2> HIDE DEF F, r
    <2>6. mpc = "prepare" => /\ PlanOK(F, r, cur)
                             /\ cur.read = "live" \/ (cur.cfc /\ cur.vs # Unknown)
      <3> SUFFICES ASSUME mpc = "prepare" PROVE PlanOK(F, r, cur)
        BY <2>1 DEF CurGood
      <3>1. PlanOK(World, r, cur) /\ RefOK(r)
        BY <2>1, <2>3, <2>4 DEF CurGood, Importing, r
      <3> QED
        BY <2>2, <3>1, SameIs, PlanGrows
    <2>7. mpc = "digest" => Verified(F, r, cur, got)
      <3> SUFFICES ASSUME mpc = "digest" PROVE Verified(F, r, cur, got)
        OBVIOUS
      <3>1. Verified(World, r, cur, got) /\ RefOK(r) /\ got \in Units
        BY <2>1, <2>3, <2>4 DEF CurGood, Importing, r
      <3>2. Still(World, cur.wire, got) => Still(F, cur.wire, got)
        BY <2>5, <3>1 DEF Verified
      <3> QED
        BY <2>2, <3>1, <3>2, VerifiedGrows
    <2>8. mpc = "read" => ReadOK(F, r, cur)
      <3> SUFFICES ASSUME mpc = "read" PROVE ReadOK(F, r, cur)
        OBVIOUS
      <3>1. ReadOK(World, r, cur) /\ RefOK(r) /\ r \in Row
        BY <2>1, <2>3, <2>4 DEF CurGood, Importing, r
      <3>2. CASE cur.read = "live"
        <4>1. cur.wire # NoWire /\ r.digest \in Units /\ Len(r.digest) = cur.wire.n
          BY <3>1, <3>2 DEF ReadOK, LiveRead, Row
        <4>2. Still(World, cur.wire, r.digest) => Still(F, cur.wire, r.digest)
          BY <2>5, <4>1
        <4> QED
          BY <2>2, <3>1, <4>2, ReadGrows
      <3>3. CASE cur.read # "live"
        <4>1. cur.read = "blob" /\ BlobRead(World, r, cur)
          BY <3>1, <3>3 DEF ReadOK
        <4>2. F.blob = World.blob
          BY <1>1 DEF World, F
        <4> QED
          BY <4>1, <4>2 DEF ReadOK, BlobRead
      <3> QED
        BY <3>2, <3>3
    <2>9. mpc \in Reading /\ cur # NoPlan => GotOK(F, r, cur, got)
      <3> SUFFICES ASSUME mpc \in Reading, cur # NoPlan PROVE GotOK(F, r, cur, got)
        OBVIOUS
      <3>1. GotOK(World, r, cur, got) /\ RefOK(r)
        BY <2>1, <2>3 DEF CurGood, Importing, Reading, r
      <3> QED
        BY <2>2, <3>1, SameIs, GotGrows
    <2>10. rows'[cur'.src] = r /\ UNCHANGED <<mpc, cur, got, pend>>
      BY <1>1 DEF r
    <2> QED
      BY <2>1, <2>6, <2>7, <2>8, <2>9, <2>10 DEF CurGood, F, r
  <1> QED
    BY <1>5, <1>6, <1>7, <1>8 DEF ContentInv
-----------------------------------------------------------------------------
\* The manager's steps: the source in work, and the two frames they need.
LEMMA SourceIs ==
  ASSUME TypeInv, BlobInv, OwnInv, ContentInv, mpc \in Importing
  PROVE  LET r == rows[cur.src] IN
         /\ cur # NoPlan /\ cur \in Plan /\ cur.src \in Slots /\ got \in Units
         /\ r \in Row /\ RefOK(r) /\ RowOK(World, r) /\ PlanRow(r, cur, todo)
         /\ GoodRow(blob, loki, r) /\ GoodPlan(blob, loki, r, cur)
         /\ \A l \in plans : l.src # cur.src
         /\ mpc # "push" => pend = NoBatch
         /\ cap = "complete"
  <1>1. cur # NoPlan /\ cur \in Plan /\ PlanSrc(cur) /\ got \in Units
    BY CurIs
  <1>2. cur.src \in Slots
    BY <1>1 DEF PlanSrc
  <1>3. RowOK(World, rows[cur.src])
    BY <1>2 DEF ContentInv, RowsGood
  <1>4. PlanRow(rows[cur.src], cur, todo) /\ \A l \in plans : l.src # cur.src
    BY <1>1 DEF OwnInv, CurOwn
  <1>5. mpc # "push" => pend = NoBatch
    BY DEF BlobInv, PhaseInv, Planned
  <1>6. cap = "complete"
    BY DEF BlobInv, PhaseInv, Importing, TypeInv, TypeOK
  <1>7. /\ rows[cur.src] \in Row /\ RefOK(rows[cur.src]) /\ GoodRow(blob, loki, rows[cur.src])
        /\ GoodPlan(blob, loki, rows[cur.src], cur)
    BY CurIs
  <1> QED
    BY <1>1, <1>2, <1>3, <1>4, <1>5, <1>6, <1>7

\* A step that writes a row no plan is for.
LEMMA ContentPut ==
  ASSUME TypeInv, ContentInv, mpc \in Planned \cup {"ack"}, NEW s \in Slots,
         \A l \in plans : l.src # s,
         NEW q \in Row, RowOK(World, q), rows' = Put(s, q),
         UNCHANGED <<at, data, mtime, open, clock, loki, blob, plans, todo>>, pend' = NoBatch,
         cur' = NoPlan \/ cur'.wire = cur.wire, CurGood', covered' = covered \/ CoverGood'
  PROVE  ContentInv'
  <1>1. World' = World
    BY WorldSame
  <1>2. Grows(World, World')
    BY <1>1, StaysWorld
  <1>3. Same(rows'[s], q) /\ \A x \in Slots : x # s => Same(rows'[x], rows[x])
    BY PutIs DEF TypeInv, TypeOK
  <1>4. RowsGood'
    <2>1. RowOK(World', rows'[s])
      <3> DEFINE c == rows'[s]
      <3>1. Same(c, q)
        BY <1>3
      <3> HIDE DEF c
      <3>2. RowOK(World, c)
        BY <3>1 DEF Same, RowOK, Progress, BlobProgress, PlainProgress, AckSize
      <3> QED
        BY <1>1, <3>2 DEF c
    <2> QED
      BY <1>2, <1>3, <2>1, ContentFrame
  <1>5. PlansGood'
    <2>1. \A l \in plans : l.src \in Slots
      BY DEF TypeInv, RefInv, PlanSrc
    <2> QED
      BY <1>2, <1>3, <2>1, ContentFrame
  <1>6. BatchGood'
    BY DEF BatchGood
  <1>7. CoverGood'
    BY <1>2, ContentFrame
  <1>8. GuestOK' /\ WiresOK'
    BY GuestKept, WiresKept DEF ContentInv
  <1> QED
    BY <1>4, <1>5, <1>6, <1>7, <1>8 DEF ContentInv

\* A step that writes the row of the source in work.
LEMMA ContentWrite ==
  ASSUME TypeInv, BlobInv, OwnInv, ContentInv, mpc \in Importing \ {"push"},
         NEW q \in Row, RowOK(World, q), rows' = Put(cur.src, q),
         UNCHANGED <<at, data, mtime, open, clock, loki, blob, plans, todo, pend>>,
         cur' \in {cur, NoPlan}, CurGood', covered' = covered \/ CoverGood'
  PROVE  ContentInv'
  <1>1. cur.src \in Slots /\ pend = NoBatch /\ \A l \in plans : l.src # cur.src
    BY SourceIs
  <1> QED
    BY <1>1, ContentPut DEF Planned

\* A step that leaves the rows and the content of the blobs.
LEMMA ContentQuiet ==
  ASSUME TypeInv, ContentInv, UNCHANGED <<at, data, mtime, open, clock, rows>>,
         loki \subseteq loki',
         \A p \in Paths : /\ blob'[p].units = blob[p].units /\ blob'[p].wire = blob[p].wire
                          /\ blob'[p].st = blob[p].st
                             \/ blob[p].st \in {"spooled", "captured", "released"},
         todo' \subseteq todo, plans' \subseteq plans,
         mpc' \in Planned \cup {"ack"} => mpc \in Planned \cup {"ack"} \/ plans' = {},
         cur' \in plans \cup {cur, NoPlan}, pend' \in {pend, NoBatch} \/ BatchGood',
         covered' \in {covered, {}} \/ CoverGood', CurGood'
  PROVE  ContentInv'
  <1>1. Grows(World, World')
    BY WorldGrows
  <1>2. RowsGood' /\ PlansGood' /\ BatchGood' /\ CoverGood'
    <2>1. \A r : Same(r, r)
      BY SameIs
    <2>2. RowsGood' /\ BatchGood' /\ CoverGood'
      BY <1>1, <2>1, ContentFrame
    <2>3. PlansGood'
      BY <1>1, <2>1, ContentFrame
    <2> QED
      BY <2>2, <2>3
  <1>3. GuestOK'
    <2>1. GuestOK
      BY DEF ContentInv
    <2>2. World.clock = clock /\ World'.clock = clock
      BY DEF World
    <2>3. \A q : Old(World', q) <=> Old(World, q)
      BY <2>2 DEF Old
    <2> HIDE DEF World
    <2>4. \A i \in Inodes : Old(World', data'[i])
      BY <2>1, <2>3 DEF GuestOK
    <2>5. ASSUME NEW p \in Paths
          PROVE  /\ Old(World', blob'[p].units)
                 /\ blob'[p].st \in {"spooled", "captured", "released"}
                      => Len(blob'[p].units) = blob'[p].wire.n
      BY <2>1, <2>3, <2>5 DEF GuestOK
    <2> QED
      BY <2>1, <2>4, <2>5 DEF GuestOK
  <1>4. WiresOK'
    BY WiresKept DEF ContentInv
  <1> QED
    BY <1>2, <1>3, <1>4 DEF ContentInv

\* Away from the source in work there is nothing to say of it.
LEMMA CurIdle ==
  ASSUME mpc' \notin Importing \cup {"ack"} \/ (mpc' = "ack" /\ cur' = NoPlan)
  PROVE  CurGood'
  BY DEF CurGood, Importing, Reading
-----------------------------------------------------------------------------
LEMMA StartContent == TypeInv /\ BlobInv /\ ContentInv /\ StartRun => ContentInv'
  <1> SUFFICES ASSUME TypeInv, BlobInv, ContentInv, StartRun PROVE ContentInv'
    OBVIOUS
  <1>1. /\ mpc = "idle" /\ mpc' \in {"flush", "capture"} /\ todo' = Probe
        /\ UNCHANGED <<at, data, mtime, open, clock, loki, rows, blob, pend, plans, cur, covered>>
    BY DEF StartRun
  <1>2. plans = {} /\ cur = NoPlan
    BY <1>1 DEF BlobInv, PhaseInv
  <1>3. World' = World
    BY <1>1, WorldSame
  <1>4. Grows(World, World')
    BY <1>3, StaysWorld
  <1>5. \A w \in todo' : w.ino \in Inodes /\ mtime[w.ino] # 0
    <2> SUFFICES ASSUME NEW p \in Paths, at[p] # 0 PROVE at[p] \in Inodes /\ mtime[at[p]] # 0
      BY <1>1 DEF Probe
    <2>1. at[p] \in Inodes
      BY DEF TypeInv, TypeOK
    <2> QED
      BY <2>1 DEF ContentInv, GuestOK, Links
  <1>6. RowsGood' /\ BatchGood' /\ CoverGood'
    BY <1>1, <1>4, SameIs, ContentFrame
  <1>7. GuestOK'
    BY <1>1, GuestKept DEF ContentInv
  <1>8. WiresOK' /\ PlansGood'
    BY <1>1, <1>2, <1>5 DEF WiresOK, PlansGood, NoPlan
  <1>9. CurGood'
    BY <1>1, CurIdle DEF Importing
  <1> QED
    BY <1>6, <1>7, <1>8, <1>9 DEF ContentInv

\* Before the capture is complete no row is in use, and the blobs may change.
LEMMA SpoolContent ==
  ASSUME TypeInv, BlobInv, ContentInv, cap # "complete", mpc = "capture", mpc' = mpc,
         UNCHANGED <<at, data, mtime, open, clock, loki, rows, pend, todo, plans, cur, covered>>,
         \A p \in Paths : /\ \A j \in 1 .. Len(blob'[p].units) : blob'[p].units[j] \in 1 .. clock
                          /\ blob'[p].st \in {"spooled", "captured", "released"}
                               => Len(blob'[p].units) = blob'[p].wire.n
  PROVE  ContentInv'
  <1>1. \A s \in Slots : rows[s].id = <<>> /\ GoodRow(blob, loki, rows[s])
    BY DEF BlobInv, PhaseInv, RowsBlob
  <1>2. pend = NoBatch /\ plans = {} /\ cur = NoPlan
    BY DEF BlobInv, PhaseInv
  <1>3. RowsGood'
    <2> DEFINE F == World'
    <2> HIDE DEF F
    <2>1. \A s \in Slots : RowOK(F, rows[s])
      BY <1>1, EmptyRow
    <2> QED
      BY <2>1 DEF RowsGood, F
  <1>4. GuestOK'
    <2>1. World.clock = clock /\ World'.clock = clock
      BY DEF World
    <2>2. \A q : Old(World', q) <=> \A j \in 1 .. Len(q) : q[j] \in 1 .. clock
      BY <2>1 DEF Old
    <2>3. \A i \in Inodes : Old(World', data[i])
      BY <2>1, <2>2 DEF ContentInv, GuestOK, Old
    <2> QED
      BY <2>2, <2>3 DEF ContentInv, GuestOK
  <1>5. WiresOK'
    BY <1>2, WiresKept DEF ContentInv
  <1>6. PlansGood' /\ BatchGood'
    BY <1>2 DEF PlansGood, BatchGood
  <1>7. CoverGood'
    BY DEF ContentInv, CoverGood
  <1>8. CurGood'
    BY CurIdle DEF Importing
  <1> QED
    BY <1>3, <1>4, <1>5, <1>6, <1>7, <1>8 DEF ContentInv

LEMMA CaptureContent ==
  ASSUME TypeInv, BlobInv, ContentInv,
         \/ BeginCapture \/ FinishCapture
         \/ \E p \in Paths : SpoolBlob(p) \/ CaptureFails(p)
  PROVE  ContentInv'
  <1>1. CASE BeginCapture
    <2>1. \A p \in Paths : blob'[p].units = <<>> /\ blob'[p].st \in {"none", "expected"}
      BY <1>1 DEF BeginCapture, NoBlob
    <2>2. \A p \in Paths : Len(blob'[p].units) = 0
      BY <2>1
    <2>3. /\ cap # "complete" /\ mpc = "capture" /\ mpc' = mpc
          /\ UNCHANGED <<at, data, mtime, open, clock, loki, rows, pend, todo, plans, cur, covered>>
      BY <1>1 DEF BeginCapture
    <2> QED
      BY <2>1, <2>2, <2>3, SpoolContent
  <1>2. ASSUME NEW p \in Paths, SpoolBlob(p) PROVE ContentInv'
    <2> DEFINE w == blob[p].wire
               u == First(data[w.ino], w.n)
    <2>1. /\ cap # "complete" /\ mpc = "capture" /\ mpc' = mpc
          /\ UNCHANGED <<at, data, mtime, open, clock, loki, rows, pend, todo, plans, cur, covered>>
          /\ blob' = [blob EXCEPT ![p].st = "spooled", ![p].units = u]
          /\ blob[p].st # "none" /\ Reachable(w)
      BY <1>2 DEF SpoolBlob
    <2>2. w.ino \in Inodes /\ w.n \in Nat /\ data[w.ino] \in Units
      BY <2>1 DEF TypeInv, TypeOK, RefInv, Blob, Wire
    <2>3. Len(u) = w.n /\ \A j \in 1 .. Len(u) : u[j] = data[w.ino][j]
      BY <2>1, <2>2, FirstIs DEF Reachable
    <2>4. Len(u) <= Len(data[w.ino]) /\ Len(data[w.ino]) \in Nat /\ Len(u) \in Nat
      BY <2>1, <2>2, <2>3 DEF Reachable, Units
    <2>5. \A j \in 1 .. Len(u) : u[j] \in 1 .. clock
      BY <2>2, <2>3, <2>4 DEF ContentInv, GuestOK, Old, World
    <2> HIDE DEF u
    <2>6. /\ blob'[p].units = u /\ blob'[p].wire = w
          /\ \A x \in Paths : x # p => blob'[x] = blob[x]
      BY <2>1 DEF TypeInv, TypeOK, Blob
    <2>7. ASSUME NEW x \in Paths
          PROVE  /\ \A j \in 1 .. Len(blob'[x].units) : blob'[x].units[j] \in 1 .. clock
                 /\ blob'[x].st \in {"spooled", "captured", "released"}
                      => Len(blob'[x].units) = blob'[x].wire.n
      <3>1. CASE x = p
        BY <2>3, <2>5, <2>6, <3>1
      <3>2. CASE x # p
        BY <2>6, <3>2 DEF ContentInv, GuestOK, Old, World
      <3> QED
        BY <3>1, <3>2
    <2> QED
      BY <2>1, <2>7, SpoolContent
  <1>3. CASE FinishCapture
    <2>1. /\ mpc' = "flush"
          /\ UNCHANGED <<at, data, mtime, open, clock, loki, rows, pend, todo, plans, cur, covered>>
          /\ \A p \in Paths : /\ blob'[p].units = blob[p].units /\ blob'[p].wire = blob[p].wire
                              /\ blob'[p].st = blob[p].st \/ blob[p].st = "spooled"
      BY <1>3 DEF FinishCapture, TypeInv, TypeOK, Blob
    <2> QED
      BY <2>1, CurIdle, ContentQuiet DEF Planned, Importing
  <1>4. ASSUME NEW p \in Paths, CaptureFails(p) PROVE ContentInv'
    BY <1>4, CurIdle, ContentQuiet DEF CaptureFails, Planned, Importing
  <1> QED
    BY <1>1, <1>2, <1>3, <1>4

LEMMA ForgetContent ==
  ASSUME TypeInv, ContentInv, Forget,
         UNCHANGED <<at, data, mtime, open, clock, loki, rows, cap, blob, pend>>
  PROVE  ContentInv'
  BY CurIdle, ContentQuiet DEF Forget, Planned, Importing

LEMMA EdgeContent ==
  ASSUME TypeInv, BlobInv, ContentInv,
         BeginPlan \/ EndPlan \/ StopOnBudget \/ EndImport \/ \E p \in Paths : ReleaseBlob(p)
  PROVE  ContentInv'
  <1>1. CASE BeginPlan
    <2>1. plans = {} /\ cur = NoPlan
      BY <1>1 DEF BeginPlan, BlobInv, PhaseInv
    <2> QED
      BY <1>1, <2>1, CurIdle, ContentQuiet DEF BeginPlan, Planned, Importing
  <1>2. CASE EndPlan
    BY <1>2, CurIdle, ContentQuiet DEF EndPlan, Planned, Importing
  <1>3. CASE StopOnBudget \/ EndImport
    BY <1>3, CurIdle, ContentQuiet DEF StopOnBudget, EndImport, Planned, Importing
  <1>4. ASSUME NEW p \in Paths, ReleaseBlob(p) PROVE ContentInv'
    <2>1. \A x \in Paths : /\ blob'[x].units = blob[x].units /\ blob'[x].wire = blob[x].wire
                           /\ blob'[x].st = blob[x].st \/ blob[x].st = "captured"
      BY <1>4 DEF ReleaseBlob, TypeInv, TypeOK, Blob
    <2>2. /\ mpc' = "release"
          /\ UNCHANGED <<at, data, mtime, open, clock, loki, rows, pend, todo, plans, cur, covered>>
      BY <1>4 DEF ReleaseBlob
    <2> QED
      BY <2>1, <2>2, CurIdle, ContentQuiet DEF Planned, Importing
  <1> QED
    BY <1>1, <1>2, <1>3, <1>4
-----------------------------------------------------------------------------
LEMMA NothingContent == TypeInv /\ BlobInv /\ OwnInv /\ ContentInv /\ NothingToSend => ContentInv'
  <1> SUFFICES ASSUME TypeInv, BlobInv, OwnInv, ContentInv, NothingToSend PROVE ContentInv'
    OBVIOUS
  <1>1. /\ mpc = "save" /\ mpc' = "mark" /\ cur.pos >= Len(got)
        /\ UNCHANGED <<at, data, mtime, open, clock, loki, rows, blob, pend, todo, plans,
                       cur, got, covered>>
    BY DEF NothingToSend
  <1>2. cur # NoPlan /\ rows[cur.src].off = cur.pos
    BY <1>1, SourceIs DEF Importing, PlanRow
  <1>3. World' = World
    BY <1>1, WorldSame
  <1>4. GotOK(World', rows'[cur'.src], cur', got')
    BY <1>1, <1>2, <1>3 DEF ContentInv, CurGood, Reading
  <1>5. CurGood'
    BY <1>1, <1>2, <1>4 DEF CurGood, Reading
  <1> QED
    BY <1>1, <1>5, ContentQuiet DEF Planned, Importing

LEMMA PushContent == TypeInv /\ ContentInv /\ BlobInv /\ PushBatch => ContentInv'
  <1> SUFFICES ASSUME TypeInv, BlobInv, ContentInv, PushBatch PROVE ContentInv'
    OBVIOUS
  <1>1. /\ mpc \in {"flush", "push"} /\ mpc' \in {"ack", "idle", "release"}
        /\ mpc' = "ack" => mpc \in {"flush", "push"} /\ todo' = todo
        /\ UNCHANGED <<at, data, mtime, open, clock, rows, blob, pend, plans, cur, got, covered>>
        /\ loki \subseteq loki' /\ todo' \subseteq todo
    BY DEF PushBatch
  <1>2. mpc = "flush" => cur = NoPlan /\ plans = {}
    BY DEF BlobInv, PhaseInv
  <1>3. Grows(World, World')
    BY <1>1, WorldGrows
  <1>4. CurGood'
    <2>1. CASE mpc = "push" /\ mpc' = "ack" /\ cur # NoPlan
      <3> DEFINE r == rows[cur.src]
                 F == World'
      <3>1. GotOK(World, r, cur, got)
        BY <2>1 DEF ContentInv, CurGood, Reading
      <3>2. RefOK(r)
        BY <2>1 DEF TypeInv, RefInv, PlanSrc
      <3>3. Grows(World, F)
        BY <1>3
      <3> HIDE DEF r, F
      <3>4. GotOK(F, r, cur, got)
        BY <3>1, <3>2, <3>3, SameIs, GotGrows
      <3>5. /\ pend.to <= Len(got) /\ Slice(got, pend)
            /\ pend.done => pend.digest = got
        BY <2>1 DEF ContentInv, CurGood
      <3>6. rows'[cur'.src] = r
        BY <1>1 DEF r
      <3> QED
        BY <1>1, <2>1, <3>4, <3>5, <3>6 DEF CurGood, F
    <2>2. CASE mpc' # "ack" \/ cur = NoPlan
      BY <1>1, <2>2, CurIdle DEF Importing
    <2> QED
      BY <1>1, <1>2, <2>1, <2>2
  <1> QED
    BY <1>1, <1>2, <1>4, ContentQuiet DEF Planned, Importing

LEMMA SaveContent ==
  ASSUME TypeInv, BlobInv, OwnInv, ContentInv, NEW k \in 1 .. MaxClock, NEW done \in BOOLEAN,
         SaveBatch(k, done)
  PROVE  ContentInv'
  <1> DEFINE r == rows[cur.src]
             u == blob[r.blob].units
             n == cur.pos + k
             v == SubSeq(got, cur.pos + 1, n)
  <1>1. /\ mpc = "save" /\ mpc' = "push" /\ n <= Len(got) /\ (done => n = Len(got))
        /\ UNCHANGED <<at, data, mtime, open, clock, loki, rows, blob, todo, plans, cur, got,
                       covered>>
        /\ pend' = [src |-> cur.src, from |-> cur.pos, to |-> n, units |-> v, done |-> done,
                    digest |-> IF done THEN got ELSE Unknown]
    BY DEF SaveBatch
  <1>2. /\ cur # NoPlan /\ cur \in Plan /\ got \in Units /\ r \in Row /\ RowOK(World, r)
        /\ PlanRow(r, cur, todo)
    BY <1>1, SourceIs DEF Importing
  <1>3. cur.pos \in Nat /\ r.off = cur.pos /\ n \in Nat /\ cur.pos < n /\ r.off \in Nat
    BY <1>2, ImportAssumption DEF Plan, PlanRow, Row
  <1>4. GotOK(World, r, cur, got) /\ cur.read \in {"blob", "live"}
    BY <1>1, <1>2 DEF ContentInv, CurGood, BlobInv, GotBlob, Reading
  <1>5. \A j \in 1 .. Len(got) : cur.pos < j /\ j <= n => got[j] \in Elems(v)
    BY <1>1, <1>2, <1>3, SliceIs
  <1> HIDE DEF n, v, r
  <1>6. /\ pend'.src = cur.src /\ pend'.from = cur.pos /\ pend'.to = n /\ pend'.units = v
        /\ pend'.done = done /\ (done => pend'.digest = got)
    BY <1>1
  <1>7. World' = World /\ World.blob = blob /\ World.loki = loki
    BY <1>1, WorldSame DEF World
  <1> DEFINE d == pend'
  <1> HIDE DEF d
  <1>8. BatchOK(World, r, d)
    <2>1. d.done => d.to = Len(d.digest)
      BY <1>1, <1>6 DEF d
    <2>2. CASE cur.read = "blob"
      <3>1. /\ r.blob # 0 /\ r.off <= Len(u) /\ got = u
        BY <1>4, <1>7, <2>2 DEF GotOK, BlobRead, r
      <3>2. r.done => r.off >= Len(u)
        BY <1>2, <1>7, <3>1 DEF RowOK, BlobProgress, r
      <3>3. Len(u) \in Nat
        BY <1>2, <3>1 DEF Units
      <3>4. ~ r.done
        BY <1>1, <1>3, <3>1, <3>2, <3>3
      <3>5. d.to <= Len(u) /\ (d.done => d.digest = u)
        BY <1>1, <1>6, <3>1 DEF d
      <3>6. \A j \in 1 .. Len(u) : d.from < j /\ j <= d.to => u[j] \in Elems(d.units)
        BY <1>5, <1>6, <3>1 DEF d
      <3> QED
        BY <1>7, <2>1, <3>1, <3>4, <3>5, <3>6 DEF BatchOK, r
    <2>3. CASE cur.read = "live"
      <3>1. /\ LiveRead(r, cur) /\ Known(r.digest) /\ Len(got) = cur.wire.n /\ got = r.digest
        BY <1>4, <2>3 DEF GotOK
      <3>2. r.blob = 0 \/ r.done
        BY <3>1 DEF LiveRead
      <3>3. r.n = cur.wire.n
        BY <1>2, <3>1 DEF LiveRead, PlanRow, Unchanged
      <3>4. r.n \in Nat /\ Len(got) \in Nat
        BY <1>2 DEF Row, Units
      <3>5. r.done => r.csize <= Len(r.digest) /\ Len(r.digest) <= r.n
        BY <1>2, <3>1, <3>3, <3>4 DEF RowOK, Progress
      <3>6. d.to <= Len(r.digest) /\ (d.done => d.digest = r.digest)
        BY <1>1, <1>6, <3>1 DEF d
      <3>7. \A j \in 1 .. Len(r.digest) : d.from < j /\ j <= d.to => r.digest[j] \in Elems(d.units)
        BY <1>5, <1>6, <3>1 DEF d
      <3> QED
        BY <2>1, <3>1, <3>2, <3>5, <3>6, <3>7 DEF BatchOK
    <2> QED
      BY <1>4, <2>2, <2>3
  <1>9. BatchGood'
    <2>1. rows'[pend'.src] = r
      BY <1>1, <1>6 DEF r
    <2> QED
      BY <1>7, <1>8, <2>1 DEF BatchGood, d
  <1>10. CurGood'
    <2>1. Slice(got, d)
      BY <1>5, <1>6 DEF Slice, d
    <2>2. d.to <= Len(got) /\ (d.done => d.digest = got)
      BY <1>1, <1>6 DEF d
    <2>3. rows'[cur'.src] = r
      BY <1>1 DEF r
    <2> QED
      BY <1>1, <1>4, <1>7, <2>1, <2>2, <2>3 DEF CurGood, d
  <1> QED
    BY <1>1, <1>9, <1>10, ContentQuiet DEF Planned, Importing
-----------------------------------------------------------------------------
\* The row q that an accepted batch d makes of row r.
LEMMA AckRow ==
  ASSUME NEW E, NEW r \in Row, NEW q \in Row, NEW d \in Batch, RowOK(E, r), BatchOK(E, r, d),
         Elems(d.units) \subseteq E.loki, d.from = r.off, d.from < d.to,
         r.blob # 0 => LET u == E.blob[r.blob].units
                       IN  u \in Units /\ Old(E, u) /\ Sent(E.loki, u, r.off),
         q.blob = r.blob, q.done = r.done, q.csize = r.csize, q.ino = r.ino, q.n = r.n,
         q.off = d.to, q.ack = d.done,
         q.digest = IF d.done THEN d.digest ELSE r.digest
  PROVE  RowOK(E, q)
  <1> DEFINE D == r.digest
             u == E.blob[r.blob].units
             nb == Len(u)
  <1>1. /\ d.from \in Nat /\ d.to \in Nat /\ r.off \in Nat /\ r.n \in Nat /\ r.csize \in Nat
        /\ D \in Units /\ Len(D) \in Nat /\ r.done \in BOOLEAN /\ d.done \in BOOLEAN
    BY DEF Row, Batch, Units
  <1>2. CASE r.blob = 0 \/ r.done
    <2>1. /\ Known(D) /\ d.to <= Len(D) /\ (d.done => d.digest = D)
          /\ r.done => r.csize <= Len(D) /\ Len(D) <= r.n
          /\ Shows(E, r.ino, D) => \A j \in 1 .. Len(D) :
                 d.from < j /\ j <= d.to => D[j] \in E.loki \cup Elems(d.units)
      BY <1>2 DEF BatchOK
    <2>2. q.digest = D
      BY <2>1
    <2>3. /\ Old(E, D) /\ (Shows(E, r.ino, D) => Sent(E.loki, D, r.off))
          /\ r.done => Sent(E.loki, D, r.csize)
      BY <2>1 DEF RowOK, Progress
    <2>4. ASSUME Shows(E, r.ino, D) PROVE Sent(E.loki, D, d.to)
      <3> SUFFICES ASSUME NEW j \in 1 .. Len(D), j <= d.to PROVE D[j] \in E.loki
        BY DEF Sent
      <3>1. CASE j <= r.off
        BY <2>3, <2>4, <3>1 DEF Sent
      <3>2. CASE ~ (j <= r.off)
        BY <1>1, <2>1, <2>4, <3>2
      <3> QED
        BY <3>1, <3>2
    <2>5. Progress(E, q)
      BY <2>1, <2>2, <2>3, <2>4 DEF Progress
    <2>6. BlobProgress(E, q)
      <3> SUFFICES ASSUME r.blob # 0
                   PROVE  /\ q.off >= nb
                          /\ ~ (q.csize > q.n)
                          /\ nb <= Len(D) /\ Sent(E.loki, D, nb)
        BY <1>2, <2>1, <2>2 DEF BlobProgress
      <3>1. r.off >= nb /\ nb <= Len(D) /\ Sent(E.loki, D, nb)
        BY <1>2, <2>1 DEF RowOK, BlobProgress
      <3>2. nb \in Nat
        BY DEF Units
      <3> HIDE DEF nb
      <3>3. q.off >= nb
        BY <1>1, <3>1, <3>2
      <3>4. ~ (q.csize > q.n)
        BY <1>1, <1>2, <2>1
      <3> QED
        BY <3>1, <3>3, <3>4
    <2>7. PlainProgress(q)
      BY <2>1, <2>2 DEF PlainProgress, RowOK
    <2>8. AckSize(E, q)
      BY <1>2, <2>1, <2>2 DEF AckSize
    <2> QED
      BY <2>5, <2>6, <2>7, <2>8 DEF RowOK
  <1>3. CASE r.blob # 0 /\ ~ r.done
    <2>1. /\ d.to <= nb /\ (d.done => d.digest = u /\ d.to = nb)
          /\ \A j \in 1 .. nb : d.from < j /\ j <= d.to => u[j] \in E.loki \cup Elems(d.units)
          /\ u \in Units /\ Old(E, u) /\ Sent(E.loki, u, r.off) /\ nb \in Nat
      BY <1>3 DEF BatchOK, Units
    <2>2. Sent(E.loki, u, d.to)
      <3> SUFFICES ASSUME NEW j \in 1 .. nb, j <= d.to PROVE u[j] \in E.loki
        BY DEF Sent
      <3>1. CASE j <= r.off
        BY <2>1, <3>1 DEF Sent
      <3>2. CASE ~ (j <= r.off)
        BY <1>1, <2>1, <3>2
      <3> QED
        BY <3>1, <3>2
    <2>3. CASE d.done
      <3> HIDE DEF u
      <3>1. q.digest = u /\ q.off = nb
        BY <2>1, <2>3
      <3> QED
        BY <1>3, <2>1, <2>2, <2>3, <3>1
           DEF RowOK, Progress, BlobProgress, PlainProgress, AckSize, u
    <2>4. CASE ~ d.done
      <3>1. q.digest = D /\ ~ q.ack
        BY <2>4
      <3>2. Known(D) => Old(E, D) /\ nb <= Len(D) /\ Sent(E.loki, D, nb)
        BY <1>3 DEF RowOK, Progress, BlobProgress
      <3>3. Known(D) => Sent(E.loki, D, d.to) /\ d.to <= Len(D)
        BY <1>1, <2>1, <3>2 DEF Sent
      <3> QED
        BY <1>3, <2>1, <3>1, <3>2, <3>3
           DEF RowOK, Progress, BlobProgress, PlainProgress, AckSize
    <2> QED
      BY <2>3, <2>4
  <1> QED
    BY <1>2, <1>3

LEMMA AckContent == TypeInv /\ BlobInv /\ OwnInv /\ ContentInv /\ AckBatch => ContentInv'
  <1> SUFFICES ASSUME TypeInv, BlobInv, OwnInv, ContentInv, AckBatch PROVE ContentInv'
    OBVIOUS
  <1> DEFINE r == rows[pend.src]
             dg == IF pend.done THEN pend.digest ELSE r.digest
             q == [r EXCEPT !.off = pend.to, !.ack = pend.done, !.digest = dg]
  <1>1. mpc = "ack" /\ pend # NoBatch /\ pend.src \in Slots /\ r \in Row /\ pend \in Batch
        /\ RefOK(r)
    BY DEF AckBatch, TypeInv, TypeOK, RefInv
  <1>2. dg \in Units
    BY <1>1 DEF Row, Batch
  <1>3. /\ rows' = Put(pend.src, q) /\ pend' = NoBatch
        /\ UNCHANGED <<at, data, mtime, open, clock, loki, blob, plans, todo, got, covered>>
    BY DEF AckBatch
  <1>4. \/ cur = NoPlan /\ mpc' = "plan" /\ cur' = NoPlan
        \/ /\ cur # NoPlan /\ cur' = [cur EXCEPT !.pos = pend.to]
           /\ mpc' \in {"mark", "save", "release"}
           /\ mpc' = "mark" => pend.done
    BY DEF AckBatch
  <1> HIDE DEF dg
  <1>5. /\ q \in Row /\ q.blob = r.blob /\ q.done = r.done /\ q.csize = r.csize
        /\ q.ino = r.ino /\ q.n = r.n /\ q.off = pend.to /\ q.ack = pend.done /\ q.digest = dg
    BY <1>1, <1>2 DEF Row, Batch
  <1> HIDE DEF q
  <1>6. /\ RowOK(World, r) /\ BatchOK(World, r, pend)
        /\ pend.from = r.off /\ pend.from < pend.to
        /\ Elems(pend.units) \subseteq loki /\ GoodRow(blob, loki, r)
    BY <1>1 DEF ContentInv, RowsGood, BatchGood, OwnInv, PendOwn, BlobInv, GotBlob, RowsBlob
  <1>7. World' = World /\ World.loki = loki /\ World.blob = blob
    BY <1>3, WorldSame DEF World
  <1>8. r.blob # 0 => LET u == blob[r.blob].units
                      IN  u \in Units /\ Old(World, u) /\ Sent(loki, u, r.off)
    BY <1>1, <1>6 DEF RefOK, TypeInv, TypeOK, Blob, ContentInv, GuestOK, GoodRow, RowSent
  <1> HIDE DEF r
  <1>9. RowOK(World, q)
    BY <1>1, <1>5, <1>6, <1>7, <1>8, AckRow DEF dg
  <1>10. \A l \in plans : l.src # pend.src
    <2>1. CASE cur = NoPlan
      BY <1>1, <2>1 DEF BlobInv, PhaseInv
    <2>2. CASE cur # NoPlan
      BY <1>1, <2>2 DEF BlobInv, GotBlob, OwnInv, CurOwn
    <2> QED
      BY <2>1, <2>2
  <1>11. CurGood'
    <2>1. CASE mpc' \in {"plan", "release"}
      BY <2>1, CurIdle DEF Importing
    <2>2. CASE cur # NoPlan /\ mpc' \in {"mark", "save"}
      <3>1. /\ cur \in Plan /\ got \in Units /\ pend.src = cur.src
            /\ cur.read \in {"blob", "live"} /\ (pend.done => pend.to = Len(got))
        BY <1>1, <2>2 DEF TypeInv, TypeOK, BlobInv, GotBlob, Reading
      <3>2. /\ GotOK(World, r, cur, got) /\ pend.to <= Len(got) /\ Slice(got, pend)
            /\ pend.done => pend.digest = got
        BY <1>1, <2>2, <3>1 DEF ContentInv, CurGood, Reading, r
      <3>3. cur'.read = cur.read /\ cur'.wire = cur.wire /\ cur'.raw = cur.raw
            /\ cur'.blob = cur.blob
        BY <1>4, <2>2, <3>1 DEF Plan
      <3>4. cur' # NoPlan /\ cur'.src = pend.src
        BY <1>4, <2>2, <3>1 DEF NoPlan, Plan
      <3>5. Sent(loki, got, pend.to)
        <4> SUFFICES ASSUME NEW j \in 1 .. Len(got), j <= pend.to PROVE got[j] \in loki
          BY DEF Sent
        <4>1. CASE j <= r.off
          BY <1>7, <3>2, <4>1 DEF GotOK, Sent
        <4>2. CASE ~ (j <= r.off)
          <5>1. pend.from < j
            BY <1>1, <1>6, <4>2, <3>1 DEF Batch, Units
          <5> QED
            BY <1>6, <3>2, <5>1 DEF Slice
        <4> QED
          BY <4>1, <4>2
      <3> DEFINE c == cur'
      <3> HIDE DEF c
      <3>6. GotOK(World, q, c, got)
        <4>1. c.read = "blob" => BlobRead(World, q, c) /\ got = World.blob[q.blob].units
          BY <1>5, <3>2, <3>3 DEF GotOK, BlobRead, c
        <4>2. ASSUME c.read = "live"
              PROVE  LiveRead(q, c) /\ Known(q.digest) /\ Len(got) = c.wire.n /\ got = q.digest
          <5>1. LiveRead(r, cur) /\ Known(r.digest) /\ Len(got) = cur.wire.n /\ got = r.digest
            BY <3>2, <3>3, <4>2 DEF GotOK, c
          <5>2. q.digest = got
            BY <1>5, <3>2, <5>1 DEF dg
          <5> QED
            BY <1>5, <3>3, <5>1, <5>2 DEF LiveRead, c
        <4> QED
          BY <1>5, <1>7, <3>5, <4>1, <4>2 DEF GotOK
      <3> DEFINE x == rows'[pend.src]
      <3>7. Same(x, q)
        BY <1>1, <1>3, <1>5, PutIs DEF TypeInv, TypeOK
      <3> HIDE DEF x
      <3>8. GotOK(World, x, c, got)
        BY <3>6, <3>7 DEF GotOK, Same, BlobRead, LiveRead
      <3>9. mpc' = "mark" => x.off >= Len(got)
        BY <1>4, <2>2, <1>5, <3>1, <3>7 DEF Same, Units
      <3> QED
        BY <1>3, <1>7, <2>2, <3>4, <3>8, <3>9 DEF CurGood, Reading, c, x
    <2> QED
      BY <1>4, <2>1, <2>2
  <1>12. cur' = NoPlan \/ cur'.wire = cur.wire
    BY <1>4 DEF TypeInv, TypeOK, Plan
  <1> QED
    BY <1>1, <1>3, <1>5, <1>9, <1>10, <1>11, <1>12, ContentPut
-----------------------------------------------------------------------------
LEMMA RebuildContent == TypeInv /\ BlobInv /\ OwnInv /\ ContentInv /\ RebuildBatch => ContentInv'
  <1> SUFFICES ASSUME TypeInv, BlobInv, OwnInv, ContentInv, RebuildBatch PROVE ContentInv'
    OBVIOUS
  <1> DEFINE r == rows[pend.src]
             u == blob[r.blob].units
             D == r.digest
  <1>1. pend \in Batch /\ pend.src \in Slots /\ r \in Row /\ pend # NoBatch /\ mpc = "flush"
        /\ RefOK(r)
    BY DEF RebuildBatch, TypeInv, TypeOK, RefInv
  <1>2. PICK q \in RebuildSource(r) :
          Len(q) >= pend.to /\ pend' = [pend EXCEPT !.units = SubSeq(q, pend.from + 1, pend.to)]
    BY DEF RebuildBatch, RebuildRange
  <1>3. /\ mpc' = "flush"
        /\ UNCHANGED <<at, data, mtime, open, clock, loki, rows, blob, todo, plans, cur, got,
                       covered>>
    BY <1>1 DEF RebuildBatch
  <1>4. /\ pend.from = r.off /\ pend.from < pend.to /\ pend.from \in Nat /\ pend.to \in Nat
        /\ r.off \in Nat /\ r.n \in Nat
    BY <1>1 DEF OwnInv, PendOwn, Batch, Row
  <1>5. /\ r.blob # 0 => q = u
        /\ r.blob = 0 => r.ino \in Inodes /\ Len(data[r.ino]) >= r.n /\ q = First(data[r.ino], r.n)
    BY <1>2 DEF RebuildSource, HasFile
  <1>6. q \in Units /\ Len(q) \in Nat
    <2>1. CASE r.blob # 0
      BY <1>1, <1>5, <2>1 DEF RefOK, TypeInv, TypeOK, Blob, Units
    <2>2. CASE r.blob = 0
      <3>1. data[r.ino] \in Units
        BY <1>5, <2>2 DEF TypeInv, TypeOK
      <3> QED
        BY <1>4, <1>5, <2>2, <3>1, FirstIs DEF Units
    <2> QED
      BY <2>1, <2>2
  <1> DEFINE v == SubSeq(q, pend.from + 1, pend.to)
             d == pend'
  <1>7. \A j \in 1 .. Len(q) : pend.from < j /\ j <= pend.to => q[j] \in Elems(v)
    BY <1>2, <1>4, <1>6, SliceIs
  <1>8. /\ d.from = pend.from /\ d.to = pend.to /\ d.done = pend.done /\ d.digest = pend.digest
        /\ d.units = v /\ d.src = pend.src
    BY <1>1, <1>2 DEF Batch
  <1>9. World' = World /\ World.loki = loki /\ World.blob = blob /\ World.data = data
    BY <1>3, WorldSame DEF World
  <1>10. RowOK(World, r) /\ BatchOK(World, r, pend)
    BY <1>1 DEF ContentInv, RowsGood, BatchGood
  <1> HIDE DEF v, d, r
  <1>11. BatchOK(World, r, d)
    <2>1. CASE r.blob # 0 /\ r.done
      <3>1. Known(D)
        BY <1>10, <2>1 DEF BatchOK
      <3>2. r.off >= Len(q)
        BY <1>5, <1>9, <1>10, <2>1 DEF RowOK, BlobProgress
      <3> QED
        BY <1>2, <1>4, <1>6, <3>2
    <2>2. CASE r.blob = 0
      <3>1. /\ Known(D) /\ d.to <= Len(D) /\ (d.done => d.to = Len(d.digest) /\ d.digest = D)
            /\ r.done => r.csize <= Len(D) /\ Len(D) <= r.n
        BY <1>8, <1>10, <2>2 DEF BatchOK
      <3>2. ASSUME Shows(World, r.ino, D), NEW j \in 1 .. Len(D), d.from < j, j <= d.to
            PROVE  D[j] \in Elems(d.units)
        <4>1. D[j] = data[r.ino][j]
          BY <1>9, <3>2 DEF Shows
        <4>2. data[r.ino] \in Units
          BY <1>5, <2>2 DEF TypeInv, TypeOK
        <4>3. j \in 1 .. Len(q)
          BY <1>1, <1>2, <1>4, <1>6, <1>8, <3>2
        <4>4. q[j] = data[r.ino][j]
          BY <1>4, <1>5, <2>2, <4>2, <4>3, FirstIs
        <4> QED
          BY <1>7, <1>8, <3>2, <4>1, <4>3, <4>4
      <3> QED
        BY <2>2, <3>1, <3>2 DEF BatchOK
    <2>3. CASE r.blob # 0 /\ ~ r.done
      <3>1. /\ d.to <= Len(u) /\ (d.done => d.to = Len(d.digest) /\ d.digest = u)
        BY <1>8, <1>9, <1>10, <2>3 DEF BatchOK, r
      <3>2. \A j \in 1 .. Len(u) : d.from < j /\ j <= d.to => u[j] \in Elems(d.units)
        BY <1>5, <1>7, <1>8, <2>3 DEF r
      <3> QED
        BY <1>9, <2>3, <3>1, <3>2 DEF BatchOK, r
    <2> QED
      BY <2>1, <2>2, <2>3
  <1>12. BatchGood'
    <2>1. rows'[pend'.src] = r
      BY <1>3, <1>8 DEF r, d
    <2> QED
      BY <1>9, <1>11, <2>1 DEF BatchGood, d
  <1> QED
    BY <1>1, <1>3, <1>12, CurIdle, ContentQuiet DEF Planned, Importing
-----------------------------------------------------------------------------
\* The row of a planning step, the row it replaces, and its blob.
LEMMA AddedIs ==
  ASSUME TypeInv, BlobInv, ContentInv, mpc = "plan", NEW s \in Slots, NEW r, NEW l,
         NEW w \in Wire, NEW v \in Wire, Added(s, r, l, w, v)
  PROVE  LET old == rows[s]  nb == Len(blob[r.blob].units) IN
         /\ r \in Row /\ l \in Plan /\ old \in Row /\ RowOK(World, old)
         /\ r.digest = old.digest /\ r.n = w.n /\ r.ino = w.ino
         /\ old.id = r.id => old.blob = r.blob
         /\ old.id = <<>> => ~ Known(old.digest)
         /\ r.blob # 0 => blob[r.blob].wire.n = nb /\ nb \in Nat
         /\ World.blob = blob /\ World.loki = loki
  <1>1. /\ r \in Row /\ l \in Plan /\ r.digest = rows[s].digest /\ r.n = w.n /\ r.ino = w.ino
        /\ r.id # <<>> /\ r.blob = BlobIx(blob, r.id) /\ r.blob \in Paths \cup {0}
    BY DEF Added, Unchanged, PlanSrc
  <1>2. rows[s] \in Row /\ RowOK(World, rows[s]) /\ GoodRow(blob, loki, rows[s])
    BY DEF TypeInv, TypeOK, ContentInv, RowsGood, BlobInv, RowsBlob
  <1>3. /\ rows[s].id = r.id => rows[s].blob = r.blob
        /\ rows[s].id = <<>> => ~ Known(rows[s].digest)
    BY <1>1, <1>2 DEF GoodRow, RowShape, Known
  <1>4. ASSUME r.blob # 0
        PROVE  blob[r.blob].wire.n = Len(blob[r.blob].units) /\ Len(blob[r.blob].units) \in Nat
    <2>1. r.blob \in Paths /\ blob[r.blob].st # "none"
      BY <1>1, <1>4 DEF BlobIx
    <2>2. blob[r.blob].st \in {"captured", "released"}
      BY <2>1 DEF BlobInv, PhaseInv, TypeInv, TypeOK
    <2>3. blob[r.blob].units \in Units
      BY <2>1 DEF TypeInv, TypeOK, Blob
    <2> QED
      BY <2>1, <2>2, <2>3 DEF ContentInv, GuestOK, Units
  <1> QED
    BY <1>1, <1>2, <1>3, <1>4 DEF World

\* A row that is kept for a wire, and its plan.
LEMMA KeptContent ==
  ASSUME TypeInv, BlobInv, ContentInv, mpc = "plan", NEW s \in Slots, NEW r, NEW l,
         NEW w \in Wire, w # NoWire, Added(s, r, l, w, w), KeptRow(s, r, l, w, w),
         SameGeneration(rows[s], w)
  PROVE  RowOK(World, r) /\ PlanOK(World, r, l)
  <1> DEFINE old == rows[s]
             D == r.digest
             nb == Len(blob[r.blob].units)
  <1>1. /\ r \in Row /\ l \in Plan /\ old \in Row /\ RowOK(World, old)
        /\ D = old.digest /\ r.n = w.n /\ r.ino = w.ino
        /\ old.id = r.id => old.blob = r.blob
        /\ r.blob # 0 => blob[r.blob].wire.n = nb /\ nb \in Nat
        /\ World.blob = blob /\ World.loki = loki
    BY AddedIs
  <1>2. /\ r.id = old.id /\ r.off = old.off /\ r.done = old.done /\ r.ack = old.ack
        /\ r.csize = old.csize /\ r.blob = old.blob
        /\ l.vs = IF MustVerify(old, w) THEN D ELSE Unknown
    BY <1>1 DEF KeptRow
  <1>3. old.ino = w.ino /\ old.n <= w.n /\ old.n \in Nat /\ w.n \in Nat /\ r.csize \in Nat
    <2>1. old.n \in Nat /\ r.csize \in Nat
      BY <1>1 DEF Row
    <2>2. w.n \in Nat
      BY DEF Wire
    <2>3. old.ino = w.ino /\ old.n <= w.n
      BY <2>1, <2>2 DEF SameGeneration
    <2> QED
      BY <2>1, <2>2, <2>3
  <1>4. /\ l.read = SelectRead(r, r.blob, w) /\ l.blob = r.blob /\ l.wire = w
        /\ l.raw = IF l.read = "blob" THEN blob[r.blob].wire.n
                   ELSE IF l.read = "live" THEN w.n ELSE 0
        /\ l.cfc <=> CompleteFor(r, w)
    BY DEF Added
  <1>5. Known(D) <=> D # Unknown
    BY DEF Known
  <1> HIDE DEF old, D, nb
  <1>6. RowOK(World, r)
    <2>1. Progress(World, r)
      BY <1>1, <1>2, <1>3 DEF RowOK, Progress, D
    <2>2. BlobProgress(World, r)
      <3> SUFFICES ASSUME r.blob # 0
                   PROVE  /\ r.done => r.off >= nb
                          /\ ~ r.done \/ ~ Known(D) \/ r.csize > r.n => r.off <= nb
                          /\ Known(D) => nb <= Len(D) /\ Sent(loki, D, nb)
                          /\ r.ack /\ ~ r.done /\ Known(D) => Len(D) = nb
        BY <1>1 DEF BlobProgress, D, nb
      <3>1. /\ old.done => old.off >= nb
            /\ ~ old.done \/ ~ Known(D) \/ old.csize > old.n => old.off <= nb
            /\ Known(D) => nb <= Len(D) /\ Sent(loki, D, nb)
            /\ old.ack /\ ~ old.done /\ Known(D) => Len(D) = nb
        BY <1>1, <1>2 DEF RowOK, BlobProgress, D, nb
      <3> QED
        BY <1>1, <1>2, <1>3, <3>1
    <2>3. PlainProgress(r)
      BY <1>1, <1>2, <1>3 DEF RowOK, PlainProgress, D
    <2>4. AckSize(World, r)
      <3>1. Known(D) => Len(D) \in Nat
        BY <1>1 DEF Row, Units, D
      <3> QED
        BY <1>1, <1>2, <1>3, <3>1 DEF RowOK, AckSize, D
    <2> QED
      BY <2>1, <2>2, <2>3, <2>4 DEF RowOK
  <1> SUFFICES PlanOK(World, r, l)
    BY <1>6
  <1>7. CASE l.cfc
    BY <1>2, <1>3, <1>4, <1>5, <1>7 DEF PlanOK, CompleteFor, PrefixComplete, SelectRead, D
  <1>8. CASE ~ l.cfc
    <2>1. ~ CompleteFor(r, w)
      BY <1>4, <1>8
    <2>2. PrefixComplete(r) <=> Known(D) /\ r.done
      BY <1>5 DEF PrefixComplete, D
    <2>3. PrefixComplete(r) => r.csize # w.n
      BY <1>1, <2>1 DEF CompleteFor
    <2>4. CASE r.blob # 0 /\ l.read = "live"
      <3>1. PrefixComplete(r) /\ w.n > r.csize
        BY <1>4, <2>1, <2>4 DEF SelectRead
      <3>2. MustVerify(old, w)
        BY <1>1, <1>2, <1>5, <2>2, <3>1 DEF MustVerify
      <3> QED
        BY <1>2, <1>4, <1>8, <2>2, <2>4, <3>1, <3>2 DEF PlanOK, LiveRead, D
    <2>5. CASE r.blob # 0 /\ l.read = "blob"
      <3>1. PrefixComplete(r) => ~ (w.n > r.csize)
        BY <1>4, <2>1, <2>5 DEF SelectRead
      <3>2. ~ r.done \/ ~ Known(D) \/ r.csize > r.n
        BY <1>1, <1>3, <2>2, <2>3, <3>1
      <3>3. r.off <= nb
        BY <1>1, <1>6, <2>5, <3>2 DEF RowOK, BlobProgress, D, nb
      <3> QED
        BY <1>1, <1>4, <1>8, <2>5, <3>3 DEF PlanOK, BlobRead, nb
    <2>6. CASE r.blob = 0
      <3>1. l.read = "live"
        BY <1>4, <2>1, <2>6 DEF SelectRead
      <3>2. ~ MustVerify(old, w) => ~ Known(D)
        <4> SUFFICES ASSUME ~ MustVerify(old, w), Known(D) PROVE FALSE
          OBVIOUS
        <4>1. ~ (w.n > old.csize) /\ old.done
          BY <1>1, <1>5 DEF MustVerify
        <4>2. old.csize <= old.n
          BY <1>1, <1>2, <2>6, <4>1 DEF RowOK, PlainProgress
        <4>3. r.csize = w.n
          BY <1>2, <1>3, <4>1, <4>2
        <4> QED
          BY <1>2, <2>2, <2>3, <4>1, <4>3
      <3>3. l.vs = D
        BY <1>2, <3>2 DEF Known
      <3> QED
        BY <1>4, <1>8, <2>6, <3>1, <3>3 DEF PlanOK, LiveRead, D
    <2>7. CASE r.blob # 0 /\ l.read = "none"
      BY <1>8, <2>7 DEF PlanOK
    <2> QED
      BY <1>1, <2>4, <2>5, <2>6, <2>7 DEF Plan
  <1> QED
    BY <1>7, <1>8
-----------------------------------------------------------------------------
\* A row that is kept for a manifest entry without a wire.
LEMMA KeptBlobContent ==
  ASSUME TypeInv, BlobInv, ContentInv, mpc = "plan", NEW s \in Slots, NEW r, NEW l,
         NEW w \in Wire, Added(s, r, l, w, NoWire), KeptRow(s, r, l, w, NoWire),
         r.blob # 0, ~ PrefixComplete(rows[s])
  PROVE  RowOK(World, r) /\ PlanOK(World, r, l)
  <1> DEFINE old == rows[s]
             D == r.digest
             nb == Len(blob[r.blob].units)
  <1>1. /\ r \in Row /\ l \in Plan /\ old \in Row /\ RowOK(World, old)
        /\ D = old.digest /\ r.n = w.n /\ r.ino = w.ino
        /\ old.id = r.id => old.blob = r.blob
        /\ blob[r.blob].wire.n = nb /\ nb \in Nat
        /\ World.blob = blob /\ World.loki = loki
    BY AddedIs, Empties
  <1>2. /\ r.id = old.id /\ r.off = old.off /\ r.done = old.done /\ r.ack = old.ack
        /\ r.csize = old.csize /\ r.blob = old.blob
    BY <1>1 DEF KeptRow
  <1>3. ~ (Known(D) /\ r.done)
    BY <1>1, <1>2 DEF PrefixComplete, Known
  <1>4. /\ l.read = SelectRead(r, r.blob, NoWire) /\ l.blob = r.blob /\ ~ l.cfc
        /\ l.raw = IF l.read = "blob" THEN blob[r.blob].wire.n
                   ELSE IF l.read = "live" THEN NoWire.n ELSE 0
    BY DEF Added
  <1>5. l.read = "blob"
    BY <1>3, <1>4 DEF SelectRead, PrefixComplete, Known, D
  <1> HIDE DEF old, D, nb
  <1>6. /\ old.off <= nb
        /\ Known(D) => nb <= Len(D) /\ Sent(loki, D, nb)
        /\ old.ack /\ ~ old.done /\ Known(D) => Len(D) = nb
    BY <1>1, <1>2, <1>3 DEF RowOK, BlobProgress, D, nb
  <1>7. BlobProgress(World, r)
    <2>1. r.done => r.off >= nb
      BY <1>1, <1>2 DEF RowOK, BlobProgress, nb
    <2> QED
      BY <1>1, <1>2, <1>6, <2>1 DEF BlobProgress, D, nb
  <1>8. Progress(World, r)
    <2> SUFFICES ASSUME Known(D)
                 PROVE  Old(World, D) /\ r.off <= Len(D) /\ Sent(loki, D, r.off)
      BY <1>1, <1>3 DEF Progress, D
    <2>1. Old(World, D)
      BY <1>1 DEF RowOK, Progress, D
    <2>2. r.off \in Nat /\ Len(D) \in Nat /\ r.off <= nb
      BY <1>1, <1>2, <1>6 DEF Row, Units, D
    <2>3. r.off <= Len(D)
      BY <1>1, <1>6, <2>2
    <2>4. Sent(loki, D, r.off)
      BY <1>1, <1>6, <2>2 DEF Sent
    <2> QED
      BY <2>1, <2>3, <2>4
  <1>9. PlainProgress(r) /\ AckSize(World, r)
    BY <1>3 DEF PlainProgress, AckSize, D
  <1>10. PlanOK(World, r, l)
    <2>1. BlobRead(World, r, l)
      BY <1>1, <1>2, <1>4, <1>5, <1>6 DEF BlobRead, nb
    <2> QED
      BY <1>4, <1>5, <2>1 DEF PlanOK
  <1> QED
    BY <1>7, <1>8, <1>9, <1>10 DEF RowOK

\* A new row, and its plan.
LEMMA NewContent ==
  ASSUME TypeInv, BlobInv, ContentInv, mpc = "plan", NEW s \in Slots, NEW r, NEW l,
         NEW w \in Wire, NEW v \in Wire, Added(s, r, l, w, v), NewRow(s, r, l),
         r.blob = 0 => rows[s].id = <<>> /\ v # NoWire
  PROVE  RowOK(World, r) /\ PlanOK(World, r, l)
  <1> DEFINE old == rows[s]
             D == r.digest
             nb == Len(blob[r.blob].units)
  <1>1. /\ r \in Row /\ l \in Plan /\ old \in Row /\ RowOK(World, old)
        /\ D = old.digest
        /\ old.id = r.id => old.blob = r.blob
        /\ old.id = <<>> => ~ Known(D)
        /\ r.blob # 0 => blob[r.blob].wire.n = nb /\ nb \in Nat
        /\ World.blob = blob /\ World.loki = loki
    BY AddedIs
  <1>2. /\ r.off = 0 /\ ~ r.done /\ ~ r.ack /\ l.vs = Unknown /\ old.id \in {<<>>, r.id}
    BY DEF NewRow
  <1>3. /\ l.read = SelectRead(r, r.blob, v) /\ l.blob = r.blob /\ l.wire = v
        /\ l.raw = IF l.read = "blob" THEN blob[r.blob].wire.n
                   ELSE IF l.read = "live" THEN v.n ELSE 0
        /\ l.cfc <=> v # NoWire /\ CompleteFor(r, v)
    BY DEF Added
  <1>4. ~ PrefixComplete(r) /\ ~ CompleteFor(r, v)
    BY <1>2 DEF PrefixComplete, CompleteFor
  <1>5. ~ l.cfc /\ l.read = IF r.blob # 0 THEN "blob" ELSE "live"
    BY <1>3, <1>4 DEF SelectRead
  <1>6. r.blob = 0 => ~ Known(D)
    BY <1>1
  <1> HIDE DEF old, D, nb
  <1>7. Known(D) => old.blob = r.blob /\ r.blob # 0
    BY <1>1, <1>2, <1>6
  <1>8. Progress(World, r)
    <2> SUFFICES ASSUME Known(D)
                 PROVE  Old(World, D) /\ r.off <= Len(D) /\ Sent(loki, D, r.off)
      BY <1>1, <1>2 DEF Progress, D
    <2>1. Old(World, D)
      BY <1>1 DEF RowOK, Progress, D
    <2>2. Len(D) \in Nat
      BY <1>1 DEF Row, Units, D
    <2> QED
      BY <1>2, <2>1, <2>2 DEF Sent
  <1>9. BlobProgress(World, r)
    <2> SUFFICES ASSUME r.blob # 0
                 PROVE  r.off <= nb /\ (Known(D) => nb <= Len(D) /\ Sent(loki, D, nb))
      BY <1>1, <1>2 DEF BlobProgress, D, nb
    <2>1. r.off <= nb
      BY <1>1, <1>2
    <2>2. Known(D) => nb <= Len(D) /\ Sent(loki, D, nb)
      BY <1>1, <1>7 DEF RowOK, BlobProgress, D, nb
    <2> QED
      BY <2>1, <2>2
  <1>10. PlainProgress(r) /\ AckSize(World, r)
    BY <1>2 DEF PlainProgress, AckSize
  <1>11. PlanOK(World, r, l)
    <2>1. CASE r.blob # 0
      <3>1. BlobRead(World, r, l)
        BY <1>1, <1>2, <1>3, <1>5, <2>1 DEF BlobRead, nb
      <3> QED
        BY <1>5, <2>1, <3>1 DEF PlanOK
    <2>2. CASE r.blob = 0
      <3>1. l.read = "live" /\ LiveRead(r, l)
        BY <1>3, <1>5, <2>2 DEF LiveRead
      <3>2. l.vs = D
        BY <1>2, <1>6, <2>2 DEF Known
      <3> QED
        BY <1>5, <3>1, <3>2 DEF PlanOK, D
    <2> QED
      BY <2>1, <2>2
  <1> QED
    BY <1>8, <1>9, <1>10, <1>11 DEF RowOK

\* A planning step that stores one good row and adds its plan.
LEMMA PlanAddedContent ==
  ASSUME TypeInv, BlobInv, ContentInv, mpc = "plan", NEW s \in Slots, NEW r, NEW l,
         NEW w \in Wire, NEW v \in Wire, Added(s, r, l, w, v),
         RowOK(World, r), PlanOK(World, r, l), v \in todo \cup {NoWire}, todo' \subseteq todo,
         UNCHANGED <<at, data, mtime, open, clock, loki, blob, pend, mpc, cur, covered>>
  PROVE  ContentInv'
  <1>1. World' = World
    BY WorldSame
  <1>2. Grows(World, World')
    BY <1>1, StaysWorld
  <1>3. /\ Same(rows'[s], r) /\ \A x \in Slots : x # s => Same(rows'[x], rows[x])
        /\ plans' = plans \cup {l} /\ \A k \in plans : k.src # s
        /\ l.src = s /\ l.wire = v
    BY DEF Added
  <1> DEFINE c == rows'[s]
  <1>4. Same(c, r)
    BY <1>3
  <1> HIDE DEF c
  <1>5. RowOK(World, c) /\ PlanOK(World, c, l)
    BY <1>4 DEF Same, RowOK, Progress, BlobProgress, PlainProgress, AckSize, PlanOK, BlobRead,
                LiveRead
  <1>6. RowsGood'
    BY <1>1, <1>2, <1>3, <1>5, ContentFrame DEF c
  <1>7. PlansGood'
    <2>1. \A k \in plans : k.src \in Slots
      BY DEF TypeInv, RefInv, PlanSrc
    <2>2. \A k \in plans' : k \in plans \/ k = l
      BY <1>3
    <2>3. PlanOK(World', rows'[l.src], l)
      BY <1>1, <1>3, <1>5 DEF c
    <2>4. \A k \in plans : Same(rows'[k.src], rows[k.src])
      BY <1>3, <2>1
    <2> QED
      BY <1>2, <2>2, <2>3, <2>4, ContentFrame DEF Planned
  <1>8. BatchGood'
    BY DEF BlobInv, PhaseInv, Planned, BatchGood
  <1>9. CoverGood'
    BY <1>2, ContentFrame
  <1>10. GuestOK'
    BY GuestKept DEF ContentInv
  <1>11. WiresOK'
    BY <1>3, WiresKept DEF ContentInv
  <1>12. CurGood'
    BY CurIdle DEF Importing
  <1> QED
    BY <1>6, <1>7, <1>8, <1>9, <1>10, <1>11, <1>12 DEF ContentInv

LEMMA PlanWireContent ==
  ASSUME TypeInv, BlobInv, OwnInv, OwnRows', ContentInv, NEW w \in todo, PlanWire(w)
  PROVE  ContentInv'
  <1>1. /\ mpc = "plan" /\ todo' = todo \ {w}
        /\ UNCHANGED <<at, data, mtime, open, clock, loki, cap, blob, pend, mpc, recs, cur,
                       got, covered>>
        /\ w \in Wire /\ w # NoWire
    BY PlanWireIs, RealWire
  <1>2. CASE UNCHANGED <<rows, plans>>
    BY <1>1, <1>2, CurIdle, ContentQuiet DEF Importing
  <1>3. ASSUME NEW s \in Slots, NEW r, NEW l, Added(s, r, l, w, w),
               \/ KeptRow(s, r, l, w, w) /\ SameGeneration(rows[s], w)
               \/ NewRow(s, r, l) /\ (r.blob = 0 => rows[s].id = <<>>)
        PROVE  ContentInv'
    <2>1. RowOK(World, r) /\ PlanOK(World, r, l)
      BY <1>1, <1>3, KeptContent, NewContent
    <2> QED
      BY <1>1, <1>3, <2>1, PlanAddedContent
  <1> QED
    BY <1>2, <1>3, PlanWireAdds

LEMMA PlanBlobContent ==
  ASSUME TypeInv, BlobInv, OwnInv, ContentInv, NEW p \in Paths, PlanBlob(p)
  PROVE  ContentInv'
  <1>0. p # 0
    BY ImportAssumption DEF Paths
  <1>1. /\ mpc = "plan"
        /\ UNCHANGED <<at, data, mtime, open, clock, loki, cap, blob, pend, mpc, todo, recs,
                       cur, got, covered>>
    BY PlanBlobIs
  <1>2. blob[p].wire \in Wire /\ NoWire \in Wire
    BY Empties DEF TypeInv, TypeOK, Blob
  <1>3. ASSUME NEW s \in Slots, NEW r, NEW l, Added(s, r, l, blob[p].wire, NoWire), r.blob = p,
               \/ KeptRow(s, r, l, blob[p].wire, NoWire) /\ ~ PrefixComplete(rows[s])
               \/ NewRow(s, r, l) /\ rows[s].id = <<>>
        PROVE  ContentInv'
    <2>1. RowOK(World, r) /\ PlanOK(World, r, l)
      BY <1>0, <1>1, <1>2, <1>3, KeptBlobContent, NewContent
    <2> QED
      BY <1>1, <1>2, <1>3, <2>1, PlanAddedContent
  <1> QED
    BY <1>3, PlanBlobAdds
-----------------------------------------------------------------------------
\* Two sequences of units that agree are one.
LEMMA UnitsEqual ==
  ASSUME NEW q \in Units, NEW p \in Units, Len(q) = Len(p), \A j \in 1 .. Len(q) : q[j] = p[j]
  PROVE  q = p
  BY SeqEqual DEF Units

\* What is covered has been sent, and is as long as the file.
LEMMA CoversContent ==
  ASSUME CoverGood, UNCHANGED loki, NEW l \in Plan, NEW r \in Row, NEW T,
         RowOK(World, r), PlanRow(r, l, T), covered' \in {covered, CoveredBy(l, r)}
  PROVE  CoverGood'
  <1>1. ASSUME Covers(r, l.wire)
        PROVE  Len(r.digest) = l.wire.n /\ Sent(loki, r.digest, Len(r.digest))
    <2>1. /\ l.wire # NoWire /\ Known(r.digest) /\ r.ack /\ r.done /\ r.csize = l.wire.n
      BY <1>1 DEF Covers, CompleteFor, PrefixComplete, Known
    <2>2. r.n = l.wire.n
      BY <2>1 DEF PlanRow, Unchanged
    <2>3. r.csize <= Len(r.digest) /\ Sent(World.loki, r.digest, r.csize)
      BY <2>1 DEF RowOK, Progress
    <2>4. Len(r.digest) = r.csize \/ Len(r.digest) <= r.n
      BY <2>1 DEF RowOK, AckSize
    <2>5. Len(r.digest) \in Nat /\ r.n \in Nat
      BY DEF Row, Units
    <2>6. Len(r.digest) = l.wire.n
      BY <2>1, <2>2, <2>3, <2>4, <2>5
    <2> QED
      BY <2>1, <2>3, <2>6 DEF World
  <1>2. \A c \in covered' : c \in covered \/
           (Covers(r, l.wire) /\ c.n = l.wire.n /\ c.digest = r.digest)
    BY DEF CoveredBy
  <1> QED
    BY <1>1, <1>2 DEF CoverGood

LEMMA PickContent ==
  ASSUME TypeInv, BlobInv, OwnInv, ContentInv, NEW l \in plans, PickPlan(l)
  PROVE  ContentInv'
  <1> DEFINE r == rows[l.src]
  <1>1. /\ mpc = "next" /\ plans' \subseteq plans
        /\ UNCHANGED <<at, data, mtime, open, clock, loki, rows, cap, blob, pend, todo, recs, got>>
    BY DEF PickPlan
  <1>2. \/ mpc' = "next" /\ cur' = cur /\ covered' \in {covered, CoveredBy(l, r)}
        \/ mpc' = "prepare" /\ cur' = l /\ covered' = covered
           /\ (l.read = "live" \/ (l.cfc /\ l.vs # Unknown))
        \/ mpc' = "read" /\ cur' = l /\ covered' = covered /\ l.read = "blob"
    BY <1>1 DEF PickPlan
  <1>3. /\ l \in Plan /\ r \in Row /\ RowOK(World, r) /\ PlanRow(r, l, todo) /\ PlanOK(World, r, l)
    BY <1>1 DEF TypeInv, TypeOK, RefInv, PlanSrc, ContentInv, RowsGood, PlansGood, OwnInv, PlansOwn,
                Planned
  <1>4. World' = World
    BY <1>1, WorldSame
  <1>5. CurGood'
    <2>1. CASE mpc' = "next"
      BY <2>1, CurIdle DEF Importing
    <2>2. CASE mpc' = "prepare"
      <3>1. rows'[cur'.src] = r /\ cur' = l /\ (l.read = "live" \/ (l.cfc /\ l.vs # Unknown))
        BY <1>1, <1>2, <2>2
      <3> HIDE DEF r
      <3> QED
        BY <1>3, <1>4, <2>2, <3>1 DEF CurGood, Reading
    <2>3. CASE mpc' = "read"
      <3>1. rows'[cur'.src] = r /\ cur' = l /\ l.read = "blob"
        BY <1>1, <1>2, <2>3
      <3> HIDE DEF r
      <3>2. ReadOK(World, r, l)
        BY <1>3, <3>1 DEF PlanOK, ReadOK
      <3> QED
        BY <1>4, <2>3, <3>1, <3>2 DEF CurGood, Reading
    <2> QED
      BY <1>2, <2>1, <2>2, <2>3
  <1>6. CoverGood'
    <2>1. CoverGood
      BY DEF ContentInv
    <2>2. covered' \in {covered, CoveredBy(l, r)}
      BY <1>2
    <2> HIDE DEF r
    <2> QED
      BY <1>1, <1>3, <2>1, <2>2, CoversContent
  <1> QED
    BY <1>1, <1>2, <1>5, <1>6, ContentQuiet DEF Planned

\* A prefix g that has been read and found to start with what was vouched for.
LEMMA VerifiedPrefix ==
  ASSUME NEW E, NEW r \in Row, NEW l \in Plan, NEW T, NEW g \in Units, RowOK(E, r),
         PlanOK(E, r, l), PlanRow(r, l, T), l.read = "live" \/ (l.cfc /\ l.vs # Unknown),
         Len(g) = l.wire.n, l.wire.ino \in Inodes, Old(E, g), Len(E.data[l.wire.ino]) \in Nat,
         Len(g) <= Len(E.data[l.wire.ino]),
         \A j \in 1 .. Len(g) : E.data[l.wire.ino][j] = g[j],
         l.vs = Unknown \/ (l.wire.n >= l.vn /\ First(g, l.vn) = l.vs),
         r.blob # 0 => E.blob[r.blob].units \in Units
  PROVE  Verified(E, r, l, g)
  <1> DEFINE D == r.digest
             nb == Len(E.blob[r.blob].units)
  <1>0. /\ D \in Units /\ r.off \in Nat /\ r.csize \in Nat
        /\ l.wire.n \in Nat /\ l.vn \in Nat
    BY DEF Row, Plan, Wire
  <1>1. /\ D \in Units /\ Len(D) \in Nat /\ r.off \in Nat /\ r.csize \in Nat /\ l.wire.n \in Nat
        /\ l.vn \in Nat /\ (r.blob # 0 => nb \in Nat) /\ Len(g) \in Nat
    BY <1>0 DEF Units
  <1>2. l.wire # NoWire /\ (l.read = "live" => l.raw = l.wire.n)
    BY DEF PlanOK, LiveRead
  <1>3. Still(E, l.wire, g)
    BY <1>1 DEF Still
  <1>4. CASE l.vs = Unknown
    <2>1. l.read = "live" /\ ~ l.cfc /\ ~ Known(D) /\ r.blob = 0
      BY <1>4 DEF PlanOK, LiveRead, Known
    <2>2. r.off = 0 /\ ~ r.done
      BY <2>1 DEF RowOK, PlainProgress
    <2>3. Sent(E.loki, g, r.off)
      BY <2>2 DEF Sent
    <2> QED
      BY <1>1, <1>2, <1>3, <2>1, <2>2, <2>3 DEF Verified
  <1>5. CASE l.vs # Unknown
    <2>1. /\ Known(D) /\ l.vs = D /\ (r.blob # 0 => r.done)
          /\ l.cfc => r.done /\ r.csize = l.wire.n
      BY <1>5 DEF PlanOK, LiveRead, Known
    <2>2. Len(D) <= Len(g) /\ \A j \in 1 .. Len(D) : D[j] = g[j]
      <3>1. l.vn <= Len(g) /\ First(g, l.vn) = D
        BY <1>1, <1>5, <2>1
      <3>2. Len(D) = l.vn
        BY <1>1, <3>1, FirstIs
      <3>3. \A j \in 1 .. Len(First(g, l.vn)) : First(g, l.vn)[j] = g[j]
        BY <1>1, FirstIs
      <3> QED
        BY <3>1, <3>2, <3>3
    <2>3. Shows(E, r.ino, D)
      <3>1. r.ino = l.wire.ino
        BY <1>2 DEF PlanRow, Unchanged
      <3>2. Len(D) <= Len(E.data[r.ino])
        BY <1>1, <2>2, <3>1
      <3>3. ASSUME NEW j \in 1 .. Len(D) PROVE E.data[r.ino][j] = D[j]
        <4>1. j \in 1 .. Len(g)
          BY <1>1, <2>2
        <4> QED
          BY <2>2, <3>1, <4>1
      <3> QED
        BY <3>1, <3>2, <3>3 DEF Shows
    <2>4. /\ r.off <= Len(D) /\ Sent(E.loki, D, r.off)
          /\ r.done => r.csize <= Len(D) /\ Sent(E.loki, D, r.csize)
          /\ r.blob # 0 => nb <= Len(D) /\ Sent(E.loki, D, nb)
      BY <2>1, <2>3 DEF RowOK, Progress, BlobProgress
    <2> HIDE DEF nb, D
    <2>5. ASSUME NEW k \in Nat, k <= Len(D), Sent(E.loki, D, k) PROVE Sent(E.loki, g, k)
      <3> SUFFICES ASSUME NEW j \in 1 .. Len(g), j <= k PROVE g[j] \in E.loki
        BY DEF Sent
      <3>1. j \in 1 .. Len(D)
        BY <1>1, <2>5
      <3> QED
        BY <2>2, <2>5, <3>1 DEF Sent
    <2>6. /\ r.off <= Len(g) /\ Sent(E.loki, g, r.off)
          /\ r.done => r.csize <= Len(g) /\ Sent(E.loki, g, r.csize)
          /\ r.blob # 0 => nb <= Len(g) /\ Sent(E.loki, g, nb)
      BY <1>1, <2>2, <2>4, <2>5
    <2>7. l.cfc => g = D
      <3> SUFFICES ASSUME l.cfc PROVE g = D
        OBVIOUS
      <3>1. Len(D) = Len(g)
        BY <1>1, <2>1, <2>2, <2>4
      <3> QED
        BY <1>1, <2>2, <3>1, UnitsEqual
    <2>8. ~ l.cfc => l.read = "live"
      OBVIOUS
    <2> QED
      BY <1>2, <1>3, <2>1, <2>6, <2>7, <2>8 DEF Verified, nb, D
  <1> QED
    BY <1>4, <1>5
-----------------------------------------------------------------------------
LEMMA VerifyContent == TypeInv /\ BlobInv /\ OwnInv /\ ContentInv /\ VerifyPrefix => ContentInv'
  <1> SUFFICES ASSUME TypeInv, BlobInv, OwnInv, ContentInv, VerifyPrefix PROVE ContentInv'
    OBVIOUS
  <1> DEFINE r == rows[cur.src]
             w == cur.wire
             g == First(data[w.ino], w.n)
             no == [r EXCEPT !.conf = TRUE]
             yes == [r EXCEPT !.vsize = w.n, !.conf = FALSE]
  <1>1. /\ mpc = "prepare"
        /\ UNCHANGED <<at, data, mtime, open, clock, loki, cap, blob, pend, todo, plans, covered>>
    BY DEF VerifyPrefix
  <1>2. /\ cur # NoPlan /\ cur \in Plan /\ r \in Row /\ RefOK(r) /\ RowOK(World, r)
        /\ PlanRow(r, cur, todo)
    BY <1>1, SourceIs DEF Importing
  <1>3. PlanOK(World, r, cur) /\ (cur.read = "live" \/ (cur.cfc /\ cur.vs # Unknown))
    BY <1>1 DEF ContentInv, CurGood
  <1>4. \/ mpc' = "release" /\ cur' = NoPlan /\ UNCHANGED rows
        \/ rows' = Put(cur.src, no) /\ mpc' = "release" /\ cur' = NoPlan
        \/ /\ rows' = Put(cur.src, yes) /\ mpc' = "digest" /\ UNCHANGED cur /\ got' = g
           /\ Readable(w)
           /\ cur.vs = Unknown \/ (w.n >= cur.vn /\ First(g, cur.vn) = cur.vs)
    BY DEF VerifyPrefix
  <1>5. /\ no \in Row /\ RowOK(World, no)
        /\ yes \in Row /\ yes.off = r.off /\ yes.done = r.done /\ yes.csize = r.csize
        /\ yes.digest = r.digest /\ yes.blob = r.blob
        /\ RowOK(World, yes)
    <2>1. /\ no \in Row /\ no.off = r.off /\ no.done = r.done /\ no.csize = r.csize
          /\ no.digest = r.digest /\ no.blob = r.blob /\ no.ino = r.ino /\ no.n = r.n
          /\ no.ack = r.ack
      BY <1>2 DEF Row
    <2>2. w.n \in Nat
      BY <1>2 DEF Plan, Wire
    <2>3. /\ yes \in Row /\ yes.off = r.off /\ yes.done = r.done /\ yes.csize = r.csize
          /\ yes.digest = r.digest /\ yes.blob = r.blob /\ yes.ino = r.ino /\ yes.n = r.n
          /\ yes.ack = r.ack
      BY <1>2, <2>2 DEF Row
    <2> HIDE DEF no, yes
    <2>4. RowOK(World, no) /\ RowOK(World, yes)
      BY <1>2, <2>1, <2>3 DEF RowOK, Progress, BlobProgress, PlainProgress, AckSize
    <2> QED
      BY <2>1, <2>3, <2>4
  <1> HIDE DEF no, yes
  <1>6. CASE mpc' = "release" /\ cur' = NoPlan /\ UNCHANGED rows
    BY <1>1, <1>6, CurIdle, ContentQuiet DEF Planned, Importing
  <1>7. CASE rows' = Put(cur.src, no) /\ mpc' = "release" /\ cur' = NoPlan
    BY <1>1, <1>5, <1>7, CurIdle, ContentWrite DEF Importing
  <1>8. CASE /\ rows' = Put(cur.src, yes) /\ mpc' = "digest" /\ UNCHANGED cur /\ got' = g
             /\ Readable(w)
             /\ cur.vs = Unknown \/ (w.n >= cur.vn /\ First(g, cur.vn) = cur.vs)
    <2>1. /\ w.ino \in Inodes /\ Len(data[w.ino]) >= w.n /\ w.n \in Nat
          /\ data[w.ino] \in Units
      BY <1>2, <1>8 DEF Readable, HasFile, TypeInv, TypeOK, Plan, Wire
    <2>2. /\ g \in Units /\ Len(g) = w.n /\ \A j \in 1 .. Len(g) : g[j] = data[w.ino][j]
      BY <2>1, FirstIs
    <2>3. World.data = data /\ World.blob = blob
      BY DEF World
    <2>4. Len(data[w.ino]) \in Nat /\ Len(g) \in Nat
      BY <2>1, <2>2 DEF Units
    <2>5. Old(World, g)
      <3>1. Old(World, data[w.ino])
        BY <2>1 DEF ContentInv, GuestOK
      <3> QED
        BY <2>1, <2>2, <2>4, <3>1 DEF Old
    <2>6. r.blob # 0 => blob[r.blob].units \in Units
      BY <1>2 DEF RefOK, TypeInv, TypeOK, Blob
    <2> HIDE DEF g, r
    <2>7. Verified(World, r, cur, g)
      BY <1>2, <1>3, <1>8, <2>1, <2>2, <2>3, <2>4, <2>5, <2>6, VerifiedPrefix
    <2> DEFINE x == rows'[cur.src]
    <2>8. Same(x, yes)
      BY <1>1, <1>5, <1>8, SourceIs, PutIs DEF Importing, TypeInv, TypeOK
    <2> HIDE DEF x
    <2>9. Verified(World, x, cur, g)
      BY <1>5, <2>7, <2>8 DEF Verified, Same
    <2>10. World' = World
      BY <1>1, WorldSame
    <2>11. CurGood'
      BY <1>8, <2>9, <2>10 DEF CurGood, Reading, x
    <2> QED
      BY <1>1, <1>5, <1>8, <2>11, ContentWrite DEF Importing
  <1> QED
    BY <1>4, <1>6, <1>7, <1>8

\* The row q of a source whose whole prefix g has been verified.
LEMMA DigestRow ==
  ASSUME NEW E, NEW r \in Row, NEW q \in Row, NEW l, NEW T, NEW g \in Units,
         RowOK(E, r), Verified(E, r, l, g), PlanRow(r, l, T),
         q.off = r.off, q.done = r.done, q.csize = r.csize, q.blob = r.blob, q.ino = r.ino,
         q.n = r.n, q.ack = r.ack, q.digest = g
  PROVE  RowOK(E, q) /\ (~ l.cfc => ReadOK(E, q, l))
  <1>1. Known(g) /\ Len(g) = r.n /\ Len(g) \in Nat /\ r.csize \in Nat
    <2>1. Len(g) \in Nat /\ Known(g)
      BY OldKnown DEF Verified, Units
    <2>2. r.csize \in Nat
      BY DEF Row
    <2>3. Len(g) = r.n
      BY DEF Verified, PlanRow, Unchanged
    <2> QED
      BY <2>1, <2>2, <2>3
  <1>2. Progress(E, q)
    BY DEF Progress, Verified
  <1>3. BlobProgress(E, q)
    BY <1>1 DEF BlobProgress, RowOK, Verified
  <1>4. PlainProgress(q) /\ AckSize(E, q)
    BY <1>1 DEF PlainProgress, AckSize, Verified
  <1>5. ~ l.cfc => ReadOK(E, q, l)
    BY <1>1 DEF ReadOK, LiveRead, Verified
  <1> QED
    BY <1>2, <1>3, <1>4, <1>5 DEF RowOK

LEMMA DigestContent == TypeInv /\ BlobInv /\ OwnInv /\ ContentInv /\ SaveDigest => ContentInv'
  <1> SUFFICES ASSUME TypeInv, BlobInv, OwnInv, ContentInv, SaveDigest PROVE ContentInv'
    OBVIOUS
  <1> DEFINE r == rows[cur.src]
             q == [r EXCEPT !.digest = got]
             x == rows'[cur.src]
  <1>1. /\ mpc = "digest" /\ rows' = Put(cur.src, q)
        /\ UNCHANGED <<at, data, mtime, open, clock, loki, cap, blob, pend, todo, plans>>
        /\ IF cur.cfc THEN mpc' = "next" /\ cur' = NoPlan /\ covered' = CoveredBy(cur, x)
           ELSE mpc' = "read" /\ UNCHANGED <<cur, covered>>
    BY DEF SaveDigest
  <1>2. /\ cur # NoPlan /\ cur \in Plan /\ cur.src \in Slots /\ got \in Units /\ r \in Row
        /\ RowOK(World, r) /\ PlanRow(r, cur, todo)
    BY <1>1, SourceIs DEF Importing
  <1>3. Verified(World, r, cur, got)
    BY <1>1 DEF ContentInv, CurGood
  <1>4. /\ q \in Row /\ q.off = r.off /\ q.done = r.done /\ q.csize = r.csize /\ q.blob = r.blob
        /\ q.ino = r.ino /\ q.n = r.n /\ q.ack = r.ack /\ q.digest = got
        /\ q.path = r.path /\ q.m = r.m /\ q.act = r.act
    BY <1>2 DEF Row
  <1> HIDE DEF q
  <1>5. Same(x, q)
    BY <1>1, <1>2, <1>4, PutIs DEF TypeInv, TypeOK
  <1>6. x \in Row
    BY <1>1, <1>2, <1>4, PutIs DEF TypeInv, TypeOK
  <1>7. World' = World
    BY <1>1, WorldSame
  <1> HIDE DEF r, x
  <1>8. RowOK(World, q) /\ (~ cur.cfc => ReadOK(World, q, cur))
    BY <1>2, <1>3, <1>4, DigestRow
  <1>9. RowOK(World, x) /\ (~ cur.cfc => ReadOK(World, x, cur))
    <2>1. RowOK(World, x)
      BY <1>5, <1>8 DEF Same, RowOK, Progress, BlobProgress, PlainProgress, AckSize
    <2>2. ~ cur.cfc => ReadOK(World, x, cur)
      BY <1>5, <1>8 DEF Same, ReadOK, BlobRead, LiveRead
    <2> QED
      BY <2>1, <2>2
  <1>10. PlanRow(x, cur, todo)
    BY <1>2, <1>4, <1>5 DEF PlanRow, Same, Unchanged
  <1>11. CurGood'
    <2>1. CASE cur.cfc
      BY <1>1, <2>1, CurIdle DEF Importing
    <2>2. CASE ~ cur.cfc
      BY <1>1, <1>7, <1>9, <2>2 DEF CurGood, Reading, x
    <2> QED
      BY <2>1, <2>2
  <1>12. CoverGood'
    <2>1. CoverGood
      BY DEF ContentInv
    <2>2. covered' \in {covered, CoveredBy(cur, x)}
      BY <1>1
    <2> QED
      BY <1>1, <1>2, <1>6, <1>9, <1>10, <2>1, <2>2, CoversContent
  <1>13. cur' \in {cur, NoPlan}
    BY <1>1
  <1> QED
    BY <1>1, <1>4, <1>8, <1>11, <1>12, <1>13, ContentWrite DEF Importing

LEMMA ReadContent == TypeInv /\ BlobInv /\ OwnInv /\ ContentInv /\ ReadSource => ContentInv'
  <1> SUFFICES ASSUME TypeInv, BlobInv, OwnInv, ContentInv, ReadSource PROVE ContentInv'
    OBVIOUS
  <1> DEFINE r == rows[cur.src]
             w == cur.wire
             D == r.digest
  <1>1. /\ mpc = "read"
        /\ UNCHANGED <<at, data, mtime, open, clock, loki, rows, cap, blob, pend, todo, plans,
                       covered>>
    BY DEF ReadSource
  <1>2. \/ /\ cur.read = "blob" /\ blob[cur.blob].st = "captured"
           /\ got' = blob[cur.blob].units /\ mpc' = "save" /\ UNCHANGED cur
        \/ /\ cur.read = "live" /\ Readable(w)
           /\ got' = First(data[w.ino], w.n) /\ mpc' = "save" /\ UNCHANGED cur
        \/ mpc' = "next" /\ cur' = NoPlan
    BY DEF ReadSource
  <1>3. /\ cur # NoPlan /\ cur \in Plan /\ r \in Row /\ GoodRow(blob, loki, r)
        /\ ReadOK(World, r, cur)
    BY <1>1, SourceIs DEF Importing, ContentInv, CurGood
  <1>4. World' = World /\ World.data = data /\ World.blob = blob /\ World.loki = loki
        /\ World.at = at
    BY <1>1, WorldSame DEF World
  <1>5. rows'[cur.src] = r
    BY <1>1
  <1> HIDE DEF r
  <1>6. ASSUME mpc' = "save", cur' = cur, GotOK(World, r, cur, got') PROVE ContentInv'
    <2>1. CurGood'
      BY <1>4, <1>5, <1>6 DEF CurGood, Reading
    <2> QED
      BY <1>1, <1>6, <2>1, ContentQuiet DEF Planned, Importing
  <1>7. CASE /\ cur.read = "blob" /\ blob[cur.blob].st = "captured"
             /\ got' = blob[cur.blob].units /\ mpc' = "save" /\ UNCHANGED cur
    <2>1. BlobRead(World, r, cur) /\ cur.read # "live"
      BY <1>3, <1>7 DEF ReadOK
    <2>2. r.blob # 0 /\ got' = blob[r.blob].units
      BY <1>7, <2>1 DEF BlobRead
    <2>3. Sent(loki, blob[r.blob].units, r.off)
      BY <1>3, <2>2 DEF GoodRow, RowSent
    <2>4. GotOK(World, r, cur, got')
      BY <1>4, <2>1, <2>2, <2>3 DEF GotOK
    <2> QED
      BY <1>6, <1>7, <2>4
  <1>8. CASE /\ cur.read = "live" /\ Readable(w)
             /\ got' = First(data[w.ino], w.n) /\ mpc' = "save" /\ UNCHANGED cur
    <2>1. /\ LiveRead(r, cur) /\ Known(D) /\ Len(D) = w.n
          /\ Sent(loki, D, r.off) /\ Still(World, w, D)
      BY <1>3, <1>4, <1>8 DEF ReadOK
    <2>2. /\ w.path \in Paths /\ at[w.path] = w.ino /\ Len(data[w.ino]) >= w.n
          /\ data[w.ino] \in Units /\ w.n \in Nat /\ D \in Units
      BY <1>3, <1>8 DEF Readable, HasFile, TypeInv, TypeOK, Plan, Wire, Row
    <2>3. \A j \in 1 .. Len(D) : data[w.ino][j] = D[j]
      BY <1>4, <2>1, <2>2 DEF Still
    <2> DEFINE g == First(data[w.ino], w.n)
    <2>4. g \in Units /\ Len(g) = w.n /\ \A j \in 1 .. Len(g) : g[j] = data[w.ino][j]
      BY <2>2, FirstIs
    <2>5. g = D
      <3> HIDE DEF g
      <3>1. Len(g) = Len(D)
        BY <2>1, <2>4
      <3>2. \A j \in 1 .. Len(g) : g[j] = D[j]
        BY <2>3, <2>4, <3>1
      <3> QED
        BY <2>2, <2>4, <3>1, <3>2, UnitsEqual
    <2>6. GotOK(World, r, cur, got')
      <3>1. got' = D
        BY <1>8, <2>5
      <3> QED
        BY <1>4, <1>8, <2>1, <3>1 DEF GotOK
    <2> QED
      BY <1>6, <1>8, <2>6
  <1>9. CASE mpc' = "next" /\ cur' = NoPlan
    BY <1>1, <1>9, CurIdle, ContentQuiet DEF Planned, Importing
  <1> QED
    BY <1>2, <1>7, <1>8, <1>9
-----------------------------------------------------------------------------
\* What a source that is being marked has: the length of what was read.
LEMMA MarkIs ==
  ASSUME TypeInv, BlobInv, OwnInv, ContentInv, mpc \in {"mark", "markdigest", "markack"}
  PROVE  LET r == rows[cur.src]
             D == r.digest
             nb == Len(blob[r.blob].units)
         IN  /\ cur # NoPlan /\ cur \in Plan /\ cur.src \in Slots /\ got \in Units
             /\ r \in Row /\ RowOK(World, r) /\ PlanRow(r, cur, todo) /\ GotOK(World, r, cur, got)
             /\ D \in Units /\ Len(D) \in Nat /\ Len(got) \in Nat /\ r.off \in Nat /\ r.n \in Nat
             /\ r.csize \in Nat
             /\ r.off >= Len(got) /\ Sent(loki, got, Len(got)) /\ cur.raw = Len(got)
             /\ \/ /\ cur.read = "blob" /\ r.blob # 0 /\ got = blob[r.blob].units
                   /\ Old(World, got) /\ nb = Len(got) /\ r.off <= nb
                \/ /\ cur.read = "live" /\ Known(D) /\ got = D /\ Len(got) = r.n
                   /\ r.blob # 0 => r.done
             /\ World.blob = blob /\ World.loki = loki
  <1> DEFINE r == rows[cur.src]
             D == r.digest
             nb == Len(blob[r.blob].units)
  <1>1. mpc \in Importing /\ mpc \in Reading
    BY DEF Importing, Reading
  <1>2. /\ cur # NoPlan /\ cur \in Plan /\ cur.src \in Slots /\ got \in Units
        /\ r \in Row /\ RefOK(r) /\ RowOK(World, r) /\ PlanRow(r, cur, todo)
    BY <1>1, SourceIs
  <1>3. /\ GotOK(World, r, cur, got) /\ r.off >= Len(got) /\ cur.read \in {"blob", "live"}
    BY <1>1, <1>2 DEF ContentInv, CurGood, BlobInv, GotBlob
  <1>4. World.blob = blob /\ World.loki = loki
    BY DEF World
  <1>5. /\ D \in Units /\ r.off \in Nat /\ r.n \in Nat /\ r.csize \in Nat
    BY <1>2 DEF Row
  <1>6. Len(D) \in Nat /\ Len(got) \in Nat
    BY <1>2, <1>5 DEF Units
  <1> HIDE DEF r
  <1>7. Sent(loki, got, Len(got))
    BY <1>3, <1>4, <1>5, <1>6 DEF GotOK, Sent
  <1>8. CASE cur.read = "blob"
    <2>1. /\ r.blob # 0 /\ got = blob[r.blob].units /\ cur.raw = nb /\ r.off <= nb
      BY <1>3, <1>4, <1>8 DEF GotOK, BlobRead
    <2>2. Old(World, got)
      BY <1>2, <2>1 DEF ContentInv, GuestOK, RefOK
    <2> QED
      BY <1>2, <1>3, <1>4, <1>5, <1>6, <1>7, <1>8, <2>1, <2>2 DEF r
  <1>9. CASE cur.read = "live"
    <2>1. /\ LiveRead(r, cur) /\ Known(D) /\ Len(got) = cur.wire.n /\ got = D
      BY <1>3, <1>9 DEF GotOK
    <2>2. cur.raw = cur.wire.n /\ r.n = cur.wire.n /\ (r.blob # 0 => r.done)
      BY <1>2, <2>1 DEF LiveRead, PlanRow, Unchanged
    <2> QED
      BY <1>2, <1>3, <1>4, <1>5, <1>6, <1>7, <1>9, <2>1, <2>2 DEF r
  <1> QED
    BY <1>3, <1>8, <1>9

LEMMA CompleteContent == TypeInv /\ BlobInv /\ OwnInv /\ ContentInv /\ MarkComplete => ContentInv'
  <1> SUFFICES ASSUME TypeInv, BlobInv, OwnInv, ContentInv, MarkComplete PROVE ContentInv'
    OBVIOUS
  <1> DEFINE r == rows[cur.src]
             D == r.digest
             nb == Len(blob[r.blob].units)
             w == cur.wire
             now == IF w = NoWire THEN r
                    ELSE [r EXCEPT !.path = w.path, !.ino = w.ino, !.n = w.n, !.m = w.m,
                                   !.act = w.act]
             frz == (cur.read = "blob" \/ r.frozen)
             q == [now EXCEPT !.done = TRUE, !.csize = cur.raw, !.frozen = frz]
             x == rows'[cur.src]
  <1>1. /\ mpc = "mark" /\ mpc' = "markdigest"
        /\ UNCHANGED <<at, data, mtime, open, clock, loki, cap, blob, pend, todo, plans, cur,
                       got, covered>>
    BY DEF MarkComplete
  <1>2. /\ cur # NoPlan /\ cur \in Plan /\ cur.src \in Slots /\ got \in Units
        /\ r \in Row /\ RowOK(World, r) /\ PlanRow(r, cur, todo) /\ GotOK(World, r, cur, got)
        /\ D \in Units /\ Len(D) \in Nat /\ Len(got) \in Nat /\ r.off \in Nat /\ r.n \in Nat
        /\ r.csize \in Nat
        /\ r.off >= Len(got) /\ Sent(loki, got, Len(got)) /\ cur.raw = Len(got)
        /\ \/ /\ cur.read = "blob" /\ r.blob # 0 /\ got = blob[r.blob].units
              /\ Old(World, got) /\ nb = Len(got) /\ r.off <= nb
           \/ /\ cur.read = "live" /\ Known(D) /\ got = D /\ Len(got) = r.n
              /\ r.blob # 0 => r.done
        /\ World.blob = blob /\ World.loki = loki
    BY <1>1, MarkIs
  <1>3. /\ now \in Row /\ now.off = r.off /\ now.digest = r.digest /\ now.blob = r.blob
        /\ now.ino = r.ino /\ now.n = r.n /\ now.ack = r.ack /\ now.frozen = r.frozen
    <2>1. CASE w = NoWire
      BY <1>2, <2>1
    <2>2. CASE w # NoWire
      <3>1. w.path = r.path /\ w.ino = r.ino /\ w.n = r.n /\ w.m = r.m /\ w.act = r.act
        BY <1>2, <2>2 DEF PlanRow, Unchanged
      <3>2. now = [r EXCEPT !.path = w.path, !.ino = w.ino, !.n = w.n, !.m = w.m,
                            !.act = w.act]
        BY <2>2
      <3>3. w \in Wire
        BY <1>2 DEF Plan
      <3> HIDE DEF now, w
      <3> QED
        BY <1>2, <3>1, <3>2, <3>3 DEF Row, Wire
    <2> QED
      BY <2>1, <2>2
  <1>4. frz \in BOOLEAN /\ cur.raw \in Nat
    BY <1>2 DEF Row
  <1>5. rows' = Put(cur.src, q)
    BY <1>3 DEF MarkComplete
  <1> HIDE DEF now, frz
  <1>6. /\ q \in Row /\ q.off = r.off /\ q.digest = D /\ q.blob = r.blob
        /\ q.ino = r.ino /\ q.n = r.n /\ q.ack = r.ack /\ q.done /\ q.csize = cur.raw
    BY <1>3, <1>4 DEF Row
  <1> HIDE DEF q, r, D, nb
  <1>7. q.csize = Len(got)
    BY <1>2, <1>6
  <1>8. Known(D) => (nb <= Len(D) /\ Sent(loki, D, nb)) \/ r.blob = 0
    BY <1>2 DEF RowOK, BlobProgress, nb, D
  <1>9. Known(D) => Len(got) <= Len(D) /\ Sent(loki, D, Len(got))
    BY <1>2, <1>8
  <1>10. Progress(World, q)
    <2> SUFFICES ASSUME Known(D)
                 PROVE  /\ Old(World, D) /\ q.off <= Len(D)
                        /\ Shows(World, q.ino, D) => Sent(loki, D, q.off)
                        /\ q.csize <= Len(D) /\ Sent(loki, D, q.csize)
      BY <1>2, <1>6 DEF Progress
    <2>1. /\ Old(World, D) /\ r.off <= Len(D)
          /\ Shows(World, r.ino, D) => Sent(loki, D, r.off)
      BY <1>2 DEF RowOK, Progress, D
    <2> QED
      BY <1>6, <1>7, <1>9, <2>1
  <1>11. BlobProgress(World, q)
    <2> SUFFICES ASSUME r.blob # 0
                 PROVE  /\ q.off >= nb
                        /\ ~ Known(D) \/ q.csize > q.n => q.off <= nb
      BY <1>2, <1>6, <1>8 DEF BlobProgress, nb, D
    <2>1. CASE cur.read = "blob"
      BY <1>2, <1>6, <2>1
    <2>2. CASE cur.read = "live"
      <3>1. r.off >= nb
        BY <1>2, <2>2 DEF RowOK, BlobProgress, nb
      <3> QED
        BY <1>2, <1>6, <1>7, <2>2, <3>1
    <2> QED
      BY <1>2, <2>1, <2>2
  <1>12. PlainProgress(q)
    BY <1>2, <1>6, <1>7 DEF PlainProgress
  <1>13. AckSize(World, q)
    <2> SUFFICES ASSUME r.ack, Known(D)
                 PROVE  \/ r.blob # 0 /\ Len(D) = Len(got) /\ Len(got) = nb
                        \/ Len(got) <= Len(D) /\ Len(D) <= r.n
      BY <1>2, <1>6, <1>7 DEF AckSize, nb, D
    <2>1. CASE cur.read = "live"
      BY <1>2, <2>1
    <2>2. CASE cur.read = "blob"
      <3>1. r.blob # 0 /\ Len(got) = nb
        BY <1>2, <2>2
      <3>2. ~ r.done => Len(D) = nb
        BY <1>2, <2>2, <3>1 DEF RowOK, BlobProgress, nb, D
      <3>3. r.done => Len(D) = nb \/ Len(D) <= r.n
        BY <1>2, <2>2, <3>1 DEF RowOK, AckSize, nb, D
      <3> QED
        BY <1>9, <3>1, <3>2, <3>3
    <2> QED
      BY <1>2, <2>1, <2>2
  <1>14. RowOK(World, q)
    BY <1>10, <1>11, <1>12, <1>13 DEF RowOK
  <1>15. Same(x, q)
    BY <1>2, <1>5, <1>6, PutIs DEF TypeInv, TypeOK
  <1>16. World' = World
    BY <1>1, WorldSame
  <1> HIDE DEF x
  <1>17. GotOK(World, x, cur, got)
    BY <1>2, <1>6, <1>15 DEF GotOK, BlobRead, LiveRead, Same, D
  <1>18. CurGood'
    BY <1>1, <1>2, <1>6, <1>7, <1>15, <1>16, <1>17 DEF CurGood, Reading, Same, x
  <1> QED
    BY <1>1, <1>5, <1>6, <1>14, <1>18, ContentWrite DEF Importing
-----------------------------------------------------------------------------
\* Writing the digest that was read: it is as long as what is complete.
LEMMA DigestMarkContent == TypeInv /\ BlobInv /\ OwnInv /\ ContentInv /\ MarkDigest => ContentInv'
  <1> SUFFICES ASSUME TypeInv, BlobInv, OwnInv, ContentInv, MarkDigest PROVE ContentInv'
    OBVIOUS
  <1> DEFINE r == rows[cur.src]
             D == r.digest
             nb == Len(blob[r.blob].units)
             q == [r EXCEPT !.digest = got]
             x == rows'[cur.src]
  <1>1. /\ mpc = "markdigest" /\ mpc' = "markack" /\ rows' = Put(cur.src, q)
        /\ UNCHANGED <<at, data, mtime, open, clock, loki, cap, blob, pend, todo, plans, cur,
                       got, covered>>
    BY DEF MarkDigest
  <1>2. /\ cur # NoPlan /\ cur \in Plan /\ cur.src \in Slots /\ got \in Units
        /\ r \in Row /\ RowOK(World, r) /\ PlanRow(r, cur, todo) /\ GotOK(World, r, cur, got)
        /\ D \in Units /\ Len(D) \in Nat /\ Len(got) \in Nat /\ r.off \in Nat /\ r.n \in Nat
        /\ r.csize \in Nat
        /\ r.off >= Len(got) /\ Sent(loki, got, Len(got)) /\ cur.raw = Len(got)
        /\ \/ /\ cur.read = "blob" /\ r.blob # 0 /\ got = blob[r.blob].units
              /\ Old(World, got) /\ nb = Len(got) /\ r.off <= nb
           \/ /\ cur.read = "live" /\ Known(D) /\ got = D /\ Len(got) = r.n
              /\ r.blob # 0 => r.done
        /\ World.blob = blob /\ World.loki = loki
    BY <1>1, MarkIs
  <1>3. r.done /\ r.csize = Len(got)
    BY <1>1 DEF ContentInv, CurGood
  <1>4. /\ q \in Row /\ q.off = r.off /\ q.done = r.done /\ q.csize = r.csize /\ q.blob = r.blob
        /\ q.ino = r.ino /\ q.n = r.n /\ q.ack = r.ack /\ q.digest = got
    BY <1>2 DEF Row
  <1> HIDE DEF q, r, D, nb
  <1>5. RowOK(World, q)
    <2>1. CASE cur.read = "live"
      <3>1. q.digest = D
        BY <1>2, <1>4, <2>1
      <3> QED
        BY <1>2, <1>4, <3>1 DEF D, RowOK, Progress, BlobProgress, PlainProgress, AckSize
    <2>2. CASE cur.read = "blob"
      <3>1. /\ q.blob # 0 /\ got = blob[r.blob].units /\ Old(World, got) /\ nb = Len(got)
            /\ q.off = nb /\ Sent(World.loki, got, nb) /\ q.done /\ q.csize = nb
            /\ nb \in Nat /\ nb = Len(World.blob[q.blob].units)
        BY <1>2, <1>3, <1>4, <2>2 DEF nb
      <3>2. Progress(World, q)
        BY <1>4, <3>1 DEF Progress
      <3>3. BlobProgress(World, q)
        BY <1>4, <3>1 DEF BlobProgress
      <3>4. PlainProgress(q) /\ AckSize(World, q)
        BY <1>4, <3>1 DEF PlainProgress, AckSize
      <3> QED
        BY <3>2, <3>3, <3>4 DEF RowOK
    <2> QED
      BY <1>2, <2>1, <2>2
  <1>6. Same(x, q)
    BY <1>1, <1>2, <1>4, PutIs DEF TypeInv, TypeOK
  <1>7. World' = World
    BY <1>1, WorldSame
  <1> HIDE DEF x
  <1>8. GotOK(World, x, cur, got)
    BY <1>2, <1>4, <1>6 DEF GotOK, BlobRead, LiveRead, Same, D
  <1>9. CurGood'
    BY <1>1, <1>2, <1>3, <1>4, <1>6, <1>7, <1>8 DEF CurGood, Reading, Same, x
  <1> QED
    BY <1>1, <1>4, <1>5, <1>9, ContentWrite DEF Importing

\* Acknowledging: the row has the digest of what is complete, and it is covered.
LEMMA AckMarkContent ==
  TypeInv /\ BlobInv /\ OwnInv /\ ContentInv /\ MarkAcknowledged => ContentInv'
  <1> SUFFICES ASSUME TypeInv, BlobInv, OwnInv, ContentInv, MarkAcknowledged PROVE ContentInv'
    OBVIOUS
  <1> DEFINE r == rows[cur.src]
             D == r.digest
             nb == Len(blob[r.blob].units)
             q == [r EXCEPT !.ack = TRUE]
             x == rows'[cur.src]
  <1>1. /\ mpc = "markack" /\ mpc' = "next" /\ cur' = NoPlan /\ rows' = Put(cur.src, q)
        /\ covered' = CoveredBy(cur, x)
        /\ UNCHANGED <<at, data, mtime, open, clock, loki, cap, blob, pend, todo, plans>>
    BY DEF MarkAcknowledged
  <1>2. /\ cur # NoPlan /\ cur \in Plan /\ cur.src \in Slots /\ got \in Units
        /\ r \in Row /\ RowOK(World, r) /\ PlanRow(r, cur, todo) /\ GotOK(World, r, cur, got)
        /\ D \in Units /\ Len(D) \in Nat /\ Len(got) \in Nat /\ r.off \in Nat /\ r.n \in Nat
        /\ r.csize \in Nat
        /\ r.off >= Len(got) /\ Sent(loki, got, Len(got)) /\ cur.raw = Len(got)
        /\ \/ /\ cur.read = "blob" /\ r.blob # 0 /\ got = blob[r.blob].units
              /\ Old(World, got) /\ nb = Len(got) /\ r.off <= nb
           \/ /\ cur.read = "live" /\ Known(D) /\ got = D /\ Len(got) = r.n
              /\ r.blob # 0 => r.done
        /\ World.blob = blob /\ World.loki = loki
    BY <1>1, MarkIs
  <1>3. r.done /\ r.csize = Len(got) /\ D = got
    BY <1>1 DEF ContentInv, CurGood
  <1>4. /\ q \in Row /\ q.off = r.off /\ q.done = r.done /\ q.csize = r.csize /\ q.blob = r.blob
        /\ q.ino = r.ino /\ q.n = r.n /\ q.ack /\ q.digest = D
        /\ q.path = r.path /\ q.m = r.m /\ q.act = r.act
    BY <1>2 DEF Row
  <1>5. Same(x, q) /\ x \in Row
    BY <1>1, <1>2, <1>4, PutIs DEF TypeInv, TypeOK
  <1> HIDE DEF q, r, D, nb, x
  <1>6. RowOK(World, q)
    <2>1. AckSize(World, q)
      <3>1. CASE cur.read = "live"
        BY <1>2, <1>3, <1>4, <3>1 DEF AckSize
      <3>2. CASE cur.read = "blob"
        BY <1>2, <1>3, <1>4, <3>2 DEF AckSize, nb
      <3> QED
        BY <1>2, <3>1, <3>2
    <2>2. Progress(World, q)
      BY <1>2, <1>4 DEF D, RowOK, Progress
    <2>3. BlobProgress(World, q)
      BY <1>2, <1>3, <1>4 DEF D, RowOK, BlobProgress
    <2>4. PlainProgress(q)
      BY <1>2, <1>4 DEF D, RowOK, PlainProgress
    <2> QED
      BY <2>1, <2>2, <2>3, <2>4 DEF RowOK
  <1>7. RowOK(World, x)
    BY <1>5, <1>6 DEF Same, RowOK, Progress, BlobProgress, PlainProgress, AckSize
  <1>8. PlanRow(x, cur, todo)
    BY <1>2, <1>4, <1>5 DEF PlanRow, Same, Unchanged
  <1>9. CoverGood'
    <2>1. CoverGood
      BY DEF ContentInv
    <2> QED
      BY <1>1, <1>2, <1>5, <1>7, <1>8, <2>1, CoversContent
  <1>10. CurGood'
    BY <1>1, CurIdle DEF Importing
  <1> QED
    BY <1>1, <1>4, <1>6, <1>9, <1>10, ContentWrite DEF Importing
-----------------------------------------------------------------------------
\* Every step keeps ContentInv.
LEMMA ContentNext ==
  ASSUME TypeInv, BlobInv, OwnInv, OwnRows', ContentInv, ~ Interfere, [Next]_vars
  PROVE  ContentInv'
  <1>1. CASE UNCHANGED vars
    <2>1. UNCHANGED <<at, data, mtime, open, clock, loki, rows, cap, blob, pend, mpc, todo, recs,
                      plans, cur, got, covered>>
      BY <1>1 DEF vars
    <2>2. CurGood'
      BY <2>1 DEF ContentInv, CurGood, World
    <2> QED
      BY <2>1, <2>2, ContentQuiet
  <1>2. CASE StartRun
    BY <1>2, StartContent
  <1>3. CASE BeginCapture \/ FinishCapture \/ \E p \in Paths : SpoolBlob(p) \/ CaptureFails(p)
    BY <1>3, CaptureContent
  <1>4. CASE PushBatch \/ AckBatch \/ RebuildBatch
    BY <1>4, PushContent, AckContent, RebuildContent
  <1>5. CASE RebuildFails \/ EndRun \/ Crash
    <2>1. Forget /\ UNCHANGED <<at, data, mtime, open, clock, loki, rows, cap, blob, pend>>
      BY <1>5 DEF RebuildFails, EndRun, Crash
    <2> QED
      BY <2>1, ForgetContent
  <1>6. CASE BeginPlan \/ EndPlan \/ StopOnBudget \/ EndImport \/ \E p \in Paths : ReleaseBlob(p)
    BY <1>6, EdgeContent
  <1>7. ASSUME NEW w \in todo, PlanWire(w) PROVE ContentInv'
    BY <1>7, PlanWireContent
  <1>8. ASSUME NEW p \in Paths, PlanBlob(p) PROVE ContentInv'
    BY <1>8, PlanBlobContent
  <1>9. ASSUME NEW l \in plans, PickPlan(l) PROVE ContentInv'
    BY <1>9, PickContent
  <1>10. CASE VerifyPrefix \/ SaveDigest \/ ReadSource \/ NothingToSend
    BY <1>10, VerifyContent, DigestContent, ReadContent, NothingContent
  <1>11. ASSUME NEW k \in 1 .. MaxClock, NEW done \in BOOLEAN, SaveBatch(k, done)
         PROVE  ContentInv'
    BY <1>11, SaveContent
  <1>12. CASE MarkComplete \/ MarkDigest \/ MarkAcknowledged
    BY <1>12, CompleteContent, DigestMarkContent, AckMarkContent
  <1>13. CASE Guest
    BY <1>13, GuestContent
  <1> QED
    BY <1>1, <1>2, <1>3, <1>4, <1>5, <1>6, <1>7, <1>8, <1>9, <1>10, <1>11, <1>12, <1>13
       DEF Next, Manager

\* The inductive invariant of all the theorems that follow.
LEMMA AlwaysContent ==
  ASSUME ~ Interfere
  PROVE  Spec /\ []OwnRows => [](TypeInv /\ BlobInv /\ OwnInv /\ ContentInv)
  <1>1. TypeInv /\ BlobInv /\ OwnInv /\ OwnRows' /\ ContentInv /\ [Next]_vars => ContentInv'
    BY ContentNext
  <1> QED
    BY TypeInit, BlobInit, OwnInit, ContentInit, TypeStep, BlobNext, OwnNext, <1>1, PTL DEF Spec

\* As long as every planned file has a row of its own and the guest does not rewrite
\* a log under a running import, a file is offered for deletion only with a digest of
\* its own size, all of whose units Loki has accepted: through lost pushes, crashes
\* between any two transactions, appends and rotations.
THEOREM AlwaysCoveredArchived == ~ Interfere => (Spec /\ []OwnRows => []CoveredMeansArchived)
  <1> SUFFICES ASSUME ~ Interfere PROVE Spec /\ []OwnRows => []CoveredMeansArchived
    OBVIOUS
  <1>1. ContentInv => CoveredMeansArchived
    <2> SUFFICES ASSUME ContentInv, NEW c \in covered
                 PROVE  Elems(c.digest) \subseteq loki /\ Len(c.digest) = c.n
      BY DEF CoveredMeansArchived
    <2>1. /\ Len(c.digest) = c.n
          /\ \A j \in 1 .. Len(c.digest) : j <= Len(c.digest) => c.digest[j] \in loki
      BY DEF ContentInv, CoverGood, Sent
    <2>2. \A j \in 1 .. Len(c.digest) : c.digest[j] \in loki
      BY <2>1
    <2> QED
      BY <2>1, <2>2 DEF Elems
  <1> QED
    BY AlwaysContent, <1>1, PTL

\* Under the same conditions a completed prefix is archived for good: no crash between
\* the completion's three transactions and no later planning, refresh or resumed batch
\* makes a row vouch for units Loki does not have.
THEOREM AlwaysCompleteArchived == ~ Interfere => (Spec /\ []OwnRows => []CompleteMeansArchived)
  <1> SUFFICES ASSUME ~ Interfere PROVE Spec /\ []OwnRows => []CompleteMeansArchived
    OBVIOUS
  <1>1. TypeInv /\ ContentInv => CompleteMeansArchived
    <2> SUFFICES ASSUME TypeInv, ContentInv, NEW s \in Slots, PrefixComplete(rows[s])
                 PROVE  Elems(First(rows[s].digest, rows[s].csize)) \subseteq loki
      BY DEF CompleteMeansArchived
    <2> DEFINE D == rows[s].digest
               k == rows[s].csize
               f == First(D, k)
    <2>1. D \in Units /\ k \in Nat
      BY DEF TypeInv, TypeOK, Row
    <2>2. Len(D) \in Nat
      BY <2>1 DEF Units
    <2>3. k <= Len(D) /\ Sent(loki, D, k)
      BY DEF ContentInv, RowsGood, RowOK, Progress, PrefixComplete, Known, World
    <2>4. Len(f) = k /\ \A j \in 1 .. Len(f) : f[j] = D[j]
      BY <2>1, <2>2, <2>3, FirstIs
    <2> HIDE DEF f, D, k
    <2>5. \A j \in 1 .. Len(f) : f[j] \in loki
      BY <2>1, <2>2, <2>3, <2>4 DEF Sent
    <2>6. Elems(f) \subseteq loki
      BY <2>5 DEF Elems
    <2> QED
      BY <2>6 DEF f, D, k
  <1> QED
    BY AlwaysContent, <1>1, PTL

\* Under the same conditions no unit is skipped: with the batch about to be sent, Loki
\* has everything up to the batch's end, and the whole source when the batch completes
\* it, however many runs, resumed batches and refreshed rows its progress came through.
THEOREM AlwaysNothingSkipped == ~ Interfere => (Spec /\ []OwnRows => []NothingSkipped)
  <1> SUFFICES ASSUME ~ Interfere PROVE Spec /\ []OwnRows => []NothingSkipped
    OBVIOUS
  <1>1. TypeInv /\ BlobInv /\ OwnInv /\ ContentInv => NothingSkipped
    <2> SUFFICES ASSUME TypeInv, BlobInv, OwnInv, ContentInv, mpc = "push"
                 PROVE  Elems(IF pend.done THEN got ELSE First(got, pend.to)) \subseteq
                            loki \cup Elems(pend.units)
      BY DEF NothingSkipped
    <2> DEFINE r == rows[cur.src]
               f == First(got, pend.to)
               S == loki \cup Elems(pend.units)
    <2>1. cur # NoPlan /\ cur \in Plan /\ got \in Units /\ r \in Row
      BY SourceIs DEF Importing
    <2>2. /\ pend # NoBatch /\ pend \in Batch /\ pend.src = cur.src /\ pend.from = r.off
          /\ pend.done => pend.to = Len(got)
      BY <2>1 DEF TypeInv, TypeOK, RefInv, BlobInv, GotBlob, OwnInv, PendOwn
    <2>3. Sent(loki, got, r.off) /\ pend.to <= Len(got) /\ Slice(got, pend)
      BY <2>1 DEF ContentInv, CurGood, Reading, GotOK, World
    <2>4. pend.from \in Nat /\ pend.to \in Nat /\ Len(got) \in Nat
      BY <2>1, <2>2 DEF Batch, Units
    <2> HIDE DEF r
    <2>5. \A j \in 1 .. Len(got) : j <= pend.to => got[j] \in S
      BY <2>2, <2>3, <2>4 DEF Sent, Slice
    <2>6. Len(f) = pend.to /\ \A j \in 1 .. Len(f) : f[j] = got[j]
      BY <2>1, <2>3, <2>4, FirstIs
    <2> HIDE DEF f, S
    <2>7. \A j \in 1 .. Len(f) : f[j] \in S
      BY <2>3, <2>4, <2>5, <2>6
    <2>8. pend.done => \A j \in 1 .. Len(got) : got[j] \in S
      BY <2>2, <2>4, <2>5
    <2>9. Elems(IF pend.done THEN got ELSE f) \subseteq S
      BY <2>7, <2>8 DEF Elems
    <2> QED
      BY <2>9 DEF f, S
  <1> QED
    BY AlwaysContent, <1>1, PTL
=============================================================================
